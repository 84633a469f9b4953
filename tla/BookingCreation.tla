--------------------------- MODULE BookingCreation ---------------------------
(***************************************************************************)
(* How a booking with one specialist comes into being, and what it commits *)
(* besides itself: the idempotency operation of its key, a voucher use or  *)
(* a loyalty reward, under the deletion fences of its two accounts.        *)
(*                                                                         *)
(* createBookingService looks for a replay, validates the slot, and runs   *)
(* one transaction.  The transaction is one action, because every document *)
(* its outcome depends on is also written by it (fences, operation,        *)
(* voucher, reward, slot holds), so that it is in order with every other   *)
(* writer of these.  The one exception, the count of completed bookings    *)
(* that prices the reward, is a step of its own.  deleteAccountAtomically  *)
(* reads the active bookings and writes none: its snapshot and its commit  *)
(* are two steps.                                                          *)
(*                                                                         *)
(* A slot is taken or free here; BookingLifecycle models holds and times.  *)
(***************************************************************************)
EXTENDS Integers, FiniteSets

CONSTANTS
  Client,     \* accounts of clients
  Barber,     \* the account of the specialist
  Slot,       \* dates and times that can be asked for
  Booking,    \* ids of the bookings that may be created (bound)
  Key,        \* idempotency keys, each of one actor
  KeyOf,      \* the actor that uses the key
  NoKey,      \* a request without a key
  Coupons,    \* whether requests may or must carry the voucher's code: a subset of BOOLEAN
  NoBooking,  \* the bookingId of a restored reward
  Nobody,     \* the deletionId of an open fence
  Request,    \* booking requests in flight
  Remover,    \* account deletions in flight
  Editor,     \* voucher updates in flight
  Joiner,     \* clients that use the waitlist
  Limit,      \* values the owner may give maxUses
  Earlier,    \* completed bookings of every client before the first state
  Threshold   \* thresholdCompletedBookings of the loyalty settings

Account == Client \cup {Barber}

ASSUME CreationAssumption ==
  /\ Barber \notin Client
  /\ KeyOf \in [Key -> Account]
  /\ NoKey \notin Key /\ NoBooking \notin Booking /\ Nobody \notin Remover
  /\ IsFiniteSet(Booking)
  /\ Coupons \subseteq BOOLEAN /\ Joiner \subseteq Client
  /\ Limit \subseteq Nat \ {0}
  /\ Earlier \in Nat /\ Threshold \in Nat \ {0}

\* What a request asks for; its fingerprint is the whole of it.
Ask == [actor : Account, key : Key \cup {NoKey}, slot : Slot, coupon : Coupons \cup {FALSE}]

BookingStatus == {"active", "undone", "completed", "lapsed"}
Blank == [status |-> "blank"]
BookingRecord ==
  [status : BookingStatus, origin : {"request", "waitlist"}, ask : Ask, milestone : Nat]

Refusal == {"mismatch", "taken", "deleting", "unavailable"}
Idle == [pc |-> "idle"]
RequestState ==
  {Idle}
  \cup [pc : {"keyed"}, ask : Ask]
  \cup [pc : {"priced"}, ask : Ask, milestone : Nat]
  \cup [pc : {"booked"}, ask : Ask, booking : Booking]
  \cup [pc : {"refused"}, refusal : Refusal]
RemovalState ==
  {Idle}
  \cup [pc : {"leaving", "fenced", "removed", "releasing"}, account : Account]
  \cup [pc : {"removing"}, account : Account, seen : SUBSET Client]

VARIABLES
  users,        \* accounts that exist
  fence,        \* AccountDeletionRecord of each account
  bookings,     \* by id
  operations,   \* BookingCreateIdempotencyOperation documents
  voucher,      \* the one voucher of the specialist
  lowered,      \* history: a stale update put maxUses below the uses
  rewards,      \* LoyaltyRewardRedemption documents
  waiting,      \* clients with an entry on the specialist's waitlist
  request, removal, edit   \* how far each process has come

vars == <<users, fence, bookings, operations, voucher, lowered, rewards, waiting,
          request, removal, edit>>

TypeOK ==
  /\ users \subseteq Account
  /\ fence \in [Account -> [state : {"active", "deleting", "deleted"}, by : Remover \cup {Nobody}]]
  /\ bookings \in [Booking -> {Blank} \cup BookingRecord]
  /\ operations \subseteq [ask : Ask, booking : Booking]
  /\ voucher \in [active : BOOLEAN, max : Limit, uses : Nat, redemptions : SUBSET Booking]
  /\ lowered \in BOOLEAN
  /\ rewards \subseteq [client : Client, milestone : Nat,
                        status : {"claimed", "restored", "consumed"},
                        booking : Booking \cup {NoBooking}]
  /\ waiting \subseteq Client
  /\ request \in [Request -> RequestState]
  /\ removal \in [Remover -> RemovalState]
  /\ edit \in [Editor -> {Idle} \cup [pc : {"loaded"}, max : Limit]]

Init ==
  /\ users = Account
  /\ fence = [u \in Account |-> [state |-> "active", by |-> Nobody]]
  /\ bookings = [b \in Booking |-> Blank]
  /\ operations = {} /\ rewards = {} /\ waiting = {}
  /\ voucher \in [active : {TRUE}, max : Limit, uses : {0}, redemptions : {{}}]
  /\ lowered = FALSE
  /\ request = [r \in Request |-> Idle]
  /\ removal = [x \in Remover |-> Idle]
  /\ edit = [e \in Editor |-> Idle]

database == <<users, fence, bookings, operations, voucher, lowered, rewards, waiting>>

Active(b) == bookings[b].status = "active"
Concerns(b, u) == u = Barber \/ bookings[b].ask.actor = u
Busy(slot) == \E b \in Booking : Active(b) /\ bookings[b].ask.slot = slot

----------------------------------------------------------------------------
\* Idempotency
KeysOf(actor) == {k \in Key : KeyOf[k] = actor} \cup {NoKey}

Existing(ask) == {o \in operations : o.ask.key = ask.key}

\* Mutant: the unique index is missing.
InsertableUnindexed(ask) == TRUE

\* The unique index on actor and key.
Insertable(ask) == Existing(ask) = {}

Answer(r, ask, b) ==
  request' = [request EXCEPT ![r] = [pc |-> "booked", ask |-> ask, booking |-> b]]

Refuse(r, refusal) ==
  request' = [request EXCEPT ![r] = [pc |-> "refused", refusal |-> refusal]]

\* Mutant: the fingerprint is not compared.
ReplayUncompared(r, ask) ==
  \E o \in Existing(ask) : Answer(r, ask, o.booking)

\* findReplayResult: the booking of the key, or 409 for another request.
Replay(r, ask) ==
  \E o \in Existing(ask) :
    IF o.ask = ask THEN Answer(r, ask, o.booking) ELSE Refuse(r, "mismatch")

StartCreate(r, ask) ==
  /\ request[r] = Idle
  /\ ask.coupon \in Coupons
  /\ ask.actor \in users /\ ask.key \in KeysOf(ask.actor)
  /\ IF Existing(ask) # {}
       THEN Replay(r, ask)
       ELSE request' = [request EXCEPT ![r] = [pc |-> "keyed", ask |-> ask]]
  /\ UNCHANGED <<database, removal, edit>>

----------------------------------------------------------------------------
\* Pricing.  A manual booking and one with a voucher earn no reward.
CompletedCount(c) ==
  Earlier + Cardinality({b \in Booking : bookings[b].status = "completed" /\ Concerns(b, c)})

Milestone(ask) ==
  LET count == CompletedCount(ask.actor)
  IN IF ask.actor = Barber \/ ask.coupon \/ count < Threshold \/ count % Threshold # 0
       THEN 0 ELSE count \div Threshold

Enter(r, ask) ==
  request' = [request EXCEPT ![r] =
                [pc |-> "priced", ask |-> ask, milestone |-> Milestone(ask)]]

\* validateBookingSlot, before the lock and the transaction.
ValidateSlot(r) ==
  /\ request[r].pc = "keyed"
  /\ IF Busy(request[r].ask.slot) THEN Refuse(r, "taken") ELSE Enter(r, request[r].ask)
  /\ UNCHANGED <<database, removal, edit>>

\* calculateLoyaltyDiscountForBooking counts outside the transaction's session, once in
\* each attempt of withTransaction.
Price(r) ==
  /\ request[r].pc = "priced"
  /\ Enter(r, request[r].ask)
  /\ UNCHANGED <<database, removal, edit>>

\* Mutant: the limit is not part of the claim.
VoucherClaimableUnlimited == voucher.active

VoucherClaimable == voucher.active /\ voucher.uses < voucher.max

ClaimVoucher(b) ==
  voucher' = [voucher EXCEPT !.uses = @ + 1, !.redemptions = @ \cup {b}]

\* restoreVoucherOnCancel throws, and the cancellation with it, when nothing matches.
VoucherRestorable(b) == b \in voucher.redemptions /\ voucher.uses > 0

\* Mutant: the booking is not pulled from the redemptions.
RestoreVoucherUnpulled(b) == voucher' = [voucher EXCEPT !.uses = @ - 1]

RestoreVoucher(b) ==
  voucher' = [voucher EXCEPT !.uses = @ - 1, !.redemptions = @ \ {b}]

RewardsOf(client, milestone) ==
  {d \in rewards : d.client = client /\ d.milestone = milestone}

\* Mutant: a reward whose booking was completed can be claimed again.
RewardClaimableConsumed(client, milestone) ==
  \A d \in RewardsOf(client, milestone) : d.status # "claimed"

RewardClaimable(client, milestone) ==
  \A d \in RewardsOf(client, milestone) : d.status = "restored"

ClaimReward(client, milestone, b) ==
  rewards' = (rewards \ RewardsOf(client, milestone))
             \cup {[client |-> client, milestone |-> milestone, status |-> "claimed", booking |-> b]}

\* restoreLoyaltyRewardForBooking and consumeLoyaltyRewardForBooking
ClaimedFor(b) == {d \in rewards : d.status = "claimed" /\ d.booking = b}

RestoreReward(b) ==
  rewards' = (rewards \ ClaimedFor(b))
             \cup {[d EXCEPT !.status = "restored", !.booking = NoBooking] : d \in ClaimedFor(b)}

ConsumeReward(b) ==
  rewards' = (rewards \ ClaimedFor(b)) \cup {[d EXCEPT !.status = "consumed"] : d \in ClaimedFor(b)}

----------------------------------------------------------------------------
\* The transaction of createBookingService, in the order of its refusals.

\* Mutant: the fence is not touched, only the accounts are looked up.
FencesOpenUnfenced(ask) == {Barber, ask.actor} \subseteq users

\* guardBookingMutation
FencesOpen(ask) == \A u \in {Barber, ask.actor} : fence[u].state = "active"

RefuseDeleting(r) ==
  /\ request[r].pc = "priced"
  /\ ~FencesOpen(request[r].ask)
  /\ Refuse(r, "deleting")
  /\ UNCHANGED <<database, removal, edit>>

\* The insert of the operation fails on the unique index: another request was first.
ReplayDuplicate(r) ==
  /\ request[r].pc = "priced"
  /\ FencesOpen(request[r].ask)
  /\ Replay(r, request[r].ask)
  /\ UNCHANGED <<database, removal, edit>>

RefuseTaken(r) ==
  /\ request[r].pc = "priced"
  /\ FencesOpen(request[r].ask) /\ Insertable(request[r].ask)
  /\ Busy(request[r].ask.slot)
  /\ Refuse(r, "taken")
  /\ UNCHANGED <<database, removal, edit>>

Claimable(ask, milestone) ==
  /\ ask.coupon => VoucherClaimable
  /\ milestone > 0 => RewardClaimable(ask.actor, milestone)

RefusePromotion(r) ==
  /\ request[r].pc = "priced"
  /\ FencesOpen(request[r].ask) /\ Insertable(request[r].ask)
  /\ ~Busy(request[r].ask.slot)
  /\ ~Claimable(request[r].ask, request[r].milestone)
  /\ Refuse(r, "unavailable")
  /\ UNCHANGED <<database, removal, edit>>

\* idempotency.persist
Persist(ask, b) ==
  operations' = IF ask.key = NoKey THEN operations
                ELSE operations \cup {[ask |-> ask, booking |-> b]}

\* The commit may land and its answer be lost: the request then fails with 500.
CommitCreate(r, b, heard) ==
  /\ request[r].pc = "priced"
  /\ bookings[b] = Blank
  /\ LET ask == request[r].ask
         milestone == request[r].milestone
     IN /\ FencesOpen(ask) /\ Insertable(ask)
        /\ ~Busy(ask.slot)
        /\ Claimable(ask, milestone)
        /\ Persist(ask, b)
        /\ IF ask.coupon THEN ClaimVoucher(b) ELSE UNCHANGED voucher
        /\ IF milestone > 0 THEN ClaimReward(ask.actor, milestone, b) ELSE UNCHANGED rewards
        /\ bookings' = [bookings EXCEPT ![b] =
             [status |-> "active", origin |-> "request", ask |-> ask, milestone |-> milestone]]
        /\ IF heard THEN Answer(r, ask, b)
                    ELSE request' = [request EXCEPT ![r] = Idle]
  /\ UNCHANGED <<users, fence, lowered, waiting, removal, edit>>

\* The answer is received, or the request fails or dies before it wrote anything.
EndRequest(r) ==
  /\ request[r] # Idle
  /\ request' = [request EXCEPT ![r] = Idle]
  /\ UNCHANGED <<database, removal, edit>>

----------------------------------------------------------------------------
\* The end of a booking, and what it gives back (who may end it when: BookingLifecycle).
SetStatus(b, status) == bookings' = [bookings EXCEPT ![b].status = status]

\* Rejected or cancelled, by updateBooking.
Undo(b) ==
  /\ Active(b)
  /\ SetStatus(b, "undone")
  /\ IF bookings[b].ask.coupon THEN VoucherRestorable(b) /\ RestoreVoucher(b)
                               ELSE UNCHANGED voucher
  /\ RestoreReward(b)
  /\ UNCHANGED <<users, fence, operations, lowered, waiting, request, removal, edit>>

Complete(b) ==
  /\ Active(b)
  /\ SetStatus(b, "completed")
  /\ ConsumeReward(b)
  /\ UNCHANGED <<users, fence, operations, voucher, lowered, waiting, request, removal, edit>>

\* Expired, no-show or late cancellation: nothing is given back.
Lapse(b) ==
  /\ Active(b)
  /\ SetStatus(b, "lapsed")
  /\ UNCHANGED <<users, fence, operations, voucher, lowered, rewards, waiting, request,
                 removal, edit>>

----------------------------------------------------------------------------
\* updateVoucher: the limit is compared with the uses that were read ...
StartEdit(e, max) ==
  /\ edit[e] = Idle
  /\ max # voucher.max /\ max >= voucher.uses
  /\ edit' = [edit EXCEPT ![e] = [pc |-> "loaded", max |-> max]]
  /\ UNCHANGED <<database, request, removal>>

\* ... and saved whatever they are by then.  A save writes the changed fields only.
SaveEdit(e) ==
  /\ edit[e] # Idle
  /\ voucher' = [voucher EXCEPT !.max = edit[e].max]
  /\ lowered' = (lowered \/ edit[e].max < voucher.uses)
  /\ edit' = [edit EXCEPT ![e] = Idle]
  /\ UNCHANGED <<users, fence, bookings, operations, rewards, waiting, request, removal>>

\* deleteVoucher, and updateVoucher of the field active.
SetVoucherActive(e, active) ==
  /\ edit[e] = Idle
  /\ voucher' = [voucher EXCEPT !.active = active]
  /\ UNCHANGED <<users, fence, bookings, operations, lowered, rewards, waiting, request,
                 removal, edit>>

----------------------------------------------------------------------------
\* The waitlist (modelled in Waitlist) as far as account deletion meets it.
JoinWaitlist(c) ==
  /\ {c, Barber} \subseteq users
  /\ waiting' = waiting \cup {c}
  /\ UNCHANGED <<users, fence, bookings, operations, voucher, lowered, rewards, request,
                 removal, edit>>

\* No fence is touched, and the specialist is looked up outside the transaction, so that
\* nothing orders the conversion with a deletion, unless the deletion's snapshot holds the
\* entry: then the two conflict and the deletion starts over.
ConvertEntry(c, b, slot) ==
  /\ c \in waiting /\ bookings[b] = Blank /\ ~Busy(slot)
  /\ waiting' = waiting \ {c}
  /\ bookings' = [bookings EXCEPT ![b] =
       [status |-> "active", origin |-> "waitlist", milestone |-> 0,
        ask |-> [actor |-> c, key |-> NoKey, slot |-> slot, coupon |-> FALSE]]]
  /\ removal' = [x \in Remover |->
       IF removal[x].pc = "removing" /\ c \in removal[x].seen
         THEN [pc |-> "fenced", account |-> removal[x].account] ELSE removal[x]]
  /\ UNCHANGED <<users, fence, operations, voucher, lowered, rewards, request, edit>>

----------------------------------------------------------------------------
\* deleteAccountAtomically
GotoRemoval(x, pc) ==
  removal' = [removal EXCEPT ![x] = [pc |-> pc, account |-> removal[x].account]]

StartRemoval(x, u) ==
  /\ removal[x] = Idle
  /\ u \in users
  /\ removal' = [removal EXCEPT ![x] = [pc |-> "leaving", account |-> u]]
  /\ UNCHANGED <<database, request, edit>>

\* beginAccountDeletionFence, or its refusal.
BeginFence(x) ==
  /\ removal[x].pc = "leaving"
  /\ LET u == removal[x].account
     IN IF fence[u].state = "active"
          THEN /\ fence' = [fence EXCEPT ![u] = [state |-> "deleting", by |-> x]]
               /\ GotoRemoval(x, "fenced")
          ELSE /\ removal' = [removal EXCEPT ![x] = Idle]
               /\ UNCHANGED fence
  /\ UNCHANGED <<users, bookings, operations, voucher, lowered, rewards, waiting, request, edit>>

EntriesOf(u) == IF u = Barber THEN waiting ELSE waiting \cap {u}

\* The transaction takes its snapshot: assertPreconditions reads the bookings in it.
OpenRemoval(x) ==
  /\ removal[x].pc = "fenced"
  /\ LET u == removal[x].account
     IN /\ u \in users
        /\ \A b \in Booking : Active(b) => ~Concerns(b, u)
        /\ removal' = [removal EXCEPT ![x] =
             [pc |-> "removing", account |-> u, seen |-> EntriesOf(u)]]
  /\ UNCHANGED <<database, request, edit>>

\* A precondition fails, or the database does, and the transaction is rolled back.
FailRemoval(x) ==
  /\ removal[x].pc \in {"fenced", "removing"}
  /\ GotoRemoval(x, "releasing")
  /\ UNCHANGED <<database, request, edit>>

\* removePrivateState and the removal of the user.
Remove(x) ==
  LET u == removal[x].account
  IN /\ users' = users \ {u}
     /\ waiting' = waiting \ removal[x].seen
     /\ rewards' = {d \in rewards : u # Barber /\ d.client # u}
     /\ UNCHANGED <<fence, bookings, operations, voucher, lowered, request, edit>>

\* The outcome of the commit may stay unknown: the request then fails with 503 and
\* leaves the fence as it is.
CommitRemoval(x, heard) ==
  /\ removal[x].pc = "removing"
  /\ Remove(x)
  /\ IF heard THEN GotoRemoval(x, "removed") ELSE removal' = [removal EXCEPT ![x] = Idle]

\* completeAccountDeletionFence
CompleteFence(x) ==
  /\ removal[x].pc = "removed"
  /\ LET u == removal[x].account
     IN fence' = IF fence[u].by = x THEN [fence EXCEPT ![u].state = "deleted"] ELSE fence
  /\ removal' = [removal EXCEPT ![x] = Idle]
  /\ UNCHANGED <<users, bookings, operations, voucher, lowered, rewards, waiting, request, edit>>

\* releaseAccountDeletionFence
Released(x) ==
  LET u == removal[x].account
  IN IF fence[u] = [state |-> "deleting", by |-> x]
       THEN [fence EXCEPT ![u] = [state |-> "active", by |-> Nobody]] ELSE fence

ReleaseFence(x) ==
  /\ removal[x].pc = "releasing"
  /\ fence' = Released(x)
  /\ removal' = [removal EXCEPT ![x] = Idle]
  /\ UNCHANGED <<users, bookings, operations, voucher, lowered, rewards, waiting, request, edit>>

\* The process dies, the last fence update fails, or a commit that never landed stays unknown.
DropRemoval(x) ==
  /\ removal[x] # Idle
  /\ removal' = [removal EXCEPT ![x] = Idle]
  /\ UNCHANGED <<database, request, edit>>

Next ==
  \/ \E r \in Request :
       \/ \E ask \in Ask : StartCreate(r, ask)
       \/ ValidateSlot(r) \/ Price(r)
       \/ RefuseDeleting(r) \/ ReplayDuplicate(r) \/ RefuseTaken(r) \/ RefusePromotion(r)
       \/ \E b \in Booking, heard \in BOOLEAN : CommitCreate(r, b, heard)
       \/ EndRequest(r)
  \/ \E b \in Booking :
       \/ Undo(b) \/ Complete(b) \/ Lapse(b)
       \/ \E c \in Client, slot \in Slot : ConvertEntry(c, b, slot)
  \/ \E e \in Editor :
       \/ \E max \in Limit : StartEdit(e, max)
       \/ SaveEdit(e)
       \/ \E active \in BOOLEAN : SetVoucherActive(e, active)
  \/ \E c \in Joiner : JoinWaitlist(c)
  \/ \E x \in Remover :
       \/ \E u \in Account : StartRemoval(x, u)
       \/ BeginFence(x) \/ OpenRemoval(x) \/ FailRemoval(x)
       \/ \E heard \in BOOLEAN : CommitRemoval(x, heard)
       \/ CompleteFence(x) \/ ReleaseFence(x) \/ DropRemoval(x)

Spec == Init /\ [][Next]_vars

----------------------------------------------------------------------------
Made(b) == bookings[b] # Blank

\* A key makes one booking, however often and however concurrently its request is sent.
OneBookingPerKey ==
  \A a, b \in Booking :
    Made(a) /\ Made(b) /\ bookings[a].ask.key = bookings[b].ask.key
      /\ bookings[a].ask.key # NoKey => a = b

\* Whoever is told of a booking is told of the one it asked for, replayed or new.
ReplyIsOwnBooking ==
  \A r \in Request :
    request[r].pc = "booked" =>
      /\ Made(request[r].booking)
      /\ bookings[request[r].booking].ask = request[r].ask

\* The voucher counts exactly the bookings that used it and were not undone, so that
\* undoing one always finds what to give back.
VoucherCountsBookings ==
  /\ voucher.redemptions =
       {b \in Booking : Made(b) /\ bookings[b].ask.coupon /\ bookings[b].status # "undone"}
  /\ voucher.uses = Cardinality(voucher.redemptions)

\* The uses exceed maxUses only after updateVoucher saved a limit checked against older uses.
UsesWithinLimit == voucher.uses <= voucher.max \/ lowered

\* A milestone discounts one booking that was not undone, although booking, completion,
\* cancellation and account deletion each rewrite the redemption on their own.
RewardOnce ==
  \A a, b \in Booking :
    /\ Made(a) /\ bookings[a].status # "undone" /\ bookings[a].milestone > 0
    /\ Made(b) /\ bookings[b].status # "undone"
    /\ bookings[a].milestone = bookings[b].milestone
    /\ bookings[a].ask.actor = bookings[b].ask.actor
    => a = b

\* A booking made by request stays active only while both its accounts exist: the fence
\* orders every such booking before the snapshot of a deletion or after its refusal.
CreatedForLivingAccounts ==
  \A b \in Booking :
    Active(b) /\ bookings[b].origin = "request" =>
      {Barber, bookings[b].ask.actor} \subseteq users

\* The operations are exactly the keyed bookings, and one per key.
OperationsMatch ==
  /\ \A o \in operations :
       o.ask.key # NoKey /\ Made(o.booking) /\ bookings[o.booking].ask = o.ask
  /\ \A o, p \in operations : o.ask.key = p.ask.key => o = p
  /\ \A b \in Booking : Made(b) /\ bookings[b].ask.key # NoKey =>
       [ask |-> bookings[b].ask, booking |-> b] \in operations

\* A redemption speaks of a booking in the state it says, and the discounted bookings
\* of existing accounts have theirs.
RewardsMatch ==
  /\ \A d, e \in rewards : d.client = e.client /\ d.milestone = e.milestone => d = e
  /\ \A d \in rewards : d.status # "restored" =>
       /\ d.booking \in Booking /\ Made(d.booking)
       /\ bookings[d.booking].ask.actor = d.client
       /\ bookings[d.booking].milestone = d.milestone
       /\ bookings[d.booking].status \in IF d.status = "claimed" THEN {"active", "lapsed"}
                                                                 ELSE {"completed"}
  /\ \A b \in Booking :
       /\ Made(b) /\ bookings[b].milestone > 0 /\ bookings[b].status # "undone"
       /\ {Barber, bookings[b].ask.actor} \subseteq users
       => \E d \in rewards : d.booking = b /\ d.status # "restored"

Holds(x) == removal[x].pc \in {"fenced", "removing", "releasing", "removed"}

\* One deletion holds the fence of an account, an account that is gone has no open fence,
\* and the deletion's snapshot has not missed a booking.
FenceGuards ==
  /\ \A u \in Account : fence[u].state = "active" => u \in users
  /\ \A u \in Account : fence[u].state = "deleted" => u \notin users
  /\ \A x \in Remover : Holds(x) =>
       LET u == removal[x].account
       IN /\ fence[u] = [state |-> "deleting", by |-> x]
          /\ (u \in users) = (removal[x].pc # "removed")
  /\ \A x \in Remover : removal[x].pc = "removing" =>
       \A b \in Booking :
         Active(b) /\ bookings[b].origin = "request" => ~Concerns(b, removal[x].account)

\* A manual booking has no reward; a discounted one was made by a request of its client.
MilestonesFit ==
  /\ \A b \in Booking : Made(b) /\ bookings[b].milestone > 0 =>
       bookings[b].ask.actor # Barber /\ bookings[b].origin = "request"
  /\ \A r \in Request : request[r].pc = "priced" /\ request[r].milestone > 0 =>
       request[r].ask.actor # Barber

\* The inductive invariant.
IInv ==
  /\ TypeOK /\ OperationsMatch /\ ReplyIsOwnBooking /\ VoucherCountsBookings
  /\ UsesWithinLimit /\ RewardsMatch /\ RewardOnce /\ FenceGuards /\ CreatedForLivingAccounts
  /\ MilestonesFit
=============================================================================
