------------------------ MODULE BookingCreationProofs ------------------------
(***************************************************************************)
(* Proofs about BookingCreation, for any clients, keys, slots, requests,   *)
(* deletions, voucher limits and loyalty thresholds.                       *)
(***************************************************************************)
EXTENDS BookingCreation, FiniteSetTheorems, TLAPS

Redemption == [client : Client, milestone : Nat, status : {"claimed", "restored", "consumed"},
               booking : Booking \cup {NoBooking}]

----------------------------------------------------------------------------
(* What the type invariant says of a process at each of its steps. *)

LEMMA KeyedType ==
  ASSUME TypeOK, NEW r \in Request, request[r].pc = "keyed"
  PROVE  request[r].ask \in Ask
BY DEF TypeOK, RequestState, Idle

LEMMA PricedType ==
  ASSUME TypeOK, NEW r \in Request, request[r].pc = "priced"
  PROVE  request[r].ask \in Ask /\ request[r].milestone \in Nat
BY DEF TypeOK, RequestState, Idle

LEMMA RemovalType ==
  ASSUME TypeOK, NEW x \in Remover, removal[x] # Idle
  PROVE  /\ removal[x].account \in Account
         /\ removal[x].pc \in {"leaving", "fenced", "removed", "releasing", "removing"}
         /\ removal[x].pc = "removing" => removal[x].seen \subseteq Client
BY DEF TypeOK, RemovalState

LEMMA MadeType ==
  ASSUME TypeOK, NEW b \in Booking, Made(b)
  PROVE  bookings[b] \in BookingRecord /\ bookings[b].ask \in Ask
BY DEF TypeOK, Made, BookingRecord

LEMMA ActiveIsMade ==
  ASSUME NEW b \in Booking, Active(b)
  PROVE  Made(b)
BY DEF Active, Made, Blank

LEMMA LimitsAreNumbers ==
  ASSUME CreationAssumption
  PROVE  Limit \subseteq Nat
BY DEF CreationAssumption

LEMMA MilestoneType ==
  ASSUME CreationAssumption, NEW ask \in Ask
  PROVE  Milestone(ask) \in Nat /\ (Milestone(ask) > 0 => ask.actor # Barber)
<1> DEFINE done == {b \in Booking : bookings[b].status = "completed" /\ Concerns(b, ask.actor)}
           count == CompletedCount(ask.actor)
<1>1. Cardinality(done) \in Nat
  BY FS_Subset, FS_CardinalityType DEF CreationAssumption
<1>2. count \in Nat
  BY <1>1 DEF CompletedCount, CreationAssumption
<1> HIDE DEF count
<1>3. count \div Threshold \in Nat
  BY <1>2 DEF CreationAssumption
<1>4. Milestone(ask) = 0 \/ (Milestone(ask) = count \div Threshold /\ ask.actor # Barber)
  BY DEF Milestone, count
<1>5. QED BY <1>3, <1>4

----------------------------------------------------------------------------
LEMMA InitIInv == CreationAssumption /\ Init => IInv
<1> SUFFICES ASSUME CreationAssumption, Init PROVE IInv
  OBVIOUS
<1>0. /\ voucher.uses = 0 /\ voucher.redemptions = {} /\ voucher.max \in Limit
      /\ voucher \in [active : BOOLEAN, max : Limit, uses : Nat, redemptions : SUBSET Booking]
  <2>1. PICK max \in Limit :
          voucher = [active |-> TRUE, max |-> max, uses |-> 0, redemptions |-> {}]
    BY DEF Init
  <2>2. QED BY <2>1
<1>1. TypeOK
  <2>1. users \subseteq Account /\ operations = {} /\ rewards = {} /\ waiting = {} /\ lowered = FALSE
    BY DEF Init
  <2>2. fence \in [Account -> [state : {"active", "deleting", "deleted"}, by : Remover \cup {Nobody}]]
    BY DEF Init
  <2>3. bookings \in [Booking -> {Blank} \cup BookingRecord]
    BY DEF Init
  <2>4. /\ request \in [Request -> RequestState] /\ removal \in [Remover -> RemovalState]
        /\ edit \in [Editor -> {Idle} \cup [pc : {"loaded"}, max : Limit]]
    BY DEF Init, RequestState, RemovalState
  <2>5. QED BY <1>0, <2>1, <2>2, <2>3, <2>4 DEF TypeOK
<1>2. \A b \in Booking : ~Made(b) /\ ~Active(b)
  BY DEF Init, Made, Active, Blank
<1>3. OperationsMatch /\ RewardsMatch /\ RewardOnce /\ CreatedForLivingAccounts
  BY <1>2 DEF Init, OperationsMatch, RewardsMatch, RewardOnce, CreatedForLivingAccounts
<1>4. VoucherCountsBookings /\ UsesWithinLimit
  <2>0. voucher.max \in Nat
    BY <1>0, LimitsAreNumbers
  <2>1. voucher.uses <= voucher.max
    BY <1>0, <2>0
  <2>2. QED BY <1>0, <1>2, <2>1, FS_EmptySet DEF VoucherCountsBookings, UsesWithinLimit
<1>5. ReplyIsOwnBooking /\ MilestonesFit
  BY <1>2 DEF Init, ReplyIsOwnBooking, MilestonesFit, Idle
<1>6. FenceGuards
  BY DEF Init, FenceGuards, Holds, Idle
<1>7. QED BY <1>1, <1>3, <1>4, <1>5, <1>6 DEF IInv

----------------------------------------------------------------------------
(* Steps that move a request and nothing else. *)

LEMMA RequestMove ==
  ASSUME IInv, NEW r \in Request, NEW v \in RequestState,
         request' = [request EXCEPT ![r] = v],
         v.pc = "booked" => Made(v.booking) /\ bookings[v.booking].ask = v.ask,
         v.pc = "priced" /\ v.milestone > 0 => v.ask.actor # Barber,
         UNCHANGED <<database, removal, edit>>
  PROVE  IInv'
<1> USE DEF database
<1>1. \A q \in Request : request'[q] = IF q = r THEN v ELSE request[q]
  BY DEF IInv, TypeOK
<1>2. TypeOK'
  BY DEF IInv, TypeOK
<1>3. OperationsMatch' /\ VoucherCountsBookings' /\ UsesWithinLimit'
  BY DEF IInv, OperationsMatch, VoucherCountsBookings, UsesWithinLimit, Made
<1>4. RewardsMatch' /\ RewardOnce' /\ CreatedForLivingAccounts'
  BY DEF IInv, RewardsMatch, RewardOnce, CreatedForLivingAccounts, Made, Active
<1>5. FenceGuards'
  BY DEF IInv, FenceGuards, Holds, Active, Concerns
<1>6. ReplyIsOwnBooking'
  BY <1>1 DEF IInv, ReplyIsOwnBooking, Made
<1>7. MilestonesFit'
  BY <1>1 DEF IInv, MilestonesFit, Made
<1>8. QED BY <1>2, <1>3, <1>4, <1>5, <1>6, <1>7 DEF IInv

LEMMA ReplayMove ==
  ASSUME IInv, NEW r \in Request, NEW ask \in Ask, Replay(r, ask),
         UNCHANGED <<database, removal, edit>>
  PROVE  IInv'
<1>1. PICK o \in Existing(ask) :
        IF o.ask = ask THEN Answer(r, ask, o.booking) ELSE Refuse(r, "mismatch")
  BY DEF Replay
<1>2. o \in operations /\ o.booking \in Booking
  BY DEF Existing, IInv, TypeOK
<1>3. CASE o.ask = ask
  <2> DEFINE v == [pc |-> "booked", ask |-> ask, booking |-> o.booking]
  <2>1. v \in RequestState /\ v.pc = "booked" /\ v.booking = o.booking /\ v.ask = ask
    BY <1>2 DEF RequestState
  <2>2. Made(o.booking) /\ bookings[o.booking].ask = ask
    BY <1>2, <1>3 DEF IInv, OperationsMatch
  <2>3. request' = [request EXCEPT ![r] = v]
    BY <1>1, <1>3 DEF Answer
  <2>4. QED BY <2>1, <2>2, <2>3, RequestMove
<1>4. CASE o.ask # ask
  <2> DEFINE v == [pc |-> "refused", refusal |-> "mismatch"]
  <2>1. v \in RequestState /\ v.pc = "refused"
    BY DEF RequestState, Refusal
  <2>2. request' = [request EXCEPT ![r] = v]
    BY <1>1, <1>4 DEF Refuse
  <2>3. QED BY <2>1, <2>2, RequestMove
<1>5. QED BY <1>3, <1>4

LEMMA RefuseMove ==
  ASSUME IInv, NEW r \in Request, NEW refusal \in Refusal, Refuse(r, refusal),
         UNCHANGED <<database, removal, edit>>
  PROVE  IInv'
<1> DEFINE v == [pc |-> "refused", refusal |-> refusal]
<1>1. v \in RequestState /\ v.pc = "refused"
  BY DEF RequestState
<1>2. QED BY <1>1, RequestMove DEF Refuse

LEMMA EnterMove ==
  ASSUME CreationAssumption, IInv, NEW r \in Request, NEW ask \in Ask, Enter(r, ask),
         UNCHANGED <<database, removal, edit>>
  PROVE  IInv'
<1> DEFINE v == [pc |-> "priced", ask |-> ask, milestone |-> Milestone(ask)]
<1>1. v \in RequestState /\ v.pc = "priced" /\ v.milestone = Milestone(ask) /\ v.ask = ask
  BY MilestoneType DEF RequestState
<1>2. request' = [request EXCEPT ![r] = v]
  BY DEF Enter
<1>3. QED BY <1>1, <1>2, MilestoneType, RequestMove

LEMMA RequestStep ==
  ASSUME CreationAssumption, IInv, NEW r \in Request,
         \/ \E ask \in Ask : StartCreate(r, ask)
         \/ ValidateSlot(r) \/ Price(r)
         \/ RefuseDeleting(r) \/ ReplayDuplicate(r) \/ RefuseTaken(r) \/ RefusePromotion(r)
         \/ EndRequest(r)
  PROVE  IInv'
<1> USE DEF IInv
<1>1. ASSUME NEW ask \in Ask, StartCreate(r, ask) PROVE IInv'
  <2>1. CASE Existing(ask) # {}
    BY <1>1, <2>1, ReplayMove DEF StartCreate
  <2>2. CASE Existing(ask) = {}
    <3> DEFINE v == [pc |-> "keyed", ask |-> ask]
    <3>1. v \in RequestState /\ v.pc = "keyed"
      BY DEF RequestState
    <3>2. request' = [request EXCEPT ![r] = v] /\ UNCHANGED <<database, removal, edit>>
      BY <1>1, <2>2 DEF StartCreate
    <3>3. QED BY <3>1, <3>2, RequestMove
  <2>3. QED BY <2>1, <2>2
<1>2. CASE ValidateSlot(r)
  <2>1. request[r].ask \in Ask /\ "taken" \in Refusal
    BY <1>2, KeyedType DEF ValidateSlot, Refusal
  <2>2. CASE Busy(request[r].ask.slot)
    BY <1>2, <2>1, <2>2, RefuseMove DEF ValidateSlot
  <2>3. CASE ~Busy(request[r].ask.slot)
    BY <1>2, <2>1, <2>3, EnterMove DEF ValidateSlot
  <2>4. QED BY <2>2, <2>3
<1>3. CASE Price(r)
  <2>1. request[r].ask \in Ask
    BY <1>3, PricedType DEF Price
  <2>2. QED BY <1>3, <2>1, EnterMove DEF Price
<1>4. CASE RefuseDeleting(r) \/ RefuseTaken(r) \/ RefusePromotion(r)
  <2>1. {"deleting", "taken", "unavailable"} \subseteq Refusal
    BY DEF Refusal
  <2>2. QED BY <1>4, <2>1, RefuseMove DEF RefuseDeleting, RefuseTaken, RefusePromotion
<1>5. CASE ReplayDuplicate(r)
  <2>1. request[r].ask \in Ask
    BY <1>5, PricedType DEF ReplayDuplicate
  <2>2. QED BY <1>5, <2>1, ReplayMove DEF ReplayDuplicate
<1>6. CASE EndRequest(r)
  <2>1. Idle \in RequestState /\ Idle.pc = "idle"
    BY DEF RequestState, Idle
  <2>2. QED BY <1>6, <2>1, RequestMove DEF EndRequest
<1>7. QED BY <1>1, <1>2, <1>3, <1>4, <1>5, <1>6

----------------------------------------------------------------------------
(* Steps of an account deletion: bookings, keys and the voucher stay as they are. *)

LEMMA RemovalMove ==
  ASSUME IInv, UNCHANGED <<bookings, operations, voucher, lowered, request, edit>>,
         users' \subseteq users, waiting' \subseteq Client, rewards' \subseteq rewards,
         fence' \in [Account -> [state : {"active", "deleting", "deleted"},
                                by : Remover \cup {Nobody}]],
         removal' \in [Remover -> RemovalState],
         FenceGuards', CreatedForLivingAccounts', RewardsMatch'
  PROVE  IInv'
<1>1. TypeOK'
  BY DEF IInv, TypeOK
<1>2. OperationsMatch' /\ VoucherCountsBookings' /\ UsesWithinLimit'
  BY DEF IInv, OperationsMatch, VoucherCountsBookings, UsesWithinLimit, Made
<1>3. RewardOnce' /\ ReplyIsOwnBooking' /\ MilestonesFit'
  BY DEF IInv, RewardOnce, ReplyIsOwnBooking, MilestonesFit, Made
<1>4. QED BY <1>1, <1>2, <1>3 DEF IInv

\* No account and no document goes: the deletion moves on, and with it perhaps its fence.
LEMMA FenceMove ==
  ASSUME IInv, UNCHANGED <<users, rewards, bookings, operations, voucher, lowered, waiting,
                           request, edit>>,
         fence' \in [Account -> [state : {"active", "deleting", "deleted"},
                                by : Remover \cup {Nobody}]],
         removal' \in [Remover -> RemovalState], FenceGuards'
  PROVE  IInv'
<1>1. CreatedForLivingAccounts' /\ RewardsMatch'
  BY DEF IInv, CreatedForLivingAccounts, RewardsMatch, Made, Active
<1>2. waiting' \subseteq Client
  BY DEF IInv, TypeOK
<1>3. QED BY <1>1, <1>2, RemovalMove

\* The deletion's own step, the fences being as they were.
LEMMA GotoMove ==
  ASSUME IInv, NEW x \in Remover, NEW v \in RemovalState,
         removal' = [removal EXCEPT ![x] = v],
         v.pc \in {"fenced", "removing", "releasing"} =>
           /\ removal[x].pc \in {"fenced", "removing", "releasing"}
           /\ v.account = removal[x].account,
         v.pc = "removing" =>
           \A b \in Booking : Active(b) /\ bookings[b].origin = "request"
                              => ~Concerns(b, v.account),
         v.pc # "removed",
         UNCHANGED <<database, request, edit>>
  PROVE  IInv'
<1> USE DEF database
<1>1. \A y \in Remover : removal'[y] = IF y = x THEN v ELSE removal[y]
  BY DEF IInv, TypeOK
<1>2. removal' \in [Remover -> RemovalState] /\ fence' = fence /\ users' = users
  BY DEF IInv, TypeOK
<1>3. \A u \in Account : /\ fence'[u].state = "active" => u \in users'
                         /\ fence'[u].state = "deleted" => u \notin users'
  BY <1>2 DEF IInv, FenceGuards
<1>4. ASSUME NEW y \in Remover, Holds(y)'
      PROVE  LET u == removal'[y].account
             IN /\ fence'[u] = [state |-> "deleting", by |-> y]
                /\ (u \in users') = (removal'[y].pc # "removed")
  BY <1>1, <1>2, <1>4 DEF IInv, FenceGuards, Holds
<1>5. ASSUME NEW y \in Remover, removal'[y].pc = "removing"
      PROVE  \A b \in Booking : Active(b)' /\ bookings'[b].origin = "request"
                                => ~Concerns(b, removal[y].account)'
  BY <1>1, <1>5 DEF IInv, FenceGuards, Active, Concerns
<1>6. FenceGuards'
  BY <1>3, <1>4, <1>5 DEF FenceGuards
<1>7. fence' \in [Account -> [state : {"active", "deleting", "deleted"},
                             by : Remover \cup {Nobody}]]
  BY DEF IInv, TypeOK
<1>8. QED BY <1>2, <1>6, <1>7, FenceMove

LEMMA HolderFence ==
  ASSUME IInv, NEW x \in Remover, Holds(x)
  PROVE  fence[removal[x].account].state = "deleting" /\ fence[removal[x].account].by = x
<1>1. fence[removal[x].account] = [state |-> "deleting", by |-> x]
  BY DEF IInv, FenceGuards
<1>2. QED BY <1>1

\* Two deletions never hold the fence of the same account.
LEMMA OneHolder ==
  ASSUME IInv, NEW x \in Remover, NEW y \in Remover, Holds(x), Holds(y),
         removal[x].account = removal[y].account
  PROVE  x = y
BY HolderFence

\* The fence of an account is closed, reopened or settled by the deletion that may do so.
LEMMA SettleMove ==
  ASSUME IInv, NEW x \in Remover, NEW u \in Account,
         fence' \in [Account -> [state : {"active", "deleting", "deleted"}, by : Remover \cup {Nobody}]],
         \A w \in Account \ {u} : fence'[w] = fence[w],
         removal' \in [Remover -> RemovalState],
         \A y \in Remover \ {x} : removal'[y] = removal[y],
         \A y \in Remover \ {x} : Holds(y) => removal[y].account # u,
         fence'[u].state = "active" => u \in users,
         fence'[u].state = "deleted" => u \notin users,
         removal'[x].pc \notin {"removing", "releasing", "removed"},
         removal'[x].pc = "fenced" =>
           removal'[x].account = u /\ u \in users /\ fence'[u] = [state |-> "deleting", by |-> x],
         UNCHANGED <<users, rewards, bookings, operations, voucher, lowered, waiting, request, edit>>
  PROVE  IInv'
<1>1. \A w \in Account : /\ fence'[w].state = "active" => w \in users'
                         /\ fence'[w].state = "deleted" => w \notin users'
  BY DEF IInv, FenceGuards
<1>2. ASSUME NEW y \in Remover, Holds(y)'
      PROVE  LET w == removal'[y].account
             IN /\ fence'[w] = [state |-> "deleting", by |-> y]
                /\ (w \in users') = (removal'[y].pc # "removed")
  <2>1. CASE y = x
    BY <1>2, <2>1 DEF Holds
  <2>2. CASE y # x
    <3>1. Holds(y) /\ removal'[y] = removal[y]
      BY <1>2, <2>2 DEF Holds
    <3>2. removal[y].account \in Account /\ removal[y].account # u
      BY <2>2, <3>1, RemovalType DEF IInv, Holds, Idle
    <3>3. QED BY <3>1, <3>2 DEF IInv, FenceGuards
  <2>3. QED BY <2>1, <2>2
<1>3. ASSUME NEW y \in Remover, removal'[y].pc = "removing"
      PROVE  \A b \in Booking : Active(b)' /\ bookings'[b].origin = "request"
                                => ~Concerns(b, removal[y].account)'
  BY <1>3 DEF IInv, FenceGuards, Active, Concerns
<1>4. FenceGuards'
  BY <1>1, <1>2, <1>3 DEF FenceGuards
<1>5. QED BY <1>4, FenceMove

LEMMA BeginFenceStep ==
  ASSUME IInv, NEW x \in Remover, BeginFence(x)
  PROVE  IInv'
<1> DEFINE u == removal[x].account
<1>1. u \in Account /\ removal[x].pc = "leaving"
  BY RemovalType DEF IInv, BeginFence, Idle
<1>2. Idle \in RemovalState /\ Idle.pc = "idle"
  BY DEF RemovalState, Idle
<1>3. CASE fence[u].state = "active"
  <2> DEFINE v == [pc |-> "fenced", account |-> u]
  <2>1. v \in RemovalState /\ v.pc = "fenced" /\ v.account = u
    BY <1>1 DEF RemovalState
  <2>2. fence' = [fence EXCEPT ![u] = [state |-> "deleting", by |-> x]]
        /\ removal' = [removal EXCEPT ![x] = v]
    BY <1>3 DEF BeginFence, GotoRemoval
  <2>3. /\ fence' \in [Account -> [state : {"active", "deleting", "deleted"}, by : Remover \cup {Nobody}]]
        /\ fence'[u] = [state |-> "deleting", by |-> x] /\ fence'[u].state = "deleting"
        /\ \A w \in Account \ {u} : fence'[w] = fence[w]
    BY <1>1, <2>2 DEF IInv, TypeOK
  <2>4. /\ removal' \in [Remover -> RemovalState] /\ removal'[x] = v
        /\ \A y \in Remover \ {x} : removal'[y] = removal[y]
    BY <2>1, <2>2 DEF IInv, TypeOK
  <2>5. \A y \in Remover : Holds(y) => removal[y].account # u
    BY <1>3, HolderFence
  <2>6. u \in users
    BY <1>1, <1>3 DEF IInv, FenceGuards
  <2>7. UNCHANGED <<users, rewards, bookings, operations, voucher, lowered, waiting, request, edit>>
    BY DEF BeginFence
  <2> HIDE DEF u, v
  <2>8. QED BY <1>1, <2>1, <2>3, <2>4, <2>5, <2>6, <2>7, SettleMove
<1>4. CASE fence[u].state # "active"
  BY <1>2, <1>4, GotoMove DEF BeginFence, database
<1>5. QED BY <1>3, <1>4

LEMMA SettleFenceStep ==
  ASSUME IInv, NEW x \in Remover, CompleteFence(x) \/ ReleaseFence(x)
  PROVE  IInv'
<1> DEFINE u == removal[x].account
<1>1. /\ u \in Account /\ Holds(x) /\ fence[u] = [state |-> "deleting", by |-> x]
      /\ (u \in users) = (removal[x].pc # "removed")
  BY RemovalType DEF IInv, FenceGuards, CompleteFence, ReleaseFence, Holds, Idle
<1>2. \A y \in Remover \ {x} : Holds(y) => removal[y].account # u
  BY <1>1, OneHolder
<1>3. /\ removal' = [removal EXCEPT ![x] = Idle]
      /\ UNCHANGED <<users, rewards, bookings, operations, voucher, lowered, waiting, request, edit>>
  BY DEF CompleteFence, ReleaseFence
<1>4. /\ removal' \in [Remover -> RemovalState] /\ removal'[x].pc = "idle"
      /\ \A y \in Remover \ {x} : removal'[y] = removal[y]
  BY <1>3 DEF IInv, TypeOK, RemovalState, Idle
<1>5. /\ fence' \in [Account -> [state : {"active", "deleting", "deleted"}, by : Remover \cup {Nobody}]]
      /\ \A w \in Account \ {u} : fence'[w] = fence[w]
      /\ fence'[u].state = "active" => u \in users
      /\ fence'[u].state = "deleted" => u \notin users
  <2>1. CASE CompleteFence(x)
    <3>1. fence' = [fence EXCEPT ![u].state = "deleted"] /\ u \notin users
      BY <1>1, <2>1 DEF CompleteFence
    <3>2. [fence[u] EXCEPT !.state = "deleted"] = [state |-> "deleted", by |-> x]
      BY <1>1
    <3>3. QED BY <1>1, <3>1, <3>2 DEF IInv, TypeOK
  <2>2. CASE ReleaseFence(x)
    <3>1. fence' = [fence EXCEPT ![u] = [state |-> "active", by |-> Nobody]] /\ u \in users
      BY <1>1, <2>2 DEF ReleaseFence, Released
    <3>2. QED BY <1>1, <3>1 DEF IInv, TypeOK
  <2>3. QED BY <2>1, <2>2
<1> HIDE DEF u
<1>6. QED BY <1>1, <1>2, <1>3, <1>4, <1>5, SettleMove

LEMMA CommitRemovalStep ==
  ASSUME CreationAssumption, IInv, NEW x \in Remover, NEW heard \in BOOLEAN,
         CommitRemoval(x, heard)
  PROVE  IInv'
<1> DEFINE u == removal[x].account
           v == IF heard THEN [pc |-> "removed", account |-> u] ELSE Idle
<1>1. /\ u \in Account /\ removal[x].pc = "removing" /\ Holds(x)
      /\ fence[u] = [state |-> "deleting", by |-> x]
  BY RemovalType DEF IInv, FenceGuards, CommitRemoval, Holds, Idle
<1>2. \A b \in Booking : Active(b) /\ bookings[b].origin = "request" => ~Concerns(b, u)
  BY <1>1 DEF IInv, FenceGuards
<1>3. /\ users' = users \ {u} /\ waiting' \subseteq waiting
      /\ rewards' = {d \in rewards : u # Barber /\ d.client # u}
      /\ UNCHANGED <<fence, bookings, operations, voucher, lowered, request, edit>>
  BY DEF CommitRemoval, Remove
<1>4. /\ v \in RemovalState /\ v.pc \in {"removed", "idle"}
      /\ v.pc = "removed" => v.account = u
  BY <1>1 DEF RemovalState, Idle
<1>5. removal' = [removal EXCEPT ![x] = v]
  BY DEF CommitRemoval, GotoRemoval
<1>6. \A y \in Remover : removal'[y] = IF y = x THEN v ELSE removal[y]
  BY <1>5 DEF IInv, TypeOK
<1>7. CreatedForLivingAccounts'
  BY <1>2, <1>3 DEF IInv, CreatedForLivingAccounts, Active, Concerns
<1>8. RewardsMatch'
  <2>1. \A d, e \in rewards' : d.client = e.client /\ d.milestone = e.milestone => d = e
    BY <1>3 DEF IInv, RewardsMatch
  <2>2. ASSUME NEW d \in rewards', d.status # "restored"
        PROVE /\ d.booking \in Booking /\ Made(d.booking)'
              /\ bookings'[d.booking].ask.actor = d.client
              /\ bookings'[d.booking].milestone = d.milestone
              /\ bookings'[d.booking].status \in IF d.status = "claimed" THEN {"active", "lapsed"}
                                                                       ELSE {"completed"}
    BY <1>3, <2>2 DEF IInv, RewardsMatch, Made
  <2>3. ASSUME NEW b \in Booking, Made(b)', bookings'[b].milestone > 0,
               bookings'[b].status # "undone", {Barber, bookings'[b].ask.actor} \subseteq users'
        PROVE  \E d \in rewards' : d.booking = b /\ d.status # "restored"
    <3>1. u # Barber /\ bookings[b].ask.actor # u /\ {Barber, bookings[b].ask.actor} \subseteq users
      BY <1>3, <2>3
    <3>2. PICK d \in rewards : d.booking = b /\ d.status # "restored"
      BY <1>3, <2>3, <3>1 DEF IInv, RewardsMatch, Made
    <3>3. d.client = bookings[b].ask.actor
      BY <3>2 DEF IInv, RewardsMatch
    <3>4. QED BY <1>3, <3>1, <3>2, <3>3
  <2>4. QED BY <2>1, <2>2, <2>3 DEF RewardsMatch
<1>9. FenceGuards'
  <2>1. \A w \in Account : /\ fence'[w].state = "active" => w \in users'
                           /\ fence'[w].state = "deleted" => w \notin users'
    BY <1>1, <1>3 DEF IInv, FenceGuards
  <2>2. ASSUME NEW y \in Remover, Holds(y)'
        PROVE  LET w == removal'[y].account
               IN /\ fence'[w] = [state |-> "deleting", by |-> y]
                  /\ (w \in users') = (removal'[y].pc # "removed")
    <3>1. CASE y = x
      BY <1>1, <1>3, <1>4, <1>6, <2>2, <3>1 DEF Holds
    <3>2. CASE y # x
      <4>1. Holds(y) /\ removal'[y] = removal[y]
        BY <1>6, <2>2, <3>2 DEF Holds
      <4>2. removal[y].account # u
        BY <1>1, <3>2, <4>1, OneHolder
      <4>3. QED BY <1>3, <4>1, <4>2 DEF IInv, FenceGuards
    <3>3. QED BY <3>1, <3>2
  <2>3. ASSUME NEW y \in Remover, removal'[y].pc = "removing"
        PROVE  \A b \in Booking : Active(b)' /\ bookings'[b].origin = "request"
                                  => ~Concerns(b, removal[y].account)'
    BY <1>3, <1>4, <1>6, <2>3 DEF IInv, FenceGuards, Active, Concerns
  <2>4. QED BY <2>1, <2>2, <2>3 DEF FenceGuards
<1>10. /\ users' \subseteq users /\ rewards' \subseteq rewards /\ waiting' \subseteq Client
       /\ removal' \in [Remover -> RemovalState]
       /\ fence' \in [Account -> [state : {"active", "deleting", "deleted"},
                                 by : Remover \cup {Nobody}]]
  BY <1>3, <1>4, <1>5 DEF IInv, TypeOK
<1>11. QED BY <1>3, <1>7, <1>8, <1>9, <1>10, RemovalMove

LEMMA RemovalStep ==
  ASSUME CreationAssumption, IInv, NEW x \in Remover,
         \/ \E u \in Account : StartRemoval(x, u)
         \/ BeginFence(x) \/ OpenRemoval(x) \/ FailRemoval(x)
         \/ \E heard \in BOOLEAN : CommitRemoval(x, heard)
         \/ CompleteFence(x) \/ ReleaseFence(x) \/ DropRemoval(x)
  PROVE  IInv'
<1>1. ASSUME NEW u \in Account, StartRemoval(x, u) PROVE IInv'
  <2> DEFINE v == [pc |-> "leaving", account |-> u]
  <2>1. v \in RemovalState /\ v.pc = "leaving"
    BY DEF RemovalState
  <2>2. QED BY <1>1, <2>1, GotoMove DEF StartRemoval
<1>2. CASE OpenRemoval(x)
  <2> DEFINE u == removal[x].account
             v == [pc |-> "removing", account |-> u, seen |-> EntriesOf(u)]
  <2>1. removal[x].pc = "fenced" /\ u \in Account
    BY <1>2, RemovalType DEF OpenRemoval, IInv, Idle
  <2>2. EntriesOf(u) \subseteq Client
    BY DEF EntriesOf, IInv, TypeOK
  <2>3. v \in RemovalState /\ v.pc = "removing" /\ v.account = u
    BY <2>1, <2>2 DEF RemovalState
  <2>4. \A b \in Booking : Active(b) => ~Concerns(b, u)
    BY <1>2 DEF OpenRemoval
  <2>5. removal' = [removal EXCEPT ![x] = v] /\ UNCHANGED <<database, request, edit>>
    BY <1>2 DEF OpenRemoval
  <2>6. QED BY <2>1, <2>3, <2>4, <2>5, GotoMove
<1>3. CASE FailRemoval(x)
  <2> DEFINE v == [pc |-> "releasing", account |-> removal[x].account]
  <2>1. removal[x].pc \in {"fenced", "removing"} /\ removal[x].account \in Account
    BY <1>3, RemovalType DEF FailRemoval, IInv, Idle
  <2>2. v \in RemovalState /\ v.pc = "releasing" /\ v.account = removal[x].account
    BY <2>1 DEF RemovalState
  <2>3. QED BY <1>3, <2>1, <2>2, GotoMove DEF FailRemoval, GotoRemoval
<1>4. CASE DropRemoval(x)
  <2>1. Idle \in RemovalState /\ Idle.pc = "idle"
    BY DEF RemovalState, Idle
  <2>2. QED BY <1>4, <2>1, GotoMove DEF DropRemoval
<1>5. QED BY <1>1, <1>2, <1>3, <1>4, BeginFenceStep, SettleFenceStep, CommitRemovalStep

----------------------------------------------------------------------------
(* Steps of the owner's voucher updates and of the waitlist. *)

LEMMA EditMove ==
  ASSUME IInv, UNCHANGED <<users, fence, bookings, operations, rewards, request, removal>>,
         voucher' \in [active : BOOLEAN, max : Limit, uses : Nat, redemptions : SUBSET Booking],
         voucher'.uses = voucher.uses, voucher'.redemptions = voucher.redemptions,
         lowered' \in BOOLEAN, UsesWithinLimit',
         edit' \in [Editor -> {Idle} \cup [pc : {"loaded"}, max : Limit]],
         waiting' \subseteq Client
  PROVE  IInv'
<1>1. TypeOK'
  BY DEF IInv, TypeOK
<1>2. OperationsMatch' /\ VoucherCountsBookings'
  BY DEF IInv, OperationsMatch, VoucherCountsBookings, Made
<1>3. RewardsMatch' /\ RewardOnce' /\ CreatedForLivingAccounts'
  BY DEF IInv, RewardsMatch, RewardOnce, CreatedForLivingAccounts, Made, Active
<1>4. FenceGuards'
  BY DEF IInv, FenceGuards, Holds, Active, Concerns
<1>5. ReplyIsOwnBooking' /\ MilestonesFit'
  BY DEF IInv, ReplyIsOwnBooking, MilestonesFit, Made
<1>6. QED BY <1>1, <1>2, <1>3, <1>4, <1>5 DEF IInv

LEMMA EditStep ==
  ASSUME CreationAssumption, IInv,
         \/ \E e \in Editor : \/ \E max \in Limit : StartEdit(e, max)
                            \/ SaveEdit(e)
                            \/ \E active \in BOOLEAN : SetVoucherActive(e, active)
         \/ \E c \in Joiner : JoinWaitlist(c)
  PROVE  IInv'
<1>1. ASSUME NEW e \in Editor, NEW max \in Limit, StartEdit(e, max) PROVE IInv'
  <2>1. edit' \in [Editor -> {Idle} \cup [pc : {"loaded"}, max : Limit]]
    BY <1>1 DEF StartEdit, IInv, TypeOK
  <2>2. UNCHANGED <<database, request, removal>>
    BY <1>1 DEF StartEdit
  <2>3. UsesWithinLimit'
    BY <2>2 DEF IInv, UsesWithinLimit, database
  <2>4. QED BY <2>1, <2>2, <2>3, EditMove DEF IInv, TypeOK, database
<1>2. ASSUME NEW e \in Editor, SaveEdit(e) PROVE IInv'
  <2>1. edit[e].max \in Limit /\ edit[e].max \in Nat
    BY <1>2, LimitsAreNumbers DEF SaveEdit, IInv, TypeOK, Idle
  <2>2. voucher' = [voucher EXCEPT !.max = edit[e].max]
    BY <1>2 DEF SaveEdit
  <2>3. /\ voucher' \in [active : BOOLEAN, max : Limit, uses : Nat, redemptions : SUBSET Booking]
        /\ voucher'.uses = voucher.uses /\ voucher'.redemptions = voucher.redemptions
        /\ voucher'.max = edit[e].max /\ voucher.uses \in Nat
    BY <2>1, <2>2 DEF IInv, TypeOK
  <2>4. lowered' = (lowered \/ edit[e].max < voucher.uses)
    BY <1>2 DEF SaveEdit
  <2>5. lowered' \in BOOLEAN
    BY <2>4 DEF IInv, TypeOK
  <2>6. UsesWithinLimit'
    <3>1. edit[e].max < voucher.uses \/ voucher.uses <= edit[e].max
      BY <2>1, <2>3
    <3>2. QED BY <2>3, <2>4, <3>1 DEF UsesWithinLimit
  <2>7. /\ edit' \in [Editor -> {Idle} \cup [pc : {"loaded"}, max : Limit]]
        /\ waiting' \subseteq Client
        /\ UNCHANGED <<users, fence, bookings, operations, rewards, request, removal>>
    BY <1>2 DEF SaveEdit, IInv, TypeOK
  <2>8. QED BY <2>3, <2>5, <2>6, <2>7, EditMove
<1>3. ASSUME NEW e \in Editor, NEW active \in BOOLEAN, SetVoucherActive(e, active) PROVE IInv'
  <2>1. /\ voucher' = [voucher EXCEPT !.active = active]
        /\ UNCHANGED <<users, fence, bookings, operations, lowered, rewards, waiting, request,
                      removal, edit>>
    BY <1>3 DEF SetVoucherActive, IInv, TypeOK
  <2>2. /\ voucher' \in [active : BOOLEAN, max : Limit, uses : Nat, redemptions : SUBSET Booking]
        /\ voucher'.uses = voucher.uses /\ voucher'.redemptions = voucher.redemptions
        /\ voucher'.max = voucher.max
    BY <2>1 DEF IInv, TypeOK
  <2>3. UsesWithinLimit'
    BY <2>1, <2>2 DEF IInv, UsesWithinLimit
  <2>4. QED BY <2>1, <2>2, <2>3, EditMove DEF IInv, TypeOK
<1>4. ASSUME NEW c \in Joiner, JoinWaitlist(c) PROVE IInv'
  <2>1. /\ UNCHANGED <<users, fence, bookings, operations, voucher, lowered, rewards, request,
                      removal, edit>>
        /\ waiting' \subseteq Client
    BY <1>4 DEF JoinWaitlist, IInv, TypeOK, CreationAssumption
  <2>2. UsesWithinLimit'
    BY <2>1 DEF IInv, UsesWithinLimit
  <2>3. QED BY <2>1, <2>2, EditMove DEF IInv, TypeOK
<1>5. QED BY <1>1, <1>2, <1>3, <1>4

----------------------------------------------------------------------------
(* The end of a booking. *)

LEMMA EndedBooking ==
  ASSUME IInv, NEW b \in Booking, NEW status \in {"undone", "completed", "lapsed"},
         Active(b), SetStatus(b, status)
  PROVE  /\ bookings' \in [Booking -> {Blank} \cup BookingRecord]
         /\ \A a \in Booking \ {b} : bookings'[a] = bookings[a]
         /\ Made(b) /\ bookings'[b] # Blank /\ bookings'[b].status = status
         /\ bookings'[b].ask = bookings[b].ask /\ bookings'[b].origin = bookings[b].origin
         /\ bookings'[b].milestone = bookings[b].milestone
<1>1. Made(b) /\ bookings[b] \in BookingRecord
  BY ActiveIsMade, MadeType DEF IInv
<1>2. bookings' = [bookings EXCEPT ![b] = [bookings[b] EXCEPT !.status = status]]
  BY DEF SetStatus
<1>3. [bookings[b] EXCEPT !.status = status] \in BookingRecord
  BY <1>1 DEF BookingRecord, BookingStatus
<1>4. bookings'[b] = [bookings[b] EXCEPT !.status = status]
  BY <1>2 DEF IInv, TypeOK
<1>5. bookings'[b].status = status /\ bookings'[b].ask = bookings[b].ask
      /\ bookings'[b].origin = bookings[b].origin
      /\ bookings'[b].milestone = bookings[b].milestone
  BY <1>1, <1>4 DEF BookingRecord
<1>6. bookings'[b] # Blank
  BY <1>5 DEF Blank
<1>7. QED BY <1>1, <1>2, <1>3, <1>5, <1>6 DEF IInv, TypeOK

LEMMA EndMove ==
  ASSUME IInv, NEW b \in Booking, NEW status \in {"undone", "completed", "lapsed"},
         Active(b), SetStatus(b, status),
         voucher' \in [active : BOOLEAN, max : Limit, uses : Nat, redemptions : SUBSET Booking],
         VoucherCountsBookings', UsesWithinLimit',
         rewards' \subseteq Redemption, RewardsMatch',
         UNCHANGED <<users, fence, operations, lowered, waiting, request, removal, edit>>
  PROVE  IInv'
<1>1. /\ bookings' \in [Booking -> {Blank} \cup BookingRecord]
      /\ \A a \in Booking \ {b} : bookings'[a] = bookings[a]
      /\ Made(b) /\ bookings'[b] # Blank /\ bookings'[b].status = status
      /\ bookings'[b].ask = bookings[b].ask /\ bookings'[b].origin = bookings[b].origin
      /\ bookings'[b].milestone = bookings[b].milestone
  BY EndedBooking
<1>2. \A a \in Booking : /\ Made(a)' = Made(a)
                         /\ Made(a) => /\ bookings'[a].ask = bookings[a].ask
                                       /\ bookings'[a].origin = bookings[a].origin
                                       /\ bookings'[a].milestone = bookings[a].milestone
                         /\ Active(a)' => Active(a) /\ a # b
                         /\ bookings'[a].status # "undone" => bookings[a].status # "undone"
  BY <1>1 DEF Made, Active
<1>3. TypeOK'
  BY <1>1 DEF IInv, TypeOK, Redemption
<1>4. OperationsMatch'
  BY <1>2 DEF IInv, TypeOK, OperationsMatch
<1>5. ReplyIsOwnBooking' /\ MilestonesFit'
  <2>1. ReplyIsOwnBooking'
    <3>1. \A r \in Request : request[r].pc = "booked" => request[r].booking \in Booking
      BY DEF IInv, TypeOK, RequestState, Idle
    <3>2. QED BY <1>2, <3>1 DEF IInv, ReplyIsOwnBooking
  <2>2. MilestonesFit'
    BY <1>2 DEF IInv, MilestonesFit
  <2>3. QED BY <2>1, <2>2
<1>6. RewardOnce'
  BY <1>2 DEF IInv, RewardOnce
<1>7. CreatedForLivingAccounts'
  BY <1>1, <1>2 DEF IInv, CreatedForLivingAccounts
<1>8. FenceGuards'
  <2>1. \A a \in Booking : Active(a)' => Active(a) /\ bookings'[a] = bookings[a]
    BY <1>1, <1>2
  <2>2. QED BY <2>1 DEF IInv, FenceGuards, Holds, Concerns
<1>9. QED BY <1>3, <1>4, <1>5, <1>6, <1>7, <1>8 DEF IInv

\* Whoever keeps the voucher's redemption of the booking leaves its books right.
LEMMA VoucherKept ==
  ASSUME IInv, NEW b \in Booking, NEW status \in {"undone", "completed", "lapsed"},
         Active(b), SetStatus(b, status), status = "undone" => ~bookings[b].ask.coupon,
         UNCHANGED <<voucher, lowered>>
  PROVE  VoucherCountsBookings' /\ UsesWithinLimit'
<1>1. \A a \in Booking :
        (Made(a) /\ bookings[a].ask.coupon /\ bookings[a].status # "undone")
          <=> (Made(a)' /\ bookings'[a].ask.coupon /\ bookings'[a].status # "undone")
  BY EndedBooking DEF Made, Active
<1>2. QED BY <1>1 DEF IInv, VoucherCountsBookings, UsesWithinLimit

LEMMA VoucherRestored ==
  ASSUME CreationAssumption, IInv, NEW b \in Booking, Active(b), SetStatus(b, "undone"),
         VoucherRestorable(b), RestoreVoucher(b), UNCHANGED lowered
  PROVE  /\ VoucherCountsBookings' /\ UsesWithinLimit'
         /\ voucher' \in [active : BOOLEAN, max : Limit, uses : Nat, redemptions : SUBSET Booking]
<1>1. /\ voucher.uses \in Nat /\ voucher.uses > 0 /\ voucher.max \in Nat
      /\ voucher.redemptions \subseteq Booking /\ b \in voucher.redemptions
  BY LimitsAreNumbers DEF IInv, TypeOK, VoucherRestorable
<1>2. /\ voucher'.uses = voucher.uses - 1 /\ voucher'.max = voucher.max
      /\ voucher'.redemptions = voucher.redemptions \ {b}
      /\ voucher' \in [active : BOOLEAN, max : Limit, uses : Nat, redemptions : SUBSET Booking]
  <2>1. voucher.uses - 1 \in Nat /\ voucher.redemptions \ {b} \in SUBSET Booking
    BY <1>1
  <2>2. voucher \in [active : BOOLEAN, max : Limit, uses : Nat, redemptions : SUBSET Booking]
    BY DEF IInv, TypeOK
  <2>3. voucher' = [voucher EXCEPT !.uses = voucher.uses - 1,
                                   !.redemptions = voucher.redemptions \ {b}]
    BY DEF RestoreVoucher
  <2>4. QED BY <2>1, <2>2, <2>3
<1>3. Cardinality(voucher.redemptions \ {b}) = Cardinality(voucher.redemptions) - 1
  BY <1>1, FS_Subset, FS_RemoveElement DEF CreationAssumption
<1>4. voucher.redemptions \ {b}
        = {a \in Booking : Made(a)' /\ bookings'[a].ask.coupon /\ bookings'[a].status # "undone"}
  BY EndedBooking DEF IInv, VoucherCountsBookings, Made
<1>5. VoucherCountsBookings'
  BY <1>2, <1>3, <1>4 DEF IInv, VoucherCountsBookings
<1>6. UsesWithinLimit'
  BY <1>1, <1>2 DEF IInv, UsesWithinLimit
<1>7. QED BY <1>2, <1>5, <1>6

\* The redemption of a booking that is active is claimed, and there is only one.
LEMMA RedemptionOfActive ==
  ASSUME IInv, NEW b \in Booking, Active(b), NEW d \in rewards,
         d.booking = b, d.status # "restored"
  PROVE  d \in ClaimedFor(b)
<1>1. d.status \in {"claimed", "restored", "consumed"}
  BY DEF IInv, TypeOK
<1>2. d.status = "claimed"
  BY <1>1 DEF IInv, RewardsMatch, Active
<1>3. QED BY <1>2 DEF ClaimedFor

\* One redemption of a booking is rewritten to what its new status says.
LEMMA RewardsRewritten ==
  ASSUME CreationAssumption, IInv, NEW b \in Booking,
         NEW status \in {"undone", "completed", "lapsed"},
         Active(b), SetStatus(b, status), UNCHANGED users,
         NEW f,
         \A d \in ClaimedFor(b) :
           /\ f[d] \in Redemption /\ f[d].client = d.client /\ f[d].milestone = d.milestone
           /\ f[d].status = IF status = "undone" THEN "restored"
                            ELSE IF status = "completed" THEN "consumed" ELSE "claimed"
           /\ status # "undone" => f[d].booking = b,
         rewards' = (rewards \ ClaimedFor(b)) \cup {f[d] : d \in ClaimedFor(b)}
  PROVE  rewards' \subseteq Redemption /\ RewardsMatch'
<1>1. rewards \subseteq Redemption /\ ClaimedFor(b) \subseteq rewards
  BY DEF IInv, TypeOK, Redemption, ClaimedFor
<1>2. \A d \in rewards' : (d \in rewards /\ d \notin ClaimedFor(b))
                          \/ \E e \in ClaimedFor(b) : d = f[e]
  OBVIOUS
<1>3. \A d \in rewards' : \E e \in rewards :
        /\ e.client = d.client /\ e.milestone = d.milestone
        /\ d = IF e \in ClaimedFor(b) THEN f[e] ELSE e
  BY <1>1, <1>2
<1>4. \A d, e \in rewards' : d.client = e.client /\ d.milestone = e.milestone => d = e
  BY <1>3 DEF IInv, RewardsMatch
<1>5. ASSUME NEW d \in rewards', d.status # "restored"
      PROVE /\ d.booking \in Booking /\ Made(d.booking)'
            /\ bookings'[d.booking].ask.actor = d.client
            /\ bookings'[d.booking].milestone = d.milestone
            /\ bookings'[d.booking].status \in IF d.status = "claimed" THEN {"active", "lapsed"}
                                                                     ELSE {"completed"}
  <2>1. CASE d \in rewards /\ d \notin ClaimedFor(b)
    <3>1. d.booking \in Booking /\ d.booking # b
      BY <1>5, <2>1, RedemptionOfActive DEF IInv, RewardsMatch
    <3>2. bookings'[d.booking] = bookings[d.booking]
      BY <3>1, EndedBooking
    <3>3. QED BY <1>5, <2>1, <3>1, <3>2 DEF IInv, RewardsMatch, Made
  <2>2. CASE \E e \in ClaimedFor(b) : d = f[e]
    <3>1. PICK e \in ClaimedFor(b) : d = f[e]
      BY <2>2
    <3>2. e \in rewards /\ e.status = "claimed" /\ e.booking = b
      BY DEF ClaimedFor
    <3>3. /\ status # "undone" /\ d.booking = b
          /\ d.client = e.client /\ d.milestone = e.milestone
          /\ d.status = IF status = "completed" THEN "consumed" ELSE "claimed"
      BY <1>5, <3>1
    <3>4. Made(b) /\ bookings[b].ask.actor = e.client /\ bookings[b].milestone = e.milestone
      BY <3>2 DEF IInv, RewardsMatch
    <3>5. QED BY <3>3, <3>4, EndedBooking DEF Made
  <2>3. QED BY <1>2, <2>1, <2>2
<1>6. ASSUME NEW a \in Booking, Made(a)', bookings'[a].milestone > 0,
             bookings'[a].status # "undone", {Barber, bookings'[a].ask.actor} \subseteq users'
      PROVE  \E d \in rewards' : d.booking = a /\ d.status # "restored"
  <2>1. /\ Made(a) /\ bookings[a].milestone > 0 /\ bookings[a].status # "undone"
        /\ {Barber, bookings[a].ask.actor} \subseteq users
    BY <1>6, EndedBooking DEF Made, Active
  <2>2. PICK d \in rewards : d.booking = a /\ d.status # "restored"
    BY <2>1 DEF IInv, RewardsMatch
  <2>3. CASE a = b
    <3>1. d \in ClaimedFor(b)
      BY <2>2, <2>3, RedemptionOfActive
    <3>2. status # "undone"
      BY <1>6, <2>3, EndedBooking
    <3>3. f[d] \in rewards' /\ f[d].booking = b /\ f[d].status # "restored"
      BY <3>1, <3>2
    <3>4. QED BY <2>3, <3>3
  <2>4. CASE a # b
    <3>1. d \in rewards'
      BY <2>2, <2>4 DEF ClaimedFor
    <3>2. QED BY <2>2, <3>1
  <2>5. QED BY <2>3, <2>4
<1>7. rewards' \subseteq Redemption
  BY <1>1
<1>8. QED BY <1>4, <1>5, <1>6, <1>7 DEF RewardsMatch

LEMMA UndoStep ==
  ASSUME CreationAssumption, IInv, NEW b \in Booking, Undo(b)
  PROVE  IInv'
<1> DEFINE f == [d \in ClaimedFor(b) |-> [d EXCEPT !.status = "restored", !.booking = NoBooking]]
<1>1. /\ Active(b) /\ SetStatus(b, "undone")
      /\ UNCHANGED <<users, fence, operations, lowered, waiting, request, removal, edit>>
  BY DEF Undo
<1>2. /\ voucher' \in [active : BOOLEAN, max : Limit, uses : Nat, redemptions : SUBSET Booking]
      /\ VoucherCountsBookings' /\ UsesWithinLimit'
  <2>1. CASE bookings[b].ask.coupon
    BY <1>1, <2>1, VoucherRestored DEF Undo
  <2>2. CASE ~bookings[b].ask.coupon
    BY <1>1, <2>2, VoucherKept DEF Undo, IInv, TypeOK
  <2>3. QED BY <2>1, <2>2
<1>3. ASSUME NEW d \in ClaimedFor(b)
      PROVE  /\ f[d] \in Redemption /\ f[d].client = d.client /\ f[d].milestone = d.milestone
             /\ f[d].status = "restored"
  <2>1. d \in Redemption
    BY DEF ClaimedFor, IInv, TypeOK, Redemption
  <2>2. QED BY <2>1 DEF Redemption
<1>4. rewards' = (rewards \ ClaimedFor(b)) \cup {f[d] : d \in ClaimedFor(b)}
  BY DEF Undo, RestoreReward
<1> HIDE DEF f
<1>5. rewards' \subseteq Redemption /\ RewardsMatch'
  BY <1>1, <1>3, <1>4, RewardsRewritten
<1>6. QED BY <1>1, <1>2, <1>5, EndMove

LEMMA CompleteStep ==
  ASSUME CreationAssumption, IInv, NEW b \in Booking, Complete(b)
  PROVE  IInv'
<1> DEFINE f == [d \in ClaimedFor(b) |-> [d EXCEPT !.status = "consumed"]]
<1>1. /\ Active(b) /\ SetStatus(b, "completed")
      /\ UNCHANGED <<users, fence, operations, voucher, lowered, waiting, request, removal, edit>>
  BY DEF Complete
<1>2. /\ voucher' \in [active : BOOLEAN, max : Limit, uses : Nat, redemptions : SUBSET Booking]
      /\ VoucherCountsBookings' /\ UsesWithinLimit'
  BY <1>1, VoucherKept DEF IInv, TypeOK
<1>3. ASSUME NEW d \in ClaimedFor(b)
      PROVE  /\ f[d] \in Redemption /\ f[d].client = d.client /\ f[d].milestone = d.milestone
             /\ f[d].status = "consumed" /\ f[d].booking = b
  <2>1. d \in Redemption /\ d.booking = b
    BY DEF ClaimedFor, IInv, TypeOK, Redemption
  <2>2. QED BY <2>1 DEF Redemption
<1>4. rewards' = (rewards \ ClaimedFor(b)) \cup {f[d] : d \in ClaimedFor(b)}
  BY DEF Complete, ConsumeReward
<1> HIDE DEF f
<1>5. rewards' \subseteq Redemption /\ RewardsMatch'
  BY <1>1, <1>3, <1>4, RewardsRewritten
<1>6. QED BY <1>1, <1>2, <1>5, EndMove

LEMMA LapseStep ==
  ASSUME CreationAssumption, IInv, NEW b \in Booking, Lapse(b)
  PROVE  IInv'
<1> DEFINE f == [d \in ClaimedFor(b) |-> d]
<1>1. /\ Active(b) /\ SetStatus(b, "lapsed")
      /\ UNCHANGED <<users, fence, operations, voucher, lowered, rewards, waiting, request,
                    removal, edit>>
  BY DEF Lapse
<1>2. /\ voucher' \in [active : BOOLEAN, max : Limit, uses : Nat, redemptions : SUBSET Booking]
      /\ VoucherCountsBookings' /\ UsesWithinLimit'
  BY <1>1, VoucherKept DEF IInv, TypeOK
<1>3. ASSUME NEW d \in ClaimedFor(b)
      PROVE  /\ f[d] \in Redemption /\ f[d].client = d.client /\ f[d].milestone = d.milestone
             /\ f[d].status = "claimed" /\ f[d].booking = b
  BY DEF ClaimedFor, IInv, TypeOK, Redemption
<1>4. rewards' = (rewards \ ClaimedFor(b)) \cup {f[d] : d \in ClaimedFor(b)}
  BY <1>1 DEF ClaimedFor
<1> HIDE DEF f
<1>5. rewards' \subseteq Redemption /\ RewardsMatch'
  BY <1>1, <1>3, <1>4, RewardsRewritten
<1>6. QED BY <1>1, <1>2, <1>5, EndMove

----------------------------------------------------------------------------
(* A booking comes into being. *)

LEMMA NewBooking ==
  ASSUME IInv, NEW b \in Booking, NEW new \in BookingRecord, bookings[b] = Blank,
         bookings' = [bookings EXCEPT ![b] = new]
  PROVE  /\ bookings' \in [Booking -> {Blank} \cup BookingRecord]
         /\ bookings'[b] = new /\ ~Made(b) /\ Made(b)'
         /\ \A a \in Booking \ {b} : bookings'[a] = bookings[a]
         /\ \A o \in operations : o.booking \in Booking \ {b}
         /\ \A d \in rewards : d.status # "restored" => d.booking \in Booking \ {b}
         /\ \A r \in Request : request[r].pc = "booked" => request[r].booking \in Booking \ {b}
         /\ b \notin voucher.redemptions
<1>1. new # Blank
  BY DEF BookingRecord, BookingStatus, Blank
<1>2. ~Made(b)
  BY DEF Made
<1>3. /\ bookings' \in [Booking -> {Blank} \cup BookingRecord] /\ bookings'[b] = new
      /\ \A a \in Booking \ {b} : bookings'[a] = bookings[a]
  BY DEF IInv, TypeOK
<1>4. Made(b)'
  BY <1>1, <1>3 DEF Made
<1>5. \A o \in operations : o.booking \in Booking \ {b}
  BY <1>2 DEF IInv, TypeOK, OperationsMatch
<1>6. \A d \in rewards : d.status # "restored" => d.booking \in Booking \ {b}
  BY <1>2 DEF IInv, RewardsMatch
<1>7. \A r \in Request : request[r].pc = "booked" => request[r].booking \in Booking \ {b}
  BY <1>2 DEF IInv, TypeOK, RequestState, Idle, ReplyIsOwnBooking
<1>8. b \notin voucher.redemptions
  BY <1>2 DEF IInv, VoucherCountsBookings
<1>9. QED BY <1>2, <1>3, <1>4, <1>5, <1>6, <1>7, <1>8

LEMMA CreationKeepsKeys ==
  ASSUME IInv, NEW b \in Booking, NEW new \in BookingRecord, bookings[b] = Blank,
         bookings' = [bookings EXCEPT ![b] = new],
         Insertable(new.ask), Persist(new.ask, b)
  PROVE  OperationsMatch' /\ operations' \subseteq [ask : Ask, booking : Booking]
<1> DEFINE o == [ask |-> new.ask, booking |-> b]
<1>1. new.ask \in Ask /\ o.ask = new.ask /\ o.booking = b /\ o \in [ask : Ask, booking : Booking]
  BY DEF BookingRecord
<1>2. operations' = IF new.ask.key = NoKey THEN operations ELSE operations \cup {o}
  BY DEF Persist
<1>3. \A p \in operations : p.ask.key # new.ask.key
  BY DEF Insertable, Existing
<1>4. \A p \in operations' : p \in operations \/ (p = o /\ new.ask.key # NoKey)
  BY <1>2
<1> HIDE DEF o
<1>5. \A p \in operations' :
        p.ask.key # NoKey /\ Made(p.booking)' /\ bookings'[p.booking].ask = p.ask
  <2>1. ASSUME NEW p \in operations
        PROVE  p.ask.key # NoKey /\ Made(p.booking)' /\ bookings'[p.booking].ask = p.ask
    BY NewBooking DEF IInv, OperationsMatch, Made
  <2>2. Made(o.booking)' /\ bookings'[o.booking].ask = o.ask
    BY <1>1, NewBooking
  <2>3. QED BY <1>1, <1>4, <2>1, <2>2
<1>6. \A p, q \in operations' : p.ask.key = q.ask.key => p = q
  BY <1>1, <1>3, <1>4 DEF IInv, OperationsMatch
<1>7. ASSUME NEW a \in Booking, Made(a)', bookings'[a].ask.key # NoKey
      PROVE  [ask |-> bookings'[a].ask, booking |-> a] \in operations'
  <2>1. CASE a = b
    BY <1>2, <1>7, <2>1, NewBooking DEF o
  <2>2. CASE a # b
    BY <1>2, <1>7, <2>2, NewBooking DEF IInv, OperationsMatch, Made
  <2>3. QED BY <2>1, <2>2
<1>8. operations' \subseteq [ask : Ask, booking : Booking]
  BY <1>1, <1>4 DEF IInv, TypeOK
<1>9. QED BY <1>5, <1>6, <1>7, <1>8 DEF OperationsMatch

LEMMA CreationCountsVoucher ==
  ASSUME CreationAssumption, IInv, NEW b \in Booking, NEW new \in BookingRecord,
         bookings[b] = Blank, bookings' = [bookings EXCEPT ![b] = new], new.status = "active",
         IF new.ask.coupon THEN VoucherClaimable /\ ClaimVoucher(b) ELSE UNCHANGED voucher,
         UNCHANGED lowered
  PROVE  /\ VoucherCountsBookings' /\ UsesWithinLimit'
         /\ voucher' \in [active : BOOLEAN, max : Limit, uses : Nat, redemptions : SUBSET Booking]
<1>1. /\ voucher.uses \in Nat /\ voucher.max \in Nat /\ voucher.redemptions \subseteq Booking
      /\ voucher \in [active : BOOLEAN, max : Limit, uses : Nat, redemptions : SUBSET Booking]
      /\ voucher.uses = Cardinality(voucher.redemptions)
  BY LimitsAreNumbers DEF IInv, TypeOK, VoucherCountsBookings
<1>2. CASE new.ask.coupon
  <2>1. /\ voucher' = [voucher EXCEPT !.uses = voucher.uses + 1,
                                     !.redemptions = voucher.redemptions \cup {b}]
        /\ voucher.uses < voucher.max
    BY <1>2 DEF ClaimVoucher, VoucherClaimable
  <2>2. voucher.uses + 1 \in Nat /\ voucher.redemptions \cup {b} \in SUBSET Booking
    BY <1>1
  <2>3. /\ voucher'.uses = voucher.uses + 1 /\ voucher'.max = voucher.max
        /\ voucher'.redemptions = voucher.redemptions \cup {b}
        /\ voucher' \in [active : BOOLEAN, max : Limit, uses : Nat, redemptions : SUBSET Booking]
    BY <1>1, <2>1, <2>2
  <2>4. Cardinality(voucher.redemptions \cup {b}) = Cardinality(voucher.redemptions) + 1
    <3>1. IsFiniteSet(voucher.redemptions)
      BY <1>1, FS_Subset DEF CreationAssumption
    <3>2. b \notin voucher.redemptions
      BY NewBooking
    <3>3. QED BY <3>1, <3>2, FS_AddElement
  <2>5. voucher.redemptions \cup {b}
          = {a \in Booking : Made(a)' /\ bookings'[a].ask.coupon /\ bookings'[a].status # "undone"}
    <3>1. bookings'[b] = new /\ Made(b)'
      BY NewBooking
    <3>2. \A a \in Booking \ {b} : bookings'[a] = bookings[a] /\ Made(a)' = Made(a)
      BY NewBooking DEF Made
    <3>3. voucher.redemptions =
            {a \in Booking : Made(a) /\ bookings[a].ask.coupon /\ bookings[a].status # "undone"}
      BY DEF IInv, VoucherCountsBookings
    <3>4. b \notin voucher.redemptions
      BY NewBooking
    <3>5. QED BY <1>2, <3>1, <3>2, <3>3, <3>4
  <2>6. VoucherCountsBookings'
    BY <1>1, <2>3, <2>4, <2>5 DEF VoucherCountsBookings
  <2>7. UsesWithinLimit'
    BY <1>1, <2>1, <2>3 DEF UsesWithinLimit
  <2>8. QED BY <2>3, <2>6, <2>7
<1>3. CASE ~new.ask.coupon
  <2>1. voucher.redemptions
          = {a \in Booking : Made(a)' /\ bookings'[a].ask.coupon /\ bookings'[a].status # "undone"}
    BY <1>3, NewBooking DEF IInv, VoucherCountsBookings, Made
  <2>2. QED BY <1>1, <1>3, <2>1 DEF IInv, VoucherCountsBookings, UsesWithinLimit
<1>4. QED BY <1>2, <1>3

LEMMA CreationRewardsOnce ==
  ASSUME IInv, NEW b \in Booking, NEW new \in BookingRecord,
         bookings[b] = Blank, bookings' = [bookings EXCEPT ![b] = new], new.status = "active",
         new.milestone > 0 =>
           /\ new.ask.actor \in Client /\ {Barber, new.ask.actor} \subseteq users
           /\ RewardClaimable(new.ask.actor, new.milestone)
           /\ ClaimReward(new.ask.actor, new.milestone, b),
         new.milestone = 0 => UNCHANGED rewards,
         UNCHANGED users
  PROVE  RewardsMatch' /\ RewardOnce' /\ rewards' \subseteq Redemption
<1> DEFINE client == new.ask.actor
           milestone == new.milestone
           d == [client |-> client, milestone |-> milestone, status |-> "claimed", booking |-> b]
<1>1. milestone \in Nat /\ rewards \subseteq Redemption
  BY DEF BookingRecord, IInv, TypeOK, Redemption
<1>2. \A a \in Booking \ {b} : bookings'[a] = bookings[a] /\ Made(a)' = Made(a)
  BY NewBooking DEF Made
<1>3. CASE milestone = 0
  <2>1. bookings'[b].milestone = 0 /\ UNCHANGED rewards
    BY <1>3, NewBooking
  <2>2. \A e \in rewards : e.status # "restored" => e.booking \in Booking \ {b}
    BY NewBooking
  <2>3. RewardsMatch'
    BY <1>2, <2>1, <2>2 DEF IInv, RewardsMatch
  <2>4. RewardOnce'
    BY <1>2, <2>1 DEF IInv, RewardOnce
  <2>5. QED BY <1>1, <2>1, <2>3, <2>4
<1>4. CASE milestone > 0
  <2>1. /\ client \in Client /\ {Barber, client} \subseteq users
        /\ \A e \in rewards : e.client = client /\ e.milestone = milestone => e.status = "restored"
        /\ rewards' = (rewards \ RewardsOf(client, milestone)) \cup {d}
    BY <1>4 DEF RewardClaimable, ClaimReward, RewardsOf
  <2>2. /\ d \in Redemption /\ d.client = client /\ d.milestone = milestone
        /\ d.status = "claimed" /\ d.booking = b
    BY <1>1, <2>1 DEF Redemption
  <2>3. /\ bookings'[b].milestone = milestone /\ bookings'[b].ask.actor = client
        /\ bookings'[b].status = "active" /\ Made(b)'
    BY NewBooking
  <2> HIDE DEF client, milestone, d
  <2>4. \A e \in rewards' :
          e = d \/ (e \in rewards /\ ~(e.client = client /\ e.milestone = milestone))
    BY <2>1 DEF RewardsOf
  <2>5. \A e, f \in rewards' : e.client = f.client /\ e.milestone = f.milestone => e = f
    BY <2>2, <2>4 DEF IInv, RewardsMatch
  <2>6. ASSUME NEW e \in rewards', e.status # "restored"
        PROVE /\ e.booking \in Booking /\ Made(e.booking)'
              /\ bookings'[e.booking].ask.actor = e.client
              /\ bookings'[e.booking].milestone = e.milestone
              /\ bookings'[e.booking].status \in IF e.status = "claimed" THEN {"active", "lapsed"}
                                                                       ELSE {"completed"}
    <3>1. CASE e = d
      BY <2>2, <2>3, <3>1
    <3>2. CASE e \in rewards
      <4>1. e.booking \in Booking \ {b}
        BY <2>6, <3>2, NewBooking
      <4>2. QED BY <1>2, <2>6, <3>2, <4>1 DEF IInv, RewardsMatch
    <3>3. QED BY <2>4, <3>1, <3>2
  <2>7. ASSUME NEW a \in Booking, Made(a)', bookings'[a].milestone > 0,
               bookings'[a].status # "undone", {Barber, bookings'[a].ask.actor} \subseteq users'
        PROVE  \E e \in rewards' : e.booking = a /\ e.status # "restored"
    <3>1. CASE a = b
      BY <2>1, <2>2, <3>1
    <3>2. CASE a # b
      <4>1. PICK e \in rewards : e.booking = a /\ e.status # "restored"
        BY <1>2, <2>7, <3>2 DEF IInv, RewardsMatch
      <4>2. e \in rewards'
        BY <2>1, <4>1 DEF RewardsOf
      <4>3. QED BY <4>1, <4>2
    <3>3. QED BY <3>1, <3>2
  <2>8. RewardsMatch'
    BY <2>5, <2>6, <2>7 DEF RewardsMatch
  <2>9. ASSUME NEW a \in Booking \ {b}, Made(a), bookings[a].status # "undone",
               bookings[a].milestone > 0, bookings[a].milestone = milestone,
               bookings[a].ask.actor = client
        PROVE  FALSE
    <3>1. PICK e \in rewards : e.booking = a /\ e.status # "restored"
      BY <2>1, <2>9 DEF IInv, RewardsMatch
    <3>2. e.client = client /\ e.milestone = milestone
      BY <2>9, <3>1 DEF IInv, RewardsMatch
    <3>3. QED BY <2>1, <3>1, <3>2
  <2>10. RewardOnce'
    BY <1>2, <2>3, <2>9 DEF IInv, RewardOnce
  <2>11. rewards' \subseteq Redemption
    BY <1>1, <2>2, <2>4
  <2>12. QED BY <2>8, <2>10, <2>11
<1>5. QED BY <1>1, <1>3, <1>4

LEMMA CommitCreateStep ==
  ASSUME CreationAssumption, IInv, NEW r \in Request, NEW b \in Booking, NEW heard \in BOOLEAN,
         CommitCreate(r, b, heard)
  PROVE  IInv'
<1> DEFINE ask == request[r].ask
           milestone == request[r].milestone
           new == [status |-> "active", origin |-> "request", ask |-> ask, milestone |-> milestone]
           v == IF heard THEN [pc |-> "booked", ask |-> ask, booking |-> b] ELSE Idle
<1>1. /\ request[r].pc = "priced" /\ ask \in Ask /\ milestone \in Nat
      /\ ask.actor \in Account
  BY PricedType DEF CommitCreate, IInv, Ask
<1>2. /\ bookings[b] = Blank /\ bookings' = [bookings EXCEPT ![b] = new]
      /\ Insertable(ask) /\ Persist(ask, b) /\ FencesOpen(ask) /\ Claimable(ask, milestone)
      /\ IF ask.coupon THEN ClaimVoucher(b) ELSE UNCHANGED voucher
      /\ IF milestone > 0 THEN ClaimReward(ask.actor, milestone, b) ELSE UNCHANGED rewards
      /\ request' = [request EXCEPT ![r] = v]
      /\ UNCHANGED <<users, fence, lowered, waiting, removal, edit>>
  BY DEF CommitCreate, Answer
<1>3. /\ new \in BookingRecord /\ new.ask = ask /\ new.milestone = milestone
      /\ new.status = "active" /\ new.origin = "request"
  BY <1>1 DEF BookingRecord, BookingStatus
<1>4. /\ v \in RequestState /\ v.pc \in {"booked", "idle"}
      /\ v.pc = "booked" => v.booking = b /\ v.ask = ask
  BY <1>1 DEF RequestState, Idle
<1> HIDE DEF new, v
<1>5. \A q \in Request : request'[q] = IF q = r THEN v ELSE request[q]
  BY <1>2 DEF IInv, TypeOK
<1>6. \A u \in {Barber, ask.actor} : u \in Account /\ fence[u].state = "active" /\ u \in users
  BY <1>1, <1>2 DEF FencesOpen, IInv, FenceGuards, Account
<1>7. milestone > 0 => ask.actor # Barber /\ ask.actor \in Client
  BY <1>1 DEF IInv, MilestonesFit, Account
<1>8. OperationsMatch' /\ operations' \subseteq [ask : Ask, booking : Booking]
  BY <1>2, <1>3, CreationKeepsKeys
<1>9. /\ VoucherCountsBookings' /\ UsesWithinLimit'
      /\ voucher' \in [active : BOOLEAN, max : Limit, uses : Nat, redemptions : SUBSET Booking]
  <2>1. IF new.ask.coupon THEN VoucherClaimable /\ ClaimVoucher(b) ELSE UNCHANGED voucher
    BY <1>2, <1>3 DEF Claimable
  <2>2. UNCHANGED lowered
    BY <1>2
  <2>3. QED BY <1>2, <1>3, <2>1, <2>2, CreationCountsVoucher
<1>10. RewardsMatch' /\ RewardOnce' /\ rewards' \subseteq Redemption
  <2>1. new.milestone > 0 =>
          /\ new.ask.actor \in Client /\ {Barber, new.ask.actor} \subseteq users
          /\ RewardClaimable(new.ask.actor, new.milestone)
          /\ ClaimReward(new.ask.actor, new.milestone, b)
    BY <1>2, <1>3, <1>6, <1>7 DEF Claimable
  <2>2. new.milestone = 0 => UNCHANGED rewards
    BY <1>2, <1>3
  <2>3. UNCHANGED users
    BY <1>2
  <2>4. QED BY <1>2, <1>3, <2>1, <2>2, <2>3, CreationRewardsOnce
<1>11. TypeOK'
  <2>1. /\ bookings' \in [Booking -> {Blank} \cup BookingRecord]
        /\ request' \in [Request -> RequestState]
    BY <1>2, <1>3, <1>4, NewBooking DEF IInv, TypeOK
  <2>2. QED BY <1>2, <1>8, <1>9, <1>10, <2>1 DEF IInv, TypeOK, Redemption
<1>12. \A a \in Booking \ {b} : bookings'[a] = bookings[a]
  BY <1>2, <1>3, NewBooking
<1>13. bookings'[b] = new /\ Made(b)'
  BY <1>2, <1>3, NewBooking
<1>14. ReplyIsOwnBooking'
  <2>1. ASSUME NEW q \in Request, request'[q].pc = "booked"
        PROVE  Made(request[q].booking)' /\ bookings'[request'[q].booking].ask = request'[q].ask
    <3>1. CASE q = r
      BY <1>3, <1>4, <1>5, <1>13, <2>1, <3>1
    <3>2. CASE q # r
      <4>1. request'[q] = request[q]
        BY <1>5, <3>2
      <4>3. request[q].booking \in Booking \ {b}
        BY <1>2, <1>3, <2>1, <4>1, NewBooking
      <4>2. QED BY <1>12, <2>1, <4>1, <4>3 DEF IInv, ReplyIsOwnBooking, Made
    <3>3. QED BY <3>1, <3>2
  <2>2. QED BY <2>1 DEF ReplyIsOwnBooking
<1>15. MilestonesFit'
  <2>1. \A a \in Booking : Made(a)' /\ bookings'[a].milestone > 0 =>
          bookings'[a].ask.actor # Barber /\ bookings'[a].origin = "request"
    BY <1>3, <1>7, <1>12, <1>13 DEF IInv, MilestonesFit, Made
  <2>2. \A q \in Request : request'[q].pc = "priced" /\ request'[q].milestone > 0 =>
          request'[q].ask.actor # Barber
    BY <1>4, <1>5 DEF IInv, MilestonesFit
  <2>3. QED BY <2>1, <2>2 DEF MilestonesFit
<1>16. CreatedForLivingAccounts'
  <2>1. ASSUME NEW a \in Booking, Active(a)', bookings'[a].origin = "request"
        PROVE  {Barber, bookings'[a].ask.actor} \subseteq users'
    <3>1. CASE a = b
      BY <1>2, <1>3, <1>6, <1>13, <3>1
    <3>2. CASE a # b
      BY <1>2, <1>12, <2>1, <3>2 DEF IInv, CreatedForLivingAccounts, Active
    <3>3. QED BY <3>1, <3>2
  <2>2. QED BY <2>1 DEF CreatedForLivingAccounts
<1>17. FenceGuards'
  <2>1. ASSUME NEW x \in Remover, removal'[x].pc = "removing", NEW a \in Booking,
               Active(a)', bookings'[a].origin = "request"
        PROVE  ~Concerns(a, removal[x].account)'
    <3>1. removal'[x] = removal[x] /\ Holds(x)
      BY <1>2, <2>1 DEF Holds
    <3>2. CASE a = b
      <4>1. fence[removal[x].account].state = "deleting"
        BY <3>1, HolderFence
      <4>2. removal[x].account # Barber /\ removal[x].account # ask.actor
        BY <1>6, <4>1
      <4>3. QED BY <1>3, <1>13, <3>1, <3>2, <4>2 DEF Concerns
    <3>3. CASE a # b
      BY <1>12, <2>1, <3>1, <3>3 DEF IInv, FenceGuards, Active, Concerns
    <3>4. QED BY <3>2, <3>3
  <2>2. UNCHANGED <<users, fence, removal>>
    BY <1>2
  <2>3. QED BY <2>1, <2>2 DEF IInv, FenceGuards, Holds
<1>18. QED BY <1>8, <1>9, <1>10, <1>11, <1>14, <1>15, <1>16, <1>17 DEF IInv

LEMMA ConvertEntryStep ==
  ASSUME CreationAssumption, IInv, NEW c \in Client, NEW b \in Booking, NEW slot \in Slot,
         ConvertEntry(c, b, slot)
  PROVE  IInv'
<1> DEFINE ask == [actor |-> c, key |-> NoKey, slot |-> slot, coupon |-> FALSE]
           new == [status |-> "active", origin |-> "waitlist", milestone |-> 0, ask |-> ask]
<1>1. /\ bookings[b] = Blank /\ bookings' = [bookings EXCEPT ![b] = new]
      /\ waiting' \subseteq waiting
      /\ UNCHANGED <<users, fence, operations, voucher, lowered, rewards, request, edit>>
  BY DEF ConvertEntry
<1>2. /\ ask \in Ask /\ ~ask.coupon /\ ask.key = NoKey
      /\ new \in BookingRecord /\ new.ask = ask /\ new.milestone = 0
      /\ new.status = "active" /\ new.origin = "waitlist"
  BY DEF Ask, Account, BookingRecord, BookingStatus
<1> HIDE DEF ask, new
<1>3. \A x \in Remover :
        \/ removal'[x] = removal[x]
        \/ /\ removal[x].pc = "removing"
           /\ removal'[x] = [pc |-> "fenced", account |-> removal[x].account]
           /\ removal'[x].pc = "fenced" /\ removal'[x].account = removal[x].account
  BY DEF ConvertEntry
<1>4. removal' \in [Remover -> RemovalState]
  <2>1. \A x \in Remover : removal[x].pc = "removing" => removal[x].account \in Account
    BY RemovalType DEF IInv, Idle
  <2>2. \A x \in Remover : removal'[x] \in RemovalState
    <3> SUFFICES ASSUME NEW x \in Remover PROVE removal'[x] \in RemovalState
      OBVIOUS
    <3>1. CASE removal'[x] = removal[x]
      BY <3>1 DEF IInv, TypeOK
    <3>2. CASE removal[x].pc = "removing"
                 /\ removal'[x] = [pc |-> "fenced", account |-> removal[x].account]
      BY <2>1, <3>2 DEF RemovalState
    <3>3. QED BY <1>3, <3>1, <3>2
  <2>3. QED BY <2>2 DEF ConvertEntry
<1>5. OperationsMatch'
  <2>1. Insertable(new.ask) /\ Persist(new.ask, b)
    BY <1>1, <1>2 DEF Insertable, Existing, Persist, IInv, OperationsMatch
  <2>2. QED BY <1>1, <1>2, <2>1, CreationKeepsKeys
<1>6. VoucherCountsBookings' /\ UsesWithinLimit'
  BY <1>1, <1>2, CreationCountsVoucher
<1>7. RewardsMatch' /\ RewardOnce'
  <2>1. new.milestone > 0 =>
          /\ new.ask.actor \in Client /\ {Barber, new.ask.actor} \subseteq users
          /\ RewardClaimable(new.ask.actor, new.milestone)
          /\ ClaimReward(new.ask.actor, new.milestone, b)
    BY <1>2
  <2>2. UNCHANGED <<rewards, users>>
    BY <1>1
  <2>3. QED BY <1>1, <1>2, <2>1, <2>2, CreationRewardsOnce
<1>8. /\ bookings' \in [Booking -> {Blank} \cup BookingRecord]
      /\ bookings'[b] = new /\ Made(b)'
      /\ \A a \in Booking \ {b} : bookings'[a] = bookings[a]
      /\ \A r \in Request : request[r].pc = "booked" => request[r].booking \in Booking \ {b}
  BY <1>1, <1>2, NewBooking
<1>9. TypeOK'
  BY <1>1, <1>4, <1>8 DEF IInv, TypeOK
<1>10. ReplyIsOwnBooking' /\ MilestonesFit'
  BY <1>1, <1>2, <1>8 DEF IInv, ReplyIsOwnBooking, MilestonesFit, Made
<1>11. CreatedForLivingAccounts'
  BY <1>1, <1>2, <1>8 DEF IInv, CreatedForLivingAccounts, Active
<1>12. FenceGuards'
  <2>1. \A a \in Booking : Active(a)' /\ bookings'[a].origin = "request" =>
          Active(a) /\ bookings[a].origin = "request" /\ bookings'[a] = bookings[a]
    BY <1>2, <1>8 DEF Active
  <2>2. ASSUME NEW x \in Remover, removal'[x].pc = "removing"
        PROVE  \A a \in Booking : Active(a)' /\ bookings'[a].origin = "request"
                                  => ~Concerns(a, removal[x].account)'
    <3>1. removal'[x] = removal[x]
      BY <1>3, <2>2
    <3>2. QED BY <2>1, <2>2, <3>1 DEF IInv, FenceGuards, Concerns
  <2>3. ASSUME NEW x \in Remover, Holds(x)'
        PROVE  LET w == removal'[x].account
               IN /\ fence'[w] = [state |-> "deleting", by |-> x]
                  /\ (w \in users') = (removal'[x].pc # "removed")
    <3>1. /\ Holds(x) /\ removal'[x].account = removal[x].account
          /\ (removal'[x].pc # "removed") = (removal[x].pc # "removed")
      BY <1>3, <2>3 DEF Holds
    <3>2. QED BY <1>1, <3>1 DEF IInv, FenceGuards
  <2>4. QED BY <1>1, <2>2, <2>3 DEF IInv, FenceGuards
<1>13. QED BY <1>5, <1>6, <1>7, <1>9, <1>10, <1>11, <1>12 DEF IInv

----------------------------------------------------------------------------
LEMMA StutterIInv ==
  ASSUME IInv, UNCHANGED vars
  PROVE  IInv'
<1>1. TypeOK'
  BY DEF vars, IInv, TypeOK
<1>2. UsesWithinLimit'
  BY DEF vars, IInv, UsesWithinLimit
<1>3. QED BY <1>1, <1>2, EditMove DEF vars, TypeOK

LEMMA NextIInv ==
  ASSUME CreationAssumption, IInv, [Next]_vars
  PROVE  IInv'
<1>1. ASSUME NEW r \in Request, NEW b \in Booking, NEW heard \in BOOLEAN,
             CommitCreate(r, b, heard)
      PROVE  IInv'
  BY <1>1, CommitCreateStep
<1>2. ASSUME NEW r \in Request,
             \/ \E ask \in Ask : StartCreate(r, ask)
             \/ ValidateSlot(r) \/ Price(r)
             \/ RefuseDeleting(r) \/ ReplayDuplicate(r) \/ RefuseTaken(r) \/ RefusePromotion(r)
             \/ EndRequest(r)
      PROVE  IInv'
  BY <1>2, RequestStep
<1>3. ASSUME NEW b \in Booking, Undo(b) \/ Complete(b) \/ Lapse(b) PROVE IInv'
  BY <1>3, UndoStep, CompleteStep, LapseStep
<1>4. ASSUME NEW b \in Booking, NEW c \in Client, NEW slot \in Slot, ConvertEntry(c, b, slot)
      PROVE  IInv'
  BY <1>4, ConvertEntryStep
<1>5. ASSUME \/ \E e \in Editor : \/ \E max \in Limit : StartEdit(e, max)
                                \/ SaveEdit(e)
                                \/ \E active \in BOOLEAN : SetVoucherActive(e, active)
             \/ \E c \in Joiner : JoinWaitlist(c)
      PROVE  IInv'
  BY <1>5, EditStep
<1>6. ASSUME NEW x \in Remover,
             \/ \E u \in Account : StartRemoval(x, u)
             \/ BeginFence(x) \/ OpenRemoval(x) \/ FailRemoval(x)
             \/ \E heard \in BOOLEAN : CommitRemoval(x, heard)
             \/ CompleteFence(x) \/ ReleaseFence(x) \/ DropRemoval(x)
      PROVE  IInv'
  BY <1>6, RemovalStep
<1>7. CASE UNCHANGED vars
  BY <1>7, StutterIInv
<1>8. QED BY <1>1, <1>2, <1>3, <1>4, <1>5, <1>6, <1>7 DEF Next

\* Every reachable state satisfies the inductive invariant: keys, replies, the voucher, the
\* rewards and the fences agree with the bookings.
THEOREM CreationInvariance == Spec => []IInv
<1>1. Init => IInv
  BY InitIInv, CreationAssumption
<1>2. IInv /\ [Next]_vars => IInv'
  BY NextIInv, CreationAssumption
<1>3. QED BY <1>1, <1>2, PTL DEF Spec

\* A key makes one booking: the operations are the keyed bookings, and one per key.
THEOREM KeysBookOnce == Spec => []OneBookingPerKey
<1>1. IInv => OneBookingPerKey
  <2> SUFFICES ASSUME IInv, NEW a \in Booking, NEW b \in Booking, Made(a), Made(b),
                      bookings[a].ask.key = bookings[b].ask.key, bookings[a].ask.key # NoKey
               PROVE  a = b
    BY DEF OneBookingPerKey
  <2> DEFINE o == [ask |-> bookings[a].ask, booking |-> a]
             p == [ask |-> bookings[b].ask, booking |-> b]
  <2>1. o \in operations /\ p \in operations
    BY DEF IInv, OperationsMatch
  <2>2. o.ask.key = p.ask.key /\ o.booking = a /\ p.booking = b
    OBVIOUS
  <2>3. QED BY <2>1, <2>2 DEF IInv, OperationsMatch
<1>2. QED BY <1>1, CreationInvariance, PTL

\* Whoever is answered with a booking is answered with the one it asked for.
THEOREM RepliesAreOwn == Spec => []ReplyIsOwnBooking
<1>1. IInv => ReplyIsOwnBooking
  BY DEF IInv
<1>2. QED BY <1>1, CreationInvariance, PTL

\* The voucher counts exactly the bookings that used it and were not undone.
THEOREM VoucherIsCounted == Spec => []VoucherCountsBookings
<1>1. IInv => VoucherCountsBookings
  BY DEF IInv
<1>2. QED BY <1>1, CreationInvariance, PTL

\* The uses stay within the limit, but for a stale edit of the limit itself.
THEOREM VoucherStaysWithinLimit == Spec => []UsesWithinLimit
<1>1. IInv => UsesWithinLimit
  BY DEF IInv
<1>2. QED BY <1>1, CreationInvariance, PTL

\* A milestone discounts at most one booking that was not undone.
THEOREM RewardsAreClaimedOnce == Spec => []RewardOnce
<1>1. IInv => RewardOnce
  BY DEF IInv
<1>2. QED BY <1>1, CreationInvariance, PTL

\* No active booking made by request belongs to an account that is gone.
THEOREM BookingsOfLivingAccounts == Spec => []CreatedForLivingAccounts
<1>1. IInv => CreatedForLivingAccounts
  BY DEF IInv
<1>2. QED BY <1>1, CreationInvariance, PTL

\* Bookings, operations, fences and processes keep their type.
THEOREM CreationTypes == Spec => []TypeOK
<1>1. IInv => TypeOK
  BY DEF IInv
<1>2. QED BY <1>1, CreationInvariance, PTL
=============================================================================
