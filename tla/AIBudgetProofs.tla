---------------------------- MODULE AIBudgetProofs ----------------------------
(*****************************************************************************)
(* The two daily budgets for any calls, budgets, estimates, bills and number *)
(* of days.  BudgetInv is inductive: token reservations are held and every   *)
(* overshoot is explained.  So is CostInv for the cost budget, whose         *)
(* promises are a sum over calls; the lemmas on Total say what such a sum is *)
(* and how it grows, by induction over sets of numbers (SetInduction).       *)
(*****************************************************************************)
EXTENDS AIBudget, FiniteSetTheorems, WellFoundedInduction, TLAPS

USE CallsAssumption, TokenAssumption, CostAssumption, BillsAssumption, LastDayAssumption

\* Leaving out what does not fit keeps a number natural.
LEMMA MinusNat ==
  ASSUME NEW n \in Nat, NEW m \in Nat
  PROVE  Minus(n, m) \in Nat /\ Minus(n, m) >= n - m /\ Minus(n, m) <= n
  BY DEF Minus

\* Today's holders are finitely many, so what they hold is a number.
LEMMA HeldType ==
  /\ IsFiniteSet(TokenHolders) /\ Cardinality(TokenHolders) \in Nat
  /\ Held \in Nat
  /\ TokenHolders = {} => Held = 0
<1>1. IsFiniteSet(TokenHolders)
  BY FS_Subset, TokenHolders \subseteq Calls DEF TokenHolders
<1>2. Cardinality(TokenHolders) \in Nat
  BY <1>1, FS_CardinalityType
<1>3. TokenHolders = {} => Cardinality(TokenHolders) = 0
  BY FS_EmptySet
<1>4. Held \in Nat /\ (TokenHolders = {} => Held = 0)
  <2> DEFINE k == Cardinality(TokenHolders)
  <2>1. k \in Nat /\ (TokenHolders = {} => k = 0)
    BY <1>2, <1>3
  <2> HIDE DEF k
  <2>2. R * k \in Nat /\ (k = 0 => R * k = 0)
    BY <2>1
  <2> QED BY <2>1, <2>2 DEF Held, k
<1> QED BY <1>1, <1>2, <1>4

\* A call that joins today's holders adds one reservation to what is held.
LEMMA Joins ==
  ASSUME NEW c, c \notin TokenHolders, TokenHolders' = TokenHolders \cup {c}
  PROVE  Held' = Held + R
<1>1. Cardinality(TokenHolders') = Cardinality(TokenHolders) + 1
  BY HeldType, FS_AddElement
<1>2. PICK k \in Nat : k = Cardinality(TokenHolders)
  BY HeldType
<1>3. R * (k + 1) = R * k + R
  BY <1>2
<1> QED BY <1>1, <1>2, <1>3 DEF Held

\* A call that leaves them takes its reservation with it.
LEMMA Leaves ==
  ASSUME NEW c, c \in TokenHolders, TokenHolders' = TokenHolders \ {c}
  PROVE  Held' = Held - R /\ Held >= R
<1>1. Cardinality(TokenHolders') = Cardinality(TokenHolders) - 1 /\ Cardinality(TokenHolders) >= 1
  <2>1. Cardinality(TokenHolders') = Cardinality(TokenHolders) - 1
    BY HeldType, FS_RemoveElement
  <2>2. Cardinality(TokenHolders) # 0
    BY HeldType, FS_EmptySet
  <2> QED BY <2>1, <2>2, HeldType
<1>2. PICK k \in Nat : k = Cardinality(TokenHolders)
  BY HeldType
<1>3. R * (k - 1) = R * k - R /\ (k >= 1 => R * k >= R)
  BY <1>2
<1> QED BY <1>1, <1>2, <1>3 DEF Held

LEMMA OverrunNat ==
  ASSUME NEW day, NEW charge \in Nat, NEW reservation \in Nat
  PROVE  /\ Overrun(day, charge, reservation) \in Nat
         /\ day = today => Overrun(day, charge, reservation) >= charge - reservation
         /\ day # today => /\ Overrun(day, charge, reservation) >= charge
                           /\ Overrun(day, charge, reservation) >= reservation
  BY MinusNat DEF Overrun

-----------------------------------------------------------------------------
(* Types *)

LEMMA RowTypes ==
  ASSUME TypeOK, NEW day \in Days
  PROVE  /\ TokensOf(day) \in TokenRow
         /\ CostOf(day) \in CostRow
         /\ TokensOf(day).on = day
  BY DEF TokensOf, CostOf, TypeOK, TokenRow, CostRow

LEMMA SettledTypes ==
  ASSUME TypeOK, NEW c \in Calls, NEW charge \in Nat
  PROVE  /\ SettledTokens \in TokenRow
         /\ SettledCost(c, charge) \in CostRow
<1>1. SettledTokens \in TokenRow
  <2>1. Minus(tokens.reserved, R) \in Nat
    BY MinusNat DEF TypeOK, TokenRow
  <2> QED BY <2>1 DEF SettledTokens, TypeOK, TokenRow
<1>2. SettledCost(c, charge) \in CostRow
  <2>1. today \in Days
    BY DEF TypeOK
  <2>2. PICK row \in CostRow : row = CostOf(today)
    BY <2>1, RowTypes
  <2>3. row.reserved \in Nat /\ row.spent + charge \in Nat /\ Estimate[c] \in Nat
    BY DEF CostRow
  <2>4. Minus(row.reserved, Estimate[c]) \in Nat
    BY <2>3, MinusNat
  <2> QED BY <2>2, <2>3, <2>4 DEF SettledCost, CostRow
<1> QED BY <1>1, <1>2

LEMMA ChargeNat ==
  ASSUME NEW c \in Calls, NEW bill \in Bills, NEW known \in BOOLEAN
  PROVE  /\ Charge(c, bill, known) \in Nat /\ bill.tokens \in Nat /\ bill.micros \in Nat
         /\ Estimate[c] \in Nat
<1>1. bill.tokens \in Nat /\ bill.micros \in Nat /\ Estimate[c] \in Nat
  OBVIOUS
<1> QED BY <1>1 DEF Charge

\* A call that only moves to another stage keeps its record's type.
LEMMA MoveTypes ==
  ASSUME TypeOK, NEW c \in Calls, NEW stage \in Stages, Moves(c, stage)
  PROVE  call' \in [Calls -> CallRow]
<1>1. [call[c] EXCEPT !.stage = stage] \in CallRow
  BY DEF TypeOK, CallRow
<1> QED BY <1>1 DEF Moves, TypeOK

LEMMA ReservingTypes ==
  ASSUME TypeOK, NEW c \in Calls, Reserving(c)
  PROVE  TypeOK'
<1> USE DEF Stages
<1>1. CASE ReserveTokens(c)
  <2>1. tokens' \in TokenRow
    BY <1>1, RowTypes DEF ReserveTokens, TypeOK, TokenRow
  <2>2. call' \in [Calls -> CallRow]
    <3> DEFINE row == [call[c] EXCEPT !.stage = "tokens", !.tokensOn = today]
    <3>1. row \in CallRow
      BY ZenonT(60) DEF TypeOK, CallRow
    <3>2. call' = [call EXCEPT ![c] = row]
      BY <1>1 DEF ReserveTokens
    <3> QED BY <3>1, <3>2 DEF TypeOK
  <2> QED BY <1>1, <2>1, <2>2 DEF ReserveTokens, TypeOK
<1>2. CASE RefuseTokens(c)
  BY <1>2, MoveTypes DEF RefuseTokens, TypeOK
<1>3. CASE ReserveCost(c)
  <2>1. cost' \in CostRow
    BY <1>3, RowTypes, Estimate[c] \in Nat DEF ReserveCost, TypeOK, CostRow
  <2>2. call' \in [Calls -> CallRow]
    <3> DEFINE row == [call[c] EXCEPT !.stage = "reserved", !.costOn = today]
    <3>1. row \in CallRow
      BY ZenonT(60) DEF TypeOK, CallRow
    <3>2. call' = [call EXCEPT ![c] = row]
      BY <1>3 DEF ReserveCost
    <3> QED BY <3>1, <3>2 DEF TypeOK
  <2> QED BY <1>3, <2>1, <2>2 DEF ReserveCost, TypeOK
<1>4. CASE RefuseCost(c)
  BY <1>4, MoveTypes DEF RefuseCost, TypeOK
<1>5. CASE OpenRun(c)
  <2>1. call' \in [Calls -> CallRow]
    <3> DEFINE row == [call[c] EXCEPT !.stage = "open", !.runOn = today]
    <3>1. row \in CallRow
      BY ZenonT(60) DEF TypeOK, CallRow
    <3>2. call' = [call EXCEPT ![c] = row] \/ Moves(c, "unopened")
      BY <1>5 DEF OpenRun
    <3>3. CASE call' = [call EXCEPT ![c] = row]
      BY <3>1, <3>3 DEF TypeOK
    <3>4. CASE Moves(c, "unopened")
      BY <3>4, MoveTypes
    <3> QED BY <3>2, <3>3, <3>4
  <2> QED BY <1>5, <2>1 DEF OpenRun, TypeOK
<1>6. CASE GiveBackTokens(c)
  <2>1. Overrun(call[c].tokensOn, 0, R) \in Nat
    BY OverrunNat
  <2>2. excess' \in [tokens: Nat, micros: Nat]
    BY <1>6, <2>1 DEF GiveBackTokens, TypeOK
  <2> QED BY <1>6, <2>2, SettledTypes, MoveTypes DEF GiveBackTokens, TypeOK
<1>7. CASE GiveBackCost(c)
  <2>1. Overrun(call[c].costOn, 0, Estimate[c]) \in Nat
    BY OverrunNat
  <2>2. excess' \in [tokens: Nat, micros: Nat]
    BY <1>7, <2>1 DEF GiveBackCost, TypeOK
  <2> QED BY <1>7, <2>2, SettledTypes, MoveTypes DEF GiveBackCost, TypeOK
<1>8. CASE PlanRefused(c)
  BY <1>8, MoveTypes DEF PlanRefused, TypeOK
<1> QED BY <1>1, <1>2, <1>3, <1>4, <1>5, <1>6, <1>7, <1>8 DEF Reserving

LEMMA SettleJobTypes ==
  ASSUME TypeOK, NEW c \in Calls, NEW bill \in Bills, NEW known \in BOOLEAN,
         NEW counted \in BOOLEAN, SettleJob(c, bill, known, counted)
  PROVE  TypeOK'
<1> DEFINE t == IF known /\ counted /\ call[c].runOn = today THEN bill.tokens ELSE 0
           charge == Charge(c, bill, known)
<1>1. t \in Nat /\ charge \in Nat /\ bill.micros \in Nat /\ Estimate[c] \in Nat
  BY ChargeNat
<1>2. /\ tokens' = SettledTokens /\ cost' = SettledCost(c, charge) /\ used' = used + t
      /\ Moves(c, "ended") /\ today' = today
      /\ excess' = [tokens |-> excess.tokens + Overrun(call[c].tokensOn, t, R),
                    micros |-> excess.micros + Overrun(call[c].costOn, charge, Estimate[c])]
  BY DEF SettleJob
<1> HIDE DEF t, charge
<1>3. Overrun(call[c].tokensOn, t, R) \in Nat /\ Overrun(call[c].costOn, charge, Estimate[c]) \in Nat
  BY <1>1, OverrunNat
<1>4. excess' \in [tokens: Nat, micros: Nat]
  BY <1>2, <1>3 DEF TypeOK
<1> QED BY <1>1, <1>2, <1>4, SettledTypes, MoveTypes DEF TypeOK, Stages

LEMMA PlanTypes ==
  ASSUME TypeOK, NEW c \in Calls, NEW bill \in Bills, NEW known \in BOOLEAN,
         PlanSucceeds(c, bill, known)
  PROVE  TypeOK'
<1> DEFINE charge == Charge(c, bill, known)
<1>1. charge \in Nat /\ bill.micros \in Nat /\ Estimate[c] \in Nat
  BY ChargeNat
<1>2. /\ tokens' = TokensOf(today) /\ Moves(c, "ended")
      /\ \/ /\ cost' = [CostOf(today) EXCEPT !.spent = @ + charge]
            /\ excess' = [excess EXCEPT !.micros = @ + Minus(charge, Estimate[c])]
            /\ UNCHANGED <<today, used>>
         \/ /\ today < LastDay /\ today' = today + 1 /\ used' = 0
            /\ cost' = [spent |-> charge, reserved |-> 0, on |-> today + 1]
            /\ excess' = [tokens |-> 0, micros |-> charge]
  BY DEF PlanSucceeds
<1> HIDE DEF charge
<1>3. Minus(charge, Estimate[c]) \in Nat
  BY <1>1, MinusNat
<1>4. /\ excess' \in [tokens: Nat, micros: Nat] /\ today' \in Days /\ used' \in Nat
  BY <1>1, <1>2, <1>3 DEF TypeOK, Days
<1>5. cost' \in CostRow
  <2>1. CASE today' = today
    BY <1>1, <1>2, <2>1, RowTypes DEF TypeOK, CostRow
  <2>2. CASE today' = today + 1
    <3>1. cost' = [spent |-> charge, reserved |-> 0, on |-> today']
      BY <1>2, <2>2 DEF TypeOK, Days
    <3> QED BY <1>1, <1>4, <3>1 DEF CostRow
  <2> QED BY <1>2, <2>1, <2>2
<1> QED BY <1>2, <1>4, <1>5, RowTypes, MoveTypes DEF TypeOK, Stages

LEMMA TypeStep ==
  ASSUME TypeOK, [Next]_vars
  PROVE  TypeOK'
<1>1. ASSUME NEW c \in Calls, Reserving(c) PROVE TypeOK'
  BY <1>1, ReservingTypes
<1>2. ASSUME NEW c \in Calls, Strand(c) PROVE TypeOK'
  BY <1>2, ChargeNat, MoveTypes DEF Strand, TypeOK, Stages
<1>3. ASSUME NEW c \in Calls, PlanFails(c) PROVE TypeOK'
  BY <1>3, ChargeNat, MoveTypes DEF PlanFails, TypeOK, Stages
<1>4. ASSUME NEW c \in Calls, NEW bill \in Bills, NEW known \in BOOLEAN,
             SettleAssist(c, bill, known) PROVE TypeOK'
  <2>1. Charge(c, bill, known) \in Nat /\ bill.micros \in Nat /\ Estimate[c] \in Nat
    BY ChargeNat
  <2>2. Overrun(call[c].costOn, Charge(c, bill, known), Estimate[c]) \in Nat
    BY <2>1, OverrunNat
  <2>3. excess' \in [tokens: Nat, micros: Nat]
    BY <1>4, <2>2 DEF SettleAssist, TypeOK
  <2> QED BY <1>4, <2>1, <2>3, SettledTypes, MoveTypes DEF SettleAssist, TypeOK, Stages
<1>5. ASSUME NEW c \in Calls, NEW bill \in Bills, NEW known \in BOOLEAN,
             PlanSucceeds(c, bill, known) PROVE TypeOK'
  BY <1>5, PlanTypes
<1>6. ASSUME NEW c \in Calls, NEW bill \in Bills, NEW known \in BOOLEAN,
             NEW counted \in BOOLEAN, SettleJob(c, bill, known, counted) PROVE TypeOK'
  BY <1>6, SettleJobTypes
<1>7. CASE Midnight
  BY <1>7 DEF Midnight, TypeOK, Days
<1>8. CASE UNCHANGED vars
  BY <1>8 DEF vars, TypeOK
<1> QED BY <1>1, <1>2, <1>3, <1>4, <1>5, <1>6, <1>7, <1>8 DEF Next, Settling

-----------------------------------------------------------------------------
(* What a step does to today's holders *)

\* A call that only moves keeps its day; the others are left alone.
LEMMA MoveFrame ==
  ASSUME TypeOK, NEW c \in Calls, NEW stage, Moves(c, stage)
  PROVE  /\ call'[c].stage = stage /\ call'[c].tokensOn = call[c].tokensOn
         /\ \A d \in Calls : d # c => call'[d] = call[d]
  BY DEF Moves, TypeOK, CallRow

\* A day that is not null is none a fresh call could have.
LEMMA DaysAreNumbers == ASSUME TypeOK PROVE today \in Nat /\ today # NoDay
  BY DEF TypeOK, Days, NoDay

\* Steps in which no call joins or leaves and the token row stays.
LEMMA StayStep ==
  ASSUME BudgetInv, NEW c \in Calls,
         call'[c].tokensOn = call[c].tokensOn, call'[c].stage # "new",
         \A d \in Calls : d # c => call'[d] = call[d],
         call[c].tokensOn = today =>
           (call[c].stage \in HoldsTokens <=> call'[c].stage \in HoldsTokens),
         UNCHANGED <<today, used, tokens>>, excess'.tokens = excess.tokens
  PROVE  OnTheRow' /\ ReservationsAreHeld' /\ TokenOvershootIsExplained'
<1>1. TokenHolders' = TokenHolders
  BY DEF TokenHolders
<1>2. Held' = Held
  BY <1>1 DEF Held
<1>3. OnTheRow'
  BY <1>1 DEF BudgetInv, OnTheRow
<1> QED BY <1>2, <1>3 DEF BudgetInv, ReservationsAreHeld, TokenOvershootIsExplained

\* Steps in which c gives back the tokens it reserved, having used t of them today.
LEMMA LeaveStep ==
  ASSUME BudgetInv, NEW c \in Calls, NEW t \in Nat,
         call[c].stage \in HoldsTokens, call'[c].stage \notin HoldsTokens, call'[c].stage # "new",
         call'[c].tokensOn = call[c].tokensOn, \A d \in Calls : d # c => call'[d] = call[d],
         today' = today, tokens' = SettledTokens, used' = used + t,
         excess'.tokens = excess.tokens + Overrun(call[c].tokensOn, t, R)
  PROVE  OnTheRow' /\ ReservationsAreHeld' /\ TokenOvershootIsExplained'
<1> DEFINE over == Overrun(call[c].tokensOn, t, R)
<1>1. /\ over \in Nat
      /\ call[c].tokensOn = today => over >= t - R
      /\ call[c].tokensOn # today => over >= t /\ over >= R
  BY OverrunNat
<1> HIDE DEF over
<1>2. TokenHolders' = TokenHolders \ {c}
  BY DEF TokenHolders
<1>3. /\ Held \in Nat
      /\ call[c].tokensOn = today => Held' = Held - R /\ Held >= R
      /\ call[c].tokensOn # today => Held' = Held
  <2>1. CASE call[c].tokensOn = today
    <3>1. c \in TokenHolders
      BY <2>1 DEF TokenHolders
    <3> QED BY <2>1, <3>1, <1>2, Leaves, HeldType
  <2>2. CASE call[c].tokensOn # today
    <3>1. TokenHolders' = TokenHolders
      BY <2>2, <1>2 DEF TokenHolders
    <3> QED BY <2>2, <3>1, HeldType DEF Held
  <2> QED BY <2>1, <2>2
<1>4. PICK n \in Nat : /\ n = tokens.reserved /\ tokens'.on = tokens.on
                       /\ tokens'.reserved = Minus(n, R)
  BY DEF BudgetInv, TypeOK, TokenRow, SettledTokens
<1>5. Minus(n, R) >= n - R /\ Minus(n, R) <= n /\ Minus(n, R) \in Nat
      /\ (Minus(n, R) = 0 \/ Minus(n, R) = n - R)
  BY <1>4, MinusNat DEF Minus
<1>6. excess.tokens \in Nat /\ used \in Nat /\ TokenBudget \in Nat
  BY DEF BudgetInv, TypeOK
<1>7. OnTheRow'
  BY <1>2, <1>4 DEF BudgetInv, OnTheRow
<1>8. ReservationsAreHeld'
  <2> SUFFICES ASSUME tokens.on = today
               PROVE  /\ Minus(n, R) <= Held'
                      /\ Held' <= Minus(n, R) + (excess.tokens + over)
    BY <1>4 DEF ReservationsAreHeld, over
  <2>1. n <= Held /\ Held <= n + excess.tokens
    BY <1>4 DEF BudgetInv, ReservationsAreHeld
  <2>2. CASE call[c].tokensOn = today
    BY <2>1, <2>2, <1>1, <1>3, <1>5, <1>6
  <2>3. CASE call[c].tokensOn # today
    BY <2>1, <2>3, <1>1, <1>3, <1>5, <1>6
  <2> QED BY <2>2, <2>3
<1>9. TokenOvershootIsExplained'
  <2>1. used + Held <= TokenBudget + excess.tokens
    BY DEF BudgetInv, TokenOvershootIsExplained
  <2>2. (used + t) + Held' <= TokenBudget + (excess.tokens + over)
    BY <2>1, <1>1, <1>3, <1>6
  <2> QED BY <2>2 DEF TokenOvershootIsExplained, over
<1> QED BY <1>7, <1>8, <1>9

\* The day ends: nobody holds a reservation of the next day yet.
LEMMA MidnightStep ==
  ASSUME BudgetInv, today' = today + 1, used' = 0, excess'.tokens = 0, tokens'.on <= today,
         \A d \in Calls : /\ call'[d].tokensOn = call[d].tokensOn
                          /\ call'[d].stage = "new" => call[d].stage = "new",
         TypeOK'
  PROVE  OnTheRow' /\ ReservationsAreHeld' /\ TokenOvershootIsExplained'
<1>1. today \in Nat /\ tokens'.on \in Int /\ \A d \in Calls : call[d].tokensOn \in Int
  BY DEF BudgetInv, TypeOK, TokenRow, CallRow, Days, NoDay
<1>2. TokenHolders' = {}
  BY <1>1 DEF TokenHolders, BudgetInv, OnTheRow
<1>3. Held' = 0
  BY <1>2, FS_EmptySet DEF Held
<1>4. OnTheRow'
  BY <1>1, <1>2 DEF OnTheRow, BudgetInv
<1>5. ReservationsAreHeld'
  BY <1>1 DEF ReservationsAreHeld
<1>6. TokenOvershootIsExplained'
  BY <1>3 DEF TokenOvershootIsExplained
<1> QED BY <1>4, <1>5, <1>6

-----------------------------------------------------------------------------
(* The steps *)

\* What the row of today shows, reset or not.
LEMMA RowOfToday ==
  ASSUME BudgetInv
  PROVE  /\ TokensOf(today).on = today /\ TokensOf(today).reserved \in Nat
         /\ TokensOf(today).reserved <= Held
         /\ Held <= TokensOf(today).reserved + excess.tokens
<1>1. Held \in Nat /\ (TokenHolders = {} => Held = 0) /\ excess.tokens \in Nat
  BY HeldType DEF BudgetInv, TypeOK
<1>2. CASE tokens.on = today
  BY <1>1, <1>2 DEF BudgetInv, ReservationsAreHeld, TokensOf, TypeOK, TokenRow
<1>3. CASE tokens.on # today
  <2>1. Held = 0
    BY <1>1, <1>3 DEF BudgetInv, OnTheRow
  <2> QED BY <1>1, <1>3, <2>1 DEF TokensOf
<1> QED BY <1>2, <1>3

LEMMA ReserveStep ==
  ASSUME BudgetInv, NEW c \in Calls, ReserveTokens(c)
  PROVE  OnTheRow' /\ ReservationsAreHeld' /\ TokenOvershootIsExplained'
<1>1. /\ TypeOK /\ today' = today /\ used' = used /\ excess' = excess /\ call[c].stage = "new"
      /\ Kind[c] = "job" /\ used + TokensOf(today).reserved + R <= TokenBudget
      /\ tokens' = [TokensOf(today) EXCEPT !.reserved = @ + R]
  BY DEF ReserveTokens, BudgetInv, Is, TokensFit
<1>2. /\ call'[c].stage = "tokens" /\ call'[c].tokensOn = today
      /\ \A d \in Calls : d # c => call'[d] = call[d]
  BY DEF ReserveTokens, BudgetInv, TypeOK, CallRow
<1>3. c \notin TokenHolders /\ TokenHolders' = TokenHolders \cup {c}
  BY <1>1, <1>2 DEF TokenHolders, HoldsTokens
<1>4. Held' = Held + R /\ Held \in Nat
  BY <1>3, Joins, HeldType
<1>5. PICK n \in Nat : /\ n = TokensOf(today).reserved
                       /\ tokens'.reserved = n + R /\ tokens'.on = today
  <2>1. today \in Days /\ TokensOf(today) \in TokenRow
    BY <1>1, RowTypes DEF TypeOK
  <2> QED BY <1>1, <2>1, RowTypes DEF TokenRow
<1>6. n <= Held /\ Held <= n + excess.tokens /\ excess.tokens \in Nat /\ used \in Nat
  BY <1>1, <1>5, RowOfToday DEF TypeOK
<1>7. OnTheRow'
  <2>1. today \in Int
    BY <1>1 DEF TypeOK, Days
  <2> QED BY <1>1, <1>2, <1>5, <2>1 DEF OnTheRow, BudgetInv
<1>8. ReservationsAreHeld'
  BY <1>1, <1>4, <1>5, <1>6 DEF ReservationsAreHeld
<1>9. TokenOvershootIsExplained'
  BY <1>1, <1>4, <1>5, <1>6 DEF TokenOvershootIsExplained
<1> QED BY <1>7, <1>8, <1>9

LEMMA PlanStep ==
  ASSUME BudgetInv, TypeOK', NEW c \in Calls, NEW bill \in Bills, NEW known \in BOOLEAN,
         PlanSucceeds(c, bill, known)
  PROVE  OnTheRow' /\ ReservationsAreHeld' /\ TokenOvershootIsExplained'
<1>1. /\ tokens' = TokensOf(today) /\ Moves(c, "ended") /\ call[c].stage = "new"
      /\ \/ today' = today /\ used' = used /\ excess'.tokens = excess.tokens
         \/ today' = today + 1 /\ used' = 0 /\ excess'.tokens = 0
  BY DEF PlanSucceeds, Is, BudgetInv, TypeOK
<1>2. /\ TypeOK /\ today \in Nat /\ call'[c].stage = "ended" /\ call'[c].tokensOn = call[c].tokensOn
      /\ \A d \in Calls : d # c => call'[d] = call[d]
  BY <1>1, MoveFrame, DaysAreNumbers DEF BudgetInv
<1>3. /\ tokens'.on = today /\ tokens'.reserved <= Held
      /\ Held <= tokens'.reserved + excess.tokens
  BY <1>1, RowOfToday
<1>4. CASE today' = today /\ used' = used /\ excess'.tokens = excess.tokens
  <2>1. TokenHolders' = TokenHolders
    <3>1. call[c].tokensOn # today
      BY <1>1, <1>2, DaysAreNumbers DEF BudgetInv, OnTheRow
    <3> QED BY <1>2, <1>4, <3>1 DEF TokenHolders
  <2>2. Held' = Held
    BY <2>1 DEF Held
  <2>3. OnTheRow'
    BY <1>1, <1>2, <1>3, <1>4, <2>1 DEF OnTheRow, BudgetInv
  <2> QED BY <1>3, <1>4, <2>2, <2>3
          DEF ReservationsAreHeld, TokenOvershootIsExplained, BudgetInv
<1>5. CASE today' = today + 1 /\ used' = 0 /\ excess'.tokens = 0
  <2>1. \A d \in Calls : /\ call'[d].tokensOn = call[d].tokensOn
                         /\ call'[d].stage = "new" => call[d].stage = "new"
    BY <1>1, <1>2
  <2> QED BY <1>2, <1>3, <1>5, <2>1, MidnightStep
<1> QED BY <1>1, <1>4, <1>5

LEMMA ReservingStep ==
  ASSUME BudgetInv, NEW c \in Calls, Reserving(c)
  PROVE  OnTheRow' /\ ReservationsAreHeld' /\ TokenOvershootIsExplained'
<1>1. TypeOK /\ today \in Nat /\ today # NoDay
  BY DaysAreNumbers DEF BudgetInv
<1>2. (Kind[c] # "job" \/ call[c].stage = "new") => call[c].tokensOn # today
  BY <1>1 DEF BudgetInv, OnTheRow
<1> USE DEF HoldsTokens, Is
<1>3. CASE ReserveTokens(c)
  BY <1>3, ReserveStep
<1>4. CASE RefuseTokens(c)
  BY <1>1, <1>2, <1>4, MoveFrame, StayStep DEF RefuseTokens
<1>5. CASE ReserveCost(c)
  <2>1. /\ call'[c].stage = "reserved" /\ call'[c].tokensOn = call[c].tokensOn
        /\ \A d \in Calls : d # c => call'[d] = call[d]
    BY <1>1, <1>5 DEF ReserveCost, TypeOK, CallRow
  <2> QED BY <1>2, <1>5, <2>1, StayStep DEF ReserveCost
<1>6. CASE RefuseCost(c)
  BY <1>1, <1>2, <1>6, MoveFrame, StayStep DEF RefuseCost
<1>7. CASE OpenRun(c)
  <2>1. /\ call'[c].stage \in {"open", "unopened"} /\ call'[c].tokensOn = call[c].tokensOn
        /\ \A d \in Calls : d # c => call'[d] = call[d]
    BY <1>1, <1>7 DEF OpenRun, Moves, TypeOK, CallRow
  <2> QED BY <1>2, <1>7, <2>1, StayStep DEF OpenRun
<1>8. CASE GiveBackTokens(c)
  <2>1. /\ call[c].stage \in {"denied", "unopened"} /\ call'[c].stage \in {"ended", "uncharged"}
        /\ call'[c].tokensOn = call[c].tokensOn
        /\ \A d \in Calls : d # c => call'[d] = call[d]
    BY <1>1, <1>8, MoveFrame DEF GiveBackTokens
  <2>2. /\ today' = today /\ tokens' = SettledTokens /\ used' = used + 0
        /\ excess'.tokens = excess.tokens + Overrun(call[c].tokensOn, 0, R)
    BY <1>1, <1>8 DEF GiveBackTokens, TypeOK
  <2> QED BY <2>1, <2>2, LeaveStep
<1>9. CASE GiveBackCost(c)
  <2>1. excess'.tokens = excess.tokens
    BY <1>1, <1>9 DEF GiveBackCost, TypeOK
  <2> QED BY <1>1, <1>2, <1>9, <2>1, MoveFrame, StayStep DEF GiveBackCost
<1>10. CASE PlanRefused(c)
  BY <1>1, <1>2, <1>10, MoveFrame, StayStep DEF PlanRefused
<1> QED BY <1>3, <1>4, <1>5, <1>6, <1>7, <1>8, <1>9, <1>10 DEF Reserving

LEMMA SettlingStep ==
  ASSUME BudgetInv, TypeOK', NEW c \in Calls, Settling(c)
  PROVE  OnTheRow' /\ ReservationsAreHeld' /\ TokenOvershootIsExplained'
<1>1. TypeOK /\ today \in Nat /\ today # NoDay
  BY DaysAreNumbers DEF BudgetInv
<1>2. (Kind[c] # "job" \/ call[c].stage = "new") => call[c].tokensOn # today
  BY <1>1 DEF BudgetInv, OnTheRow
<1> USE DEF HoldsTokens, Is
<1>3. ASSUME Strand(c)
      PROVE  OnTheRow' /\ ReservationsAreHeld' /\ TokenOvershootIsExplained'
  BY <1>1, <1>2, <1>3, MoveFrame, StayStep DEF Strand
<1>4. ASSUME PlanFails(c)
      PROVE  OnTheRow' /\ ReservationsAreHeld' /\ TokenOvershootIsExplained'
  BY <1>1, <1>2, <1>4, MoveFrame, StayStep DEF PlanFails
<1>5. ASSUME NEW bill \in Bills, NEW known \in BOOLEAN, SettleAssist(c, bill, known)
      PROVE  OnTheRow' /\ ReservationsAreHeld' /\ TokenOvershootIsExplained'
  <2>1. excess'.tokens = excess.tokens
    BY <1>1, <1>5 DEF SettleAssist, TypeOK
  <2>2. /\ call[c].tokensOn # today /\ Moves(c, "ended")
        /\ UNCHANGED <<today, used, tokens>>
    BY <1>2, <1>5 DEF SettleAssist
  <2> QED BY <1>1, <2>1, <2>2, MoveFrame, StayStep
<1>6. ASSUME NEW bill \in Bills, NEW known \in BOOLEAN, PlanSucceeds(c, bill, known)
      PROVE  OnTheRow' /\ ReservationsAreHeld' /\ TokenOvershootIsExplained'
  BY <1>6, PlanStep
<1>7. ASSUME NEW bill \in Bills, NEW known \in BOOLEAN, NEW counted \in BOOLEAN,
             SettleJob(c, bill, known, counted)
      PROVE  OnTheRow' /\ ReservationsAreHeld' /\ TokenOvershootIsExplained'
  <2> DEFINE t == IF known /\ counted /\ call[c].runOn = today THEN bill.tokens ELSE 0
  <2>1. t \in Nat
    BY ChargeNat
  <2>2. /\ call[c].stage = "open" /\ tokens' = SettledTokens /\ used' = used + t
        /\ excess'.tokens = excess.tokens + Overrun(call[c].tokensOn, t, R)
        /\ Moves(c, "ended") /\ today' = today
    BY <1>7 DEF SettleJob
  <2> HIDE DEF t
  <2>3. /\ call'[c].stage = "ended" /\ call'[c].tokensOn = call[c].tokensOn
        /\ \A d \in Calls : d # c => call'[d] = call[d]
    BY <1>1, <2>2, MoveFrame
  <2> QED BY <2>1, <2>2, <2>3, LeaveStep
<1> QED BY <1>3, <1>4, <1>5, <1>6, <1>7 DEF Settling

LEMMA InvStep ==
  ASSUME BudgetInv, [Next]_vars
  PROVE  BudgetInv'
<1>1. TypeOK'
  BY TypeStep DEF BudgetInv
<1>2. OnTheRow' /\ ReservationsAreHeld' /\ TokenOvershootIsExplained'
  <2>1. ASSUME NEW c \in Calls, Reserving(c)
        PROVE  OnTheRow' /\ ReservationsAreHeld' /\ TokenOvershootIsExplained'
    BY <2>1, ReservingStep
  <2>2. ASSUME NEW c \in Calls, Settling(c)
        PROVE  OnTheRow' /\ ReservationsAreHeld' /\ TokenOvershootIsExplained'
    BY <1>1, <2>2, SettlingStep
  <2>3. CASE Midnight
    <3>1. today' = today + 1 /\ used' = 0 /\ excess'.tokens = 0 /\ tokens'.on <= today
          /\ call' = call
      BY <2>3 DEF Midnight, BudgetInv, OnTheRow
    <3> QED BY <1>1, <3>1, MidnightStep
  <2>4. CASE UNCHANGED vars
    <3>1. TokenHolders' = TokenHolders /\ Held' = Held
      BY <2>4 DEF vars, TokenHolders, Held
    <3> QED BY <2>4, <3>1 DEF vars, BudgetInv, OnTheRow, ReservationsAreHeld,
                              TokenOvershootIsExplained
  <2> QED BY <2>1, <2>2, <2>3, <2>4 DEF Next
<1> QED BY <1>1, <1>2 DEF BudgetInv

LEMMA InvInit == Init => BudgetInv
<1> SUFFICES ASSUME Init PROVE BudgetInv
  OBVIOUS
<1>1. TypeOK
  BY DEF Init, TypeOK, TokenRow, CostRow, CallRow, Days, NoDay, Stages
<1>2. TokenHolders = {} /\ Held = 0
  BY HeldType DEF Init, TokenHolders, NoDay
<1>3. OnTheRow /\ ReservationsAreHeld /\ TokenOvershootIsExplained
  BY <1>2 DEF Init, OnTheRow, ReservationsAreHeld, TokenOvershootIsExplained, NoDay
<1> QED BY <1>1, <1>3 DEF BudgetInv

-----------------------------------------------------------------------------
(* The inductive invariant of the token budget, over any number of days and  *)
(* calls that reserve, are denied, settle early, late or never.              *)
THEOREM BudgetInvariant == Spec => []BudgetInv
  BY InvInit, InvStep, PTL DEF Spec

(* Nothing stays reserved that nobody holds (reserve_ai_budget and           *)
(* settle_ai_budget match on every path of execute_generation_job).          *)
THEOREM ReservationsMatchHolders == Spec => []ReservationsAreHeld
<1>1. BudgetInv => ReservationsAreHeld
  BY DEF BudgetInv
<1> QED BY <1>1, BudgetInvariant, PTL

(* The token guard lets the day exceed its budget only by what calls carried over *)
(* midnight, or using more than their reservation, explain.                       *)
THEOREM OvershootIsExplained == Spec => []TokenOvershootIsExplained
<1>1. BudgetInv => TokenOvershootIsExplained
  BY DEF BudgetInv
<1> QED BY <1>1, BudgetInvariant, PTL

-----------------------------------------------------------------------------
(* Sums *)

\* Induction, of a set of numbers.
LEMMA SetInduction ==
  ASSUME NEW S \in SUBSET Nat, 0 \in S, \A n \in S : n + 1 \in S
  PROVE  S = Nat
<1> SUFFICES ASSUME S # Nat PROVE FALSE
  OBVIOUS
<1>1. \E m \in Nat \ S : \A n \in Nat \ S : ~(<<n, m>> \in OpToRel(<, Nat))
  <2>1. Nat \ S # {} /\ Nat \ S \subseteq Nat
    OBVIOUS
  <2> QED
    BY <2>1, NatLessThanWellFounded, WFMin, Zenon
<1>2. PICK m \in Nat \ S : \A n \in Nat \ S : ~(n < m)
  BY <1>1 DEF OpToRel
<1>3. m # 0 /\ m - 1 \in Nat /\ m - 1 < m
  BY <1>2
<1>4. m - 1 \in S
  BY <1>2, <1>3
<1>5. (m - 1) + 1 = m
  BY <1>2, <1>3
<1> QED
  BY <1>2, <1>4, <1>5

Total(f, S) == MapThenSumSet(LAMBDA x : f[x], S)
First(s) == CHOOSE x \in s : TRUE
\* g is the sum of f over every subset of S, in the order in which a fold takes them.
Sums(f, S, g) ==
  g = [s \in SUBSET S |-> IF s = {} THEN 0 ELSE f[First(s)] + g[s \ {First(s)}]]

\* Taking one element out of a finite set.
LEMMA OneLess ==
  ASSUME NEW s, IsFiniteSet(s), s # {}
  PROVE  /\ First(s) \in s /\ IsFiniteSet(s \ {First(s)})
         /\ Cardinality(s) \in Nat /\ Cardinality(s) > 0
         /\ Cardinality(s \ {First(s)}) = Cardinality(s) - 1
<1>1. First(s) \in s
  BY DEF First
<1>2. Cardinality(s) \in Nat /\ Cardinality(s) # 0
  BY FS_EmptySet, FS_CardinalityType
<1> QED
  BY <1>1, <1>2, FS_RemoveElement

LEMMA SumsExist ==
  ASSUME NEW f, NEW S, IsFiniteSet(S)
  PROVE  \E g : Sums(f, S, g)
<1> DEFINE Small(n) == {s \in SUBSET S : Cardinality(s) <= n}
           IsSum(g, n) ==
             g = [s \in Small(n) |-> IF s = {} THEN 0 ELSE f[First(s)] + g[s \ {First(s)}]]
           Good == {n \in Nat : \E g : IsSum(g, n)}
<1>0. \A s \in SUBSET S : IsFiniteSet(s) /\ Cardinality(s) \in Nat /\ Cardinality(s) <= Cardinality(S)
  BY FS_Subset, FS_CardinalityType
<1>1. 0 \in Good
  <2> DEFINE g == [s \in Small(0) |-> 0]
  <2>1. \A s \in Small(0) : s = {}
    BY <1>0, FS_EmptySet
  <2>2. IsSum(g, 0)
    BY <2>1
  <2> QED
    BY <2>2
<1>2. ASSUME NEW n \in Good PROVE n + 1 \in Good
  <2>1. PICK g : IsSum(g, n)
    OBVIOUS
  <2> DEFINE h == [s \in Small(n + 1) |-> IF s = {} THEN 0 ELSE f[First(s)] + g[s \ {First(s)}]]
  <2>2. \A s \in Small(n) : s \in Small(n + 1) /\ h[s] = g[s]
    <3> TAKE s \in Small(n)
    <3>1. s \in Small(n + 1)
      BY <1>0
    <3>2. g[s] = IF s = {} THEN 0 ELSE f[First(s)] + g[s \ {First(s)}]
      BY <2>1
    <3> QED
      BY <3>1, <3>2
  <2>3. \A s \in Small(n + 1) : s # {} => s \ {First(s)} \in Small(n)
    BY <1>0, OneLess
  <2>4. IsSum(h, n + 1)
    <3>1. \A s \in Small(n + 1) : s # {} => g[s \ {First(s)}] = h[s \ {First(s)}]
      BY <2>2, <2>3
    <3> HIDE DEF Small
    <3> QED
      BY <3>1
  <2> HIDE DEF IsSum, h
  <2> QED
    BY <2>4
<1>3. Good = Nat
  <2> HIDE DEF IsSum
  <2>1. Good \in SUBSET Nat
    OBVIOUS
  <2> HIDE DEF Good
  <2> QED
    BY <2>1, <1>1, <1>2, SetInduction
<1>4. PICK g : IsSum(g, Cardinality(S))
  <2> HIDE DEF IsSum
  <2> QED
    BY <1>3, FS_CardinalityType
<1>5. Small(Cardinality(S)) = SUBSET S
  BY <1>0
<1> QED
  BY <1>4, <1>5 DEF Sums

\* Two that agree on what they add agree on what they sum.
LEMMA SumsAgree ==
  ASSUME NEW f, NEW S, NEW g, Sums(f, S, g), NEW e, NEW T \in SUBSET S, NEW h, Sums(e, T, h),
         IsFiniteSet(T), \A x \in T : e[x] = f[x]
  PROVE  \A s \in SUBSET T : h[s] = g[s]
<1> DEFINE Good == {n \in Nat : \A s \in SUBSET T : Cardinality(s) = n => h[s] = g[s]}
<1>0. \A s \in SUBSET T : IsFiniteSet(s) /\ Cardinality(s) \in Nat
  BY FS_Subset, FS_CardinalityType
<1>1. \A s \in SUBSET T : /\ h[s] = IF s = {} THEN 0 ELSE e[First(s)] + h[s \ {First(s)}]
                          /\ g[s] = IF s = {} THEN 0 ELSE f[First(s)] + g[s \ {First(s)}]
  BY DEF Sums
<1>2. 0 \in Good
  BY <1>0, <1>1, FS_EmptySet
<1>3. ASSUME NEW n \in Good PROVE n + 1 \in Good
  <2> SUFFICES ASSUME NEW s \in SUBSET T, Cardinality(s) = n + 1 PROVE h[s] = g[s]
    OBVIOUS
  <2>1. s # {}
    BY n \in Nat, 0 # n + 1, FS_EmptySet
  <2>2. First(s) \in T /\ Cardinality(s \ {First(s)}) = n /\ s \ {First(s)} \in SUBSET T
    BY <1>0, <2>1, OneLess
  <2>3. h[s \ {First(s)}] = g[s \ {First(s)}] /\ e[First(s)] = f[First(s)]
    BY <2>2
  <2> QED
    BY <1>1, <2>1, <2>3
<1>4. Good = Nat
  <2>1. Good \in SUBSET Nat
    OBVIOUS
  <2> HIDE DEF Good
  <2> QED
    BY <2>1, <1>2, <1>3, SetInduction
<1> QED
  BY <1>0, <1>4

LEMMA TotalIsTheSum ==
  ASSUME NEW f, NEW S, IsFiniteSet(S)
  PROVE  \E g : Sums(f, S, g) /\ Total(f, S) = g[S]
<1> DEFINE g == CHOOSE g : Sums(f, S, g)
<1>1. Sums(f, S, g)
  BY SumsExist
<1>2. Total(f, S) = g[S]
  BY DEF Total, MapThenSumSet, MapThenFoldSet, Sums, First
<1> QED
  BY <1>1, <1>2

LEMMA TotalSame ==
  ASSUME NEW S, IsFiniteSet(S), NEW f, NEW e, \A x \in S : e[x] = f[x]
  PROVE  Total(e, S) = Total(f, S)
BY TotalIsTheSum, SumsAgree

LEMMA TotalUnfolds ==
  ASSUME NEW f, NEW S, IsFiniteSet(S)
  PROVE  Total(f, S) = IF S = {} THEN 0 ELSE f[First(S)] + Total(f, S \ {First(S)})
<1>1. PICK g : Sums(f, S, g) /\ Total(f, S) = g[S]
  BY TotalIsTheSum
<1>2. g[S] = IF S = {} THEN 0 ELSE f[First(S)] + g[S \ {First(S)}]
  BY <1>1 DEF Sums
<1>3. CASE S # {}
  <2> DEFINE T == S \ {First(S)}
  <2>1. IsFiniteSet(T) /\ T \in SUBSET S
    BY <1>3, OneLess
  <2>2. PICK h : Sums(f, T, h) /\ Total(f, T) = h[T]
    BY <2>1, TotalIsTheSum
  <2>3. h[T] = g[T]
    BY <1>1, <2>1, <2>2, SumsAgree
  <2> QED
    BY <1>1, <1>2, <1>3, <2>2, <2>3
<1> QED
  BY <1>1, <1>2, <1>3

LEMMA TotalType ==
  ASSUME NEW S, IsFiniteSet(S), NEW f, \A x \in S : f[x] \in Nat
  PROVE  Total(f, S) \in Nat
<1> DEFINE Good == {n \in Nat : \A s \in SUBSET S : Cardinality(s) = n => Total(f, s) \in Nat}
<1>0. \A s \in SUBSET S : IsFiniteSet(s) /\ Cardinality(s) \in Nat
  BY FS_Subset, FS_CardinalityType
<1>1. 0 \in Good
  BY <1>0, TotalUnfolds, FS_EmptySet
<1>2. ASSUME NEW n \in Good PROVE n + 1 \in Good
  <2> SUFFICES ASSUME NEW s \in SUBSET S, Cardinality(s) = n + 1 PROVE Total(f, s) \in Nat
    OBVIOUS
  <2>1. s # {}
    BY FS_EmptySet
  <2>2. First(s) \in S /\ Cardinality(s \ {First(s)}) = n /\ s \ {First(s)} \in SUBSET S
    BY <1>0, <2>1, OneLess
  <2>3. Total(f, s \ {First(s)}) \in Nat /\ f[First(s)] \in Nat
    BY <2>2
  <2> QED
    BY <1>0, <2>1, <2>3, TotalUnfolds
<1>3. Good = Nat
  <2>1. Good \in SUBSET Nat
    OBVIOUS
  <2> HIDE DEF Good
  <2> QED
    BY <2>1, <1>1, <1>2, SetInduction
<1> QED
  BY <1>0, <1>3

\* Whichever element a fold takes first, adding one adds what it stands for.
LEMMA TotalAdds ==
  ASSUME NEW S, IsFiniteSet(S), NEW f, \A x \in S : f[x] \in Nat, NEW y \in S
  PROVE  Total(f, S) = Total(f, S \ {y}) + f[y]
<1> DEFINE Good == {n \in Nat : \A s \in SUBSET S : Cardinality(s) = n =>
                      \A z \in s : Total(f, s) = Total(f, s \ {z}) + f[z]}
<1>0. \A s \in SUBSET S : IsFiniteSet(s) /\ Cardinality(s) \in Nat /\ Total(f, s) \in Nat
  BY FS_Subset, FS_CardinalityType, TotalType
<1>1. 0 \in Good
  BY <1>0, FS_EmptySet
<1>2. ASSUME NEW n \in Good PROVE n + 1 \in Good
  <2> SUFFICES ASSUME NEW s \in SUBSET S, Cardinality(s) = n + 1, NEW z \in s
               PROVE  Total(f, s) = Total(f, s \ {z}) + f[z]
    OBVIOUS
  <2> DEFINE x == First(s)
  <2>1. x \in s /\ Cardinality(s \ {x}) = n /\ s \ {x} \in SUBSET S
    BY <1>0, OneLess
  <2>2. Total(f, s) = f[x] + Total(f, s \ {x})
    BY <1>0, TotalUnfolds
  <2> HIDE DEF x
  <2>3. CASE z = x
    BY <1>0, <2>1, <2>2, <2>3
  <2>4. CASE z # x
    <3> DEFINE t == s \ {x}
               u == s \ {z}
    <3>1. z \in t /\ t \ {z} = u \ {x} /\ x \in u /\ u \in SUBSET S
      BY <2>1, <2>4
    <3>2. Cardinality(u) = n
      <4>1. Cardinality(u) = Cardinality(s) - 1
        BY <1>0, FS_RemoveElement
      <4> QED
        BY <4>1, n \in Nat
    <3>3. Total(f, t) = Total(f, t \ {z}) + f[z]
      BY <2>1, <3>1
    <3>4. Total(f, u) = Total(f, u \ {x}) + f[x]
      BY <3>1, <3>2
    <3>5. f[x] \in Nat /\ f[z] \in Nat /\ Total(f, t) \in Nat /\ Total(f, u) \in Nat
          /\ Total(f, t \ {z}) \in Nat
      BY <1>0, <2>1, <3>1
    <3>6. Total(f, u) = Total(f, t \ {z}) + f[x]
      BY <3>1, <3>4
    <3>7. \A a, b, k, l, m \in Nat : k = a + b /\ l = a + m => m + k = l + b
      OBVIOUS
    <3>8. f[x] + Total(f, t) = Total(f, u) + f[z]
      BY <3>3, <3>5, <3>6, <3>7
    <3> QED
      BY <2>2, <3>8
  <2> QED
    BY <2>3, <2>4
<1>3. Good = Nat
  <2>1. Good \in SUBSET Nat
    OBVIOUS
  <2> HIDE DEF Good
  <2> QED
    BY <2>1, <1>1, <1>2, SetInduction
<1>4. Cardinality(S) \in Good /\ S \in SUBSET S
  BY <1>3, <1>0
<1> QED
  BY <1>4

-----------------------------------------------------------------------------
(* The cost budget *)

SpentToday == CostOf(today).spent

CostOnTheRow ==
  /\ CostHolders # {} => cost.on = today
  /\ cost.on <= today
  /\ \A c \in Calls :
       /\ call[c].costOn <= today
       /\ Kind[c] = "plan" \/ call[c].stage \in {"new", "tokens", "denied"} => call[c].costOn = NoDay

CostInv ==
  /\ TypeOK /\ CostOnTheRow
  /\ Promised <= CostOf(today).reserved + excess.micros
  /\ CostOvershootIsExplained

\* Only the calls that hold a reservation, of whichever estimate, make a promise.
LEMMA PromisedType ==
  /\ Promised = Total(Estimate, CostHolders) /\ IsFiniteSet(CostHolders) /\ Promised \in Nat
  /\ CostHolders = {} => Promised = 0
<1>1. IsFiniteSet(CostHolders) /\ CostHolders \subseteq Calls
  BY FS_Subset, CostHolders \subseteq Calls DEF CostHolders
<1>2. Promised = Total(Estimate, CostHolders)
  BY DEF Promised, Total
<1>3. Total(Estimate, CostHolders) \in Nat
  BY <1>1, TotalType
<1>4. CostHolders = {} => Total(Estimate, CostHolders) = 0
  BY <1>1, TotalUnfolds
<1> QED
  BY <1>1, <1>2, <1>3, <1>4

LEMMA PromisedNext ==
  Promised' = Total(Estimate, CostHolders')
BY DEF Promised, Total, MapThenSumSet, MapThenFoldSet

LEMMA Promises ==
  ASSUME NEW c \in Calls, c \notin CostHolders, CostHolders' = CostHolders \cup {c}
  PROVE  Promised' = Promised + Estimate[c]
<1>0. CostHolders \subseteq Calls
  BY DEF CostHolders
<1>1. CostHolders' \subseteq Calls /\ IsFiniteSet(CostHolders') /\ c \in CostHolders'
  BY <1>0, PromisedType, FS_AddElement
<1>2. Total(Estimate, CostHolders') = Total(Estimate, CostHolders' \ {c}) + Estimate[c]
  BY <1>1, TotalAdds
<1>3. CostHolders' \ {c} = CostHolders
  OBVIOUS
<1> QED
  BY <1>2, <1>3, PromisedType, PromisedNext

LEMMA Keeps ==
  ASSUME NEW c \in Calls, c \in CostHolders, CostHolders' = CostHolders \ {c}
  PROVE  Promised = Promised' + Estimate[c] /\ Promised' \in Nat
<1>1. CostHolders \subseteq Calls /\ IsFiniteSet(CostHolders)
  BY PromisedType DEF CostHolders
<1>2. Total(Estimate, CostHolders) = Total(Estimate, CostHolders \ {c}) + Estimate[c]
  BY <1>1, TotalAdds
<1>3. Total(Estimate, CostHolders \ {c}) \in Nat
  BY <1>1, FS_RemoveElement, TotalType
<1> QED
  BY <1>2, <1>3, PromisedType, PromisedNext

LEMMA SpentIs ==
  ASSUME TypeOK
  PROVE  /\ SpentToday = IF cost.on = today THEN cost.spent ELSE 0
         /\ SpentToday \in Nat /\ CostOf(today).reserved \in Nat /\ CostOf(today).on = today
         /\ CostOf(today) \in CostRow
         /\ excess.micros \in Nat /\ CostBudget \in Nat /\ today \in Nat /\ today # NoDay
         /\ CostOvershootIsExplained <=> SpentToday + Promised <= CostBudget + excess.micros
  BY DEF SpentToday, CostOf, TypeOK, CostRow, Days, NoDay, CostOvershootIsExplained

\* The same of the next state.
LEMMA SpentNext ==
  ASSUME TypeOK', today' = today, cost'.on = today
  PROVE  /\ CostOvershootIsExplained' <=> cost'.spent + Promised' <= CostBudget + excess'.micros
         /\ CostOf(today)'.reserved = cost'.reserved
  BY DEF CostOf, CostOvershootIsExplained

\* Steps in which no call joins or leaves the holders and the cost row stays.
LEMMA CostStays ==
  ASSUME CostInv, TypeOK', NEW c \in Calls,
         call'[c].costOn = call[c].costOn,
         Kind[c] = "plan" \/ call'[c].stage \in {"new", "tokens", "denied"} => call[c].costOn = NoDay,
         \A d \in Calls : d # c => call'[d] = call[d],
         call[c].costOn = today => (call[c].stage \in HoldsCost <=> call'[c].stage \in HoldsCost),
         UNCHANGED <<today, cost>>, excess'.micros = excess.micros
  PROVE  CostInv'
<1>1. CostHolders' = CostHolders
  BY DEF CostHolders
<1>2. Promised' = Promised
  BY <1>1, PromisedType, PromisedNext
<1>3. CostOnTheRow'
  BY <1>1 DEF CostInv, CostOnTheRow
<1> QED
  BY <1>2, <1>3 DEF CostInv, CostOvershootIsExplained, CostOf

\* Steps in which c settles what it reserved, at a charge.
LEMMA CostSettles ==
  ASSUME CostInv, TypeOK', NEW c \in Calls, NEW charge \in Nat,
         call[c].stage \in HoldsCost, call'[c].stage = "ended",
         call'[c].costOn = call[c].costOn, \A d \in Calls : d # c => call'[d] = call[d],
         today' = today, cost' = SettledCost(c, charge),
         excess'.micros = excess.micros + Overrun(call[c].costOn, charge, Estimate[c])
  PROVE  CostInv'
<1> DEFINE over == Overrun(call[c].costOn, charge, Estimate[c])
<1>0. TypeOK /\ Estimate[c] \in Nat
  BY DEF CostInv
<1>1. /\ over \in Nat
      /\ call[c].costOn = today => over >= charge - Estimate[c]
      /\ call[c].costOn # today => over >= charge /\ over >= Estimate[c]
  BY <1>0, OverrunNat
<1> HIDE DEF over
<1>2. CostHolders' = CostHolders \ {c}
  BY DEF CostHolders, HoldsCost
<1>3. PICK row \in CostRow : row = CostOf(today)
  BY <1>0, SpentIs
<1>4. /\ cost'.on = today /\ cost'.spent = SpentToday + charge
      /\ cost'.reserved = Minus(CostOf(today).reserved, Estimate[c])
  <2>1. cost' = [[row EXCEPT !.reserved = Minus(row.reserved, Estimate[c])]
                    EXCEPT !.spent = row.spent + charge]
    BY <1>3 DEF SettledCost, CostRow
  <2>2. row.on = today /\ row.spent = SpentToday
    BY <1>0, <1>3, SpentIs DEF SpentToday
  <2> QED
    BY <1>3, <2>1, <2>2 DEF CostRow
<1>5. CostOf(today).reserved \in Nat /\ cost'.reserved \in Nat
      /\ cost'.reserved >= CostOf(today).reserved - Estimate[c]
  <2>1. PICK n \in Nat : n = CostOf(today).reserved
    BY <1>0, SpentIs
  <2> QED
    BY <1>0, <1>4, <2>1, MinusNat
<1>6. CostOnTheRow'
  <2>1. today \in Nat /\ today # NoDay
    BY <1>0, SpentIs
  <2>2. call[c].costOn <= today
    BY DEF CostInv, CostOnTheRow
  <2>3. \A d \in Calls : /\ call'[d].costOn <= today'
                         /\ Kind[d] = "plan" \/ call'[d].stage \in {"new", "tokens", "denied"}
                              => call'[d].costOn = NoDay
    BY <2>2 DEF CostInv, CostOnTheRow
  <2> QED
    BY <1>4, <2>1, <2>3 DEF CostOnTheRow
<1>7. /\ Promised <= CostOf(today).reserved + excess.micros
      /\ SpentToday + Promised <= CostBudget + excess.micros
      /\ SpentToday \in Nat /\ excess.micros \in Nat /\ Promised \in Nat
  BY <1>0, SpentIs, PromisedType DEF CostInv
<1>8. /\ call[c].costOn = today => Promised = Promised' + Estimate[c] /\ Promised' \in Nat
      /\ call[c].costOn # today => Promised' = Promised
  <2>1. CASE call[c].costOn = today
    <3>1. c \in CostHolders
      BY <2>1 DEF CostHolders
    <3> QED
      BY <1>2, <2>1, <3>1, Keeps
  <2>2. CASE call[c].costOn # today
    <3>1. CostHolders' = CostHolders
      BY <1>2, <2>2 DEF CostHolders
    <3> QED
      BY <2>2, <3>1, PromisedType, PromisedNext
  <2> QED
    BY <2>1, <2>2
<1>9. excess'.micros = excess.micros + over
  BY DEF over
<1>10. /\ Promised' <= cost'.reserved + excess'.micros
       /\ cost'.spent + Promised' <= CostBudget + excess'.micros
  <2>1. CASE call[c].costOn = today
    BY <1>0, <1>1, <1>4, <1>5, <1>7, <1>8, <1>9, <2>1
  <2>2. CASE call[c].costOn # today
    BY <1>0, <1>1, <1>4, <1>5, <1>7, <1>8, <1>9, <2>2
  <2> QED
    BY <2>1, <2>2
<1> QED
  BY <1>4, <1>6, <1>10, SpentNext DEF CostInv

\* The day ends, with what was spent since charged to the next one.
LEMMA CostMidnight ==
  ASSUME CostInv, TypeOK', today' = today + 1,
         \/ cost'.on <= today /\ excess'.micros = 0
         \/ cost'.on = today + 1 /\ cost'.spent = excess'.micros /\ cost'.reserved = 0,
         \A d \in Calls : /\ call'[d].costOn = call[d].costOn
                          /\ Kind[d] = "plan" \/ call'[d].stage \in {"new", "tokens", "denied"}
                               => call[d].costOn = NoDay
  PROVE  CostInv'
<1>1. /\ today \in Nat /\ cost'.on \in Int /\ \A d \in Calls : call[d].costOn \in Int
      /\ cost'.spent \in Nat /\ cost'.reserved \in Nat /\ excess'.micros \in Nat
  BY DEF CostInv, TypeOK, CostRow, CallRow, Days, NoDay
<1>2. \A d \in Calls : call[d].costOn <= today
  BY DEF CostInv, CostOnTheRow
<1>3. CostHolders' = {}
  BY <1>1, <1>2 DEF CostHolders
<1>4. Promised' = 0
  BY <1>3, PromisedNext, TotalUnfolds, FS_EmptySet
<1>5. CostOnTheRow'
  BY <1>1, <1>2, <1>3 DEF CostOnTheRow
<1>6. CostOvershootIsExplained'
  BY <1>1, <1>4, CostBudget \in Nat DEF CostOvershootIsExplained
<1>7. Promised' <= CostOf(today)'.reserved + excess'.micros
  BY <1>1, <1>4 DEF CostOf
<1> QED
  BY <1>5, <1>6, <1>7 DEF CostInv

LEMMA CostReserves ==
  ASSUME CostInv, TypeOK', NEW c \in Calls, ReserveCost(c)
  PROVE  CostInv'
<1>0. TypeOK /\ Estimate[c] \in Nat /\ today \in Nat /\ today # NoDay
  BY SpentIs DEF CostInv
<1>1. PICK row \in CostRow : row = CostOf(today)
  BY <1>0, SpentIs
<1>2. /\ Kind[c] # "plan" /\ call[c].stage \in {"new", "tokens"} /\ today' = today
      /\ excess' = excess
      /\ SpentToday + CostOf(today).reserved + Estimate[c] <= CostBudget
      /\ cost' = [row EXCEPT !.reserved = row.reserved + Estimate[c]]
  BY <1>1 DEF ReserveCost, Is, CostFits, SpentToday
<1>3. /\ call'[c].stage = "reserved" /\ call'[c].costOn = today
      /\ \A d \in Calls : d # c => call'[d] = call[d]
  BY <1>0 DEF ReserveCost, TypeOK, CallRow
<1>4. c \notin CostHolders /\ CostHolders' = CostHolders \cup {c}
  BY <1>2, <1>3 DEF CostHolders, HoldsCost
<1>5. Promised' = Promised + Estimate[c]
  BY <1>4, Promises
<1>6. /\ cost'.on = today /\ cost'.spent = SpentToday
      /\ cost'.reserved = CostOf(today).reserved + Estimate[c]
  BY <1>0, <1>1, <1>2, SpentIs DEF CostRow, SpentToday
<1>7. CostOnTheRow'
  <2>1. \A d \in Calls : call'[d].costOn <= today'
    BY <1>0, <1>2, <1>3 DEF CostInv, CostOnTheRow
  <2> QED
    BY <1>0, <1>2, <1>3, <1>6, <2>1 DEF CostInv, CostOnTheRow
<1>8. /\ Promised <= CostOf(today).reserved + excess.micros
      /\ SpentToday \in Nat /\ excess.micros \in Nat /\ Promised \in Nat
      /\ CostOf(today).reserved \in Nat /\ CostBudget \in Nat
  BY <1>0, SpentIs, PromisedType DEF CostInv
<1>9. /\ Promised' <= cost'.reserved + excess'.micros
      /\ cost'.spent + Promised' <= CostBudget + excess'.micros
  BY <1>0, <1>2, <1>5, <1>6, <1>8
<1> QED
  BY <1>2, <1>6, <1>7, <1>9, SpentNext DEF CostInv

LEMMA CostPlan ==
  ASSUME CostInv, TypeOK', NEW c \in Calls, NEW bill \in Bills, NEW known \in BOOLEAN,
         PlanSucceeds(c, bill, known)
  PROVE  CostInv'
<1> DEFINE charge == Charge(c, bill, known)
<1>0. TypeOK /\ Estimate[c] \in Nat /\ today \in Nat /\ today # NoDay /\ charge \in Nat
  BY SpentIs, ChargeNat DEF CostInv
<1>1. PICK row \in CostRow : row = CostOf(today)
  BY <1>0, SpentIs
<1>2. /\ Moves(c, "ended") /\ Kind[c] = "plan"
      /\ SpentToday + CostOf(today).reserved + Estimate[c] <= CostBudget
      /\ \/ /\ cost' = [row EXCEPT !.spent = row.spent + charge]
            /\ excess' = [excess EXCEPT !.micros = @ + Minus(charge, Estimate[c])]
            /\ today' = today
         \/ /\ today' = today + 1 /\ cost' = [spent |-> charge, reserved |-> 0, on |-> today + 1]
            /\ excess' = [tokens |-> 0, micros |-> charge]
  BY <1>1 DEF PlanSucceeds, Is, CostFits, SpentToday
<1> HIDE DEF charge
<1>3. /\ call'[c].stage = "ended" /\ call'[c].costOn = call[c].costOn
      /\ call[c].costOn = NoDay
      /\ \A d \in Calls : d # c => call'[d] = call[d]
  BY <1>0, <1>2 DEF Moves, TypeOK, CallRow, CostInv, CostOnTheRow
<1>4. \A d \in Calls : /\ call'[d].costOn = call[d].costOn
                       /\ Kind[d] = "plan" \/ call'[d].stage \in {"new", "tokens", "denied"}
                            => call[d].costOn = NoDay
  BY <1>3 DEF CostInv, CostOnTheRow
<1>5. CASE today' = today + 1
  <2>1. /\ cost' = [spent |-> charge, reserved |-> 0, on |-> today + 1]
        /\ excess' = [tokens |-> 0, micros |-> charge]
    BY <1>0, <1>2, <1>5
  <2> QED
    BY <1>4, <1>5, <2>1, CostMidnight
<1>6. CASE today' = today
  <2>1. /\ cost' = [row EXCEPT !.spent = row.spent + charge]
        /\ excess' = [excess EXCEPT !.micros = @ + Minus(charge, Estimate[c])]
    BY <1>0, <1>2, <1>6
  <2>2. /\ cost'.on = today /\ cost'.spent = SpentToday + charge
        /\ cost'.reserved = CostOf(today).reserved
    BY <1>0, <1>1, <2>1, SpentIs DEF CostRow, SpentToday
  <2>3. excess'.micros = excess.micros + Minus(charge, Estimate[c])
    BY <1>0, <2>1 DEF TypeOK
  <2>4. Minus(charge, Estimate[c]) \in Nat /\ Minus(charge, Estimate[c]) >= charge - Estimate[c]
    BY <1>0, MinusNat
  <2>5. CostHolders' = CostHolders
    BY <1>0, <1>3, <1>6 DEF CostHolders
  <2>6. Promised' = Promised
    BY <2>5, PromisedType, PromisedNext
  <2>7. /\ Promised <= CostOf(today).reserved + excess.micros
        /\ SpentToday \in Nat /\ excess.micros \in Nat /\ Promised \in Nat
        /\ CostOf(today).reserved \in Nat /\ CostBudget \in Nat
    BY <1>0, SpentIs, PromisedType DEF CostInv
  <2>8. /\ Promised' <= cost'.reserved + excess'.micros
        /\ cost'.spent + Promised' <= CostBudget + excess'.micros
    <3> DEFINE m == Minus(charge, Estimate[c])
    <3>1. m \in Nat /\ m >= charge - Estimate[c] /\ excess'.micros = excess.micros + m
      BY <2>3, <2>4
    <3> HIDE DEF m
    <3> QED
      BY <1>0, <1>2, <2>2, <2>6, <2>7, <3>1
  <2>9. CostOnTheRow'
    <3>1. \A d \in Calls : call[d].costOn <= today
      BY DEF CostInv, CostOnTheRow
    <3> QED
      BY <1>0, <1>4, <1>6, <2>2, <3>1 DEF CostOnTheRow
  <2> QED
    BY <1>6, <2>2, <2>8, <2>9, SpentNext DEF CostInv
<1> QED
  BY <1>2, <1>5, <1>6

LEMMA CostFrame ==
  ASSUME TypeOK, NEW c \in Calls, NEW stage, Moves(c, stage)
  PROVE  /\ call'[c].stage = stage /\ call'[c].costOn = call[c].costOn
         /\ \A d \in Calls : d # c => call'[d] = call[d]
  BY DEF Moves, TypeOK, CallRow

LEMMA CostStep ==
  ASSUME CostInv, [Next]_vars
  PROVE  CostInv'
<1>0. TypeOK /\ TypeOK' /\ today \in Nat /\ today # NoDay
  BY TypeStep, SpentIs DEF CostInv
<1>1. \A c \in Calls : Kind[c] = "plan" \/ call[c].stage \in {"new", "tokens", "denied"}
                         => call[c].costOn = NoDay
  BY DEF CostInv, CostOnTheRow
<1> USE DEF HoldsCost, Is
<1>2. ASSUME NEW c \in Calls, Reserving(c) PROVE CostInv'
  <2>1. CASE ReserveTokens(c)
    <3>1. /\ call'[c].stage = "tokens" /\ call'[c].costOn = call[c].costOn
          /\ \A d \in Calls : d # c => call'[d] = call[d]
      BY <1>0, <2>1 DEF ReserveTokens, TypeOK, CallRow
    <3> QED
      BY <1>0, <1>1, <2>1, <3>1, CostStays DEF ReserveTokens
  <2>2. CASE RefuseTokens(c)
    BY <1>0, <1>1, <2>2, CostFrame, CostStays DEF RefuseTokens
  <2>3. CASE ReserveCost(c)
    BY <1>0, <2>3, CostReserves
  <2>4. CASE RefuseCost(c)
    BY <1>0, <1>1, <2>4, CostFrame, CostStays DEF RefuseCost
  <2>5. CASE OpenRun(c)
    <3>1. /\ call'[c].stage \in {"open", "unopened"} /\ call'[c].costOn = call[c].costOn
          /\ \A d \in Calls : d # c => call'[d] = call[d]
      BY <1>0, <2>5 DEF OpenRun, Moves, TypeOK, CallRow
    <3> QED
      BY <1>0, <1>1, <2>5, <3>1, CostStays DEF OpenRun
  <2>6. CASE GiveBackTokens(c)
    <3>1. excess'.micros = excess.micros /\ UNCHANGED <<today, cost>>
      BY <1>0, <2>6 DEF GiveBackTokens, TypeOK
    <3>2. \/ call[c].stage = "denied" /\ Moves(c, "ended")
          \/ call[c].stage = "unopened" /\ Moves(c, "uncharged")
      BY <2>6 DEF GiveBackTokens
    <3> QED
      BY <1>0, <1>1, <3>1, <3>2, CostFrame, CostStays
  <2>7. CASE GiveBackCost(c)
    <3>1. /\ call[c].stage = "uncharged" /\ cost' = SettledCost(c, 0) /\ Moves(c, "ended")
          /\ today' = today
          /\ excess'.micros = excess.micros + Overrun(call[c].costOn, 0, Estimate[c])
      BY <1>0, <2>7 DEF GiveBackCost, TypeOK
    <3> QED
      BY <1>0, <3>1, CostFrame, CostSettles
  <2>8. CASE PlanRefused(c)
    BY <1>0, <1>1, <2>8, CostFrame, CostStays DEF PlanRefused
  <2> QED
    BY <1>2, <2>1, <2>2, <2>3, <2>4, <2>5, <2>6, <2>7, <2>8 DEF Reserving
<1>3. ASSUME NEW c \in Calls, Strand(c) PROVE CostInv'
  BY <1>0, <1>1, <1>3, CostFrame, CostStays DEF Strand
<1>4. ASSUME NEW c \in Calls, PlanFails(c) PROVE CostInv'
  BY <1>0, <1>1, <1>4, CostFrame, CostStays DEF PlanFails
<1>5. ASSUME NEW c \in Calls, NEW bill \in Bills, NEW known \in BOOLEAN, SettleAssist(c, bill, known)
      PROVE  CostInv'
  <2> DEFINE charge == Charge(c, bill, known)
  <2>1. charge \in Nat
    BY ChargeNat
  <2>2. /\ call[c].stage = "reserved" /\ Kind[c] # "plan" /\ cost' = SettledCost(c, charge)
        /\ Moves(c, "ended") /\ today' = today
        /\ excess'.micros = excess.micros + Overrun(call[c].costOn, charge, Estimate[c])
    BY <1>0, <1>5 DEF SettleAssist, TypeOK
  <2> HIDE DEF charge
  <2> QED
    BY <1>0, <2>1, <2>2, CostFrame, CostSettles
<1>6. ASSUME NEW c \in Calls, NEW bill \in Bills, NEW known \in BOOLEAN, PlanSucceeds(c, bill, known)
      PROVE  CostInv'
  BY <1>0, <1>6, CostPlan
<1>7. ASSUME NEW c \in Calls, NEW bill \in Bills, NEW known \in BOOLEAN, NEW counted \in BOOLEAN,
             SettleJob(c, bill, known, counted)
      PROVE  CostInv'
  <2> DEFINE charge == Charge(c, bill, known)
  <2>1. charge \in Nat
    BY ChargeNat
  <2>2. /\ call[c].stage = "open" /\ Kind[c] # "plan" /\ cost' = SettledCost(c, charge)
        /\ Moves(c, "ended") /\ today' = today
        /\ excess'.micros = excess.micros + Overrun(call[c].costOn, charge, Estimate[c])
    BY <1>0, <1>7 DEF SettleJob, TypeOK
  <2> HIDE DEF charge
  <2> QED
    BY <1>0, <2>1, <2>2, CostFrame, CostSettles
<1>8. CASE Midnight
  BY <1>0, <1>1, <1>8, CostMidnight DEF Midnight, CostInv, CostOnTheRow
<1>9. CASE UNCHANGED vars
  <2>1. CostHolders' = CostHolders /\ CostOnTheRow'
    BY <1>9 DEF vars, CostHolders, CostInv, CostOnTheRow
  <2>2. Promised' = Promised
    BY <2>1, PromisedType, PromisedNext
  <2> QED
    BY <1>0, <1>9, <2>1, <2>2 DEF vars, CostInv, CostOvershootIsExplained, CostOf
<1> QED
  BY <1>2, <1>3, <1>4, <1>5, <1>6, <1>7, <1>8, <1>9 DEF Next, Settling

LEMMA CostInit == Init => CostInv
<1> SUFFICES ASSUME Init PROVE CostInv
  OBVIOUS
<1>1. TypeOK
  BY InvInit DEF BudgetInv
<1>2. CostHolders = {} /\ Promised = 0
  BY PromisedType DEF Init, CostHolders, NoDay
<1> QED
  BY <1>1, <1>2, CostBudget \in Nat DEF Init, CostInv, CostOnTheRow, CostOf, CostOvershootIsExplained, NoDay

(* The inductive invariant of the cost budget: what its row shows as reserved may fall *)
(* behind what today's calls hold only by what calls of yesterday took from it.        *)
THEOREM CostInvariant == Spec => []CostInv
  BY CostInit, CostStep, PTL DEF Spec

(* Of any estimates and bills: the day's cost and what its calls may still spend exceed *)
(* the budget only by what carried-over and underestimated calls explain                *)
(* (CostOvershootIsExplained, which TLC checks on four calls).                          *)
THEOREM CostIsAlwaysExplained == Spec => []CostOvershootIsExplained
<1>1. CostInv => CostOvershootIsExplained
  BY DEF CostInv
<1> QED BY <1>1, CostInvariant, PTL
===============================================================================
