------------------------ MODULE AdvanceRecoveryProofs ------------------------
(* Theorems about salary advances and their recovery, for any number of     *)
(* advances and runs, any amounts and any net pay.                          *)
EXTENDS AdvanceRecovery, SumTheorems, TLAPS

-----------------------------------------------------------------------------
(* The inductive invariant. *)

Decided == {"APPROVED", "PARTIALLY_RECOVERED", "RECOVERED"}

StatusTells(adv) ==
  CASE adv.status = "RECOVERED" -> adv.recovered = adv.approved
    [] adv.status = "PARTIALLY_RECOVERED" ->
         0 < adv.recovered /\ adv.recovered < adv.approved
    [] OTHER -> adv.recovered = 0

StatusesTell ==
  /\ \A a \in Advances : StatusTells(advance[a])
  /\ \A r \in Runs, a \in Advances : StatusTells(calc[r].advances[a])

(* What is to be recovered, and what was, has been approved: its approved   *)
(* amount is what a calculation read.                                       *)
ApprovedForGood ==
  \A r \in Runs, a \in Advances :
    /\ recovery[r][a] > 0 => advance[a].status \in Decided
    /\ calc[r].advances[a].status \in Recoverable =>
         /\ advance[a].status \in Decided
         /\ advance[a].approved = calc[r].advances[a].approved

(* Calculations that never overlap have nothing out of date to write.       *)
ReadsHold ==
  ~overlapped =>
    /\ \A q, r \in Runs : calc[q].open /\ calc[r].open => q = r
    /\ \A r \in Runs, a \in Advances :
         calc[r].advances[a].status \in Recoverable =>
           calc[r].open /\ calc[r].advances[a].recovered = advance[a].recovered

RowsWithin == ~overlapped => \A a \in Advances : RecoveredBy(a) <= advance[a].recovered

AdvanceInv ==
  /\ TypeOK /\ StatusesTell /\ ApprovedForGood /\ ReadsHold
  /\ RowsWithin /\ RowsExplainRecovered /\ RecoveryWithinNetPay

LEMMA NoAdvanceTyped ==
  NoAdvance \in AdvanceType /\ NoAdvance.status = "NONE" /\ StatusTells(NoAdvance)
BY DEF NoAdvance, AdvanceType, StatusTells

LEMMA NoCalcTyped ==
  /\ NoCalc \in [open: BOOLEAN, net: Int, advances: [Advances -> AdvanceType]]
  /\ ~NoCalc.open
  /\ \A a \in Advances : NoCalc.advances[a] = NoAdvance
BY NoAdvanceTyped DEF NoCalc

LEMMA FiniteIndexes ==
  IsFiniteSet(Runs) /\ IsFiniteSet(Advances) /\ NAdvances \in Nat
BY RecoveryAssumption, FS_Interval DEF Advances

LEMMA AtLeastType ==
  ASSUME NEW x \in Int, NEW y \in Int
  PROVE  AtLeast(x, y) \in Int /\ AtLeast(x, y) >= x /\ AtLeast(x, y) >= y
         /\ AtLeast(x, y) \in {x, y}
BY DEF AtLeast

LEMMA InitAdvanceInv == Init => AdvanceInv
<1> SUFFICES ASSUME Init PROVE AdvanceInv
  OBVIOUS
<1> USE DEF Init
<1>1. TypeOK
  <2>1. today \in 1..LastDay
    BY RecoveryAssumption
  <2>2. advance \in [Advances -> AdvanceType]
    BY NoAdvanceTyped
  <2>3. recovery \in [Runs -> [Advances -> Nat]]
    BY DEF NoRecovery
  <2>4. calc \in [Runs -> [open: BOOLEAN, net: Int, advances: [Advances -> AdvanceType]]]
    BY NoCalcTyped
  <2>5. run \in [Runs -> [status: {"DRAFT", "CALCULATED", "APPROVED", "VOIDED"},
                          stale: BOOLEAN]]
    OBVIOUS
  <2>6. net \in [Runs -> Int] /\ unwound \subseteq Advances
    OBVIOUS
  <2>7. overlapped \in BOOLEAN
    BY Zenon
  <2> HIDE DEF Init
  <2> QED
    BY <2>1, <2>2, <2>3, <2>4, <2>5, <2>6, <2>7 DEF TypeOK
<1>2. /\ \A r \in Runs, a \in Advances : /\ recovery[r][a] = 0
                                         /\ calc[r].advances[a] = NoAdvance
      /\ \A r \in Runs : ~calc[r].open
      /\ \A a \in Advances : advance[a] = NoAdvance
  BY NoCalcTyped DEF NoRecovery
<1>3. StatusesTell
  BY <1>2, NoAdvanceTyped DEF StatusesTell
<1>4. ApprovedForGood /\ ReadsHold
  BY <1>2, NoAdvanceTyped DEF ApprovedForGood, ReadsHold, Recoverable
<1>5. \A a \in Advances : RecoveredBy(a) = 0 /\ advance[a].recovered = 0
  <2> SUFFICES ASSUME NEW a \in Advances PROVE RecoveredBy(a) = 0
    BY <1>2 DEF NoAdvance
  <2> DEFINE f == [r \in Runs |-> recovery[r][a]]
  <2>1. \A r \in Runs : f[r] = 0
    BY <1>2
  <2> HIDE DEF f
  <2>2. SumFunctionOnSet(f, Runs) = 0
    BY <2>1, FiniteIndexes, SumZero
  <2> QED
    BY <2>2 DEF f, RecoveredBy
<1>6. RowsWithin /\ RowsExplainRecovered
  BY <1>5 DEF RowsWithin, RowsExplainRecovered
<1>7. RecoveryWithinNetPay
  <2> SUFFICES ASSUME NEW r \in Runs
               PROVE  SumFunctionOnSet(recovery[r], Advances) <= AtLeast(0, net[r])
    BY DEF RecoveryWithinNetPay
  <2>1. SumFunctionOnSet(recovery[r], Advances) = 0
    BY <1>2, FiniteIndexes, SumZero
  <2> QED
    BY <2>1 DEF AtLeast
<1> QED
  BY <1>1, <1>3, <1>4, <1>6, <1>7 DEF AdvanceInv

-----------------------------------------------------------------------------
(* What a calculation recovers. *)

LEMMA AllocationBounds ==
  ASSUME NEW adv \in AdvanceType, NEW available \in Int
  PROVE  LET n == allocateAdvanceRecovery(adv, available)
         IN  /\ n \in Nat
             /\ n > 0 => n <= adv.approved - adv.recovered /\ n <= available
BY DEF AdvanceType, allocateAdvanceRecovery, AtLeast, AtMost

(* The net pay left at advance k, when left says what the others leave.     *)
LeftBy(r, adv, pay, left, k) ==
  IF k = 1 THEN pay
  ELSE IF k - 1 \in Due(r, adv)
    THEN left[k - 1] - allocateAdvanceRecovery(adv[k - 1], left[k - 1])
    ELSE left[k - 1]

IsLeft(left, r, adv, pay) ==
  left = [k \in 1..(NAdvances + 1) |-> LeftBy(r, adv, pay, left, k)]

LEMMA LeftExists ==
  ASSUME NEW r, NEW adv, NEW pay
  PROVE  \E left : IsLeft(left, r, adv, pay)
<1> DEFINE Upto(n, left) == left = [k \in 1..n |-> LeftBy(r, adv, pay, left, k)]
           bad == {n \in Nat : ~\E left : Upto(n, left)}
<1>1. bad = {}
  <2> SUFFICES ASSUME bad # {} PROVE FALSE
    OBVIOUS
  <2>1. PICK n \in bad : \A m \in bad : n <= m
    <3>1. bad \in SUBSET Nat
      OBVIOUS
    <3> HIDE DEF bad
    <3> QED
      BY <3>1, LeastNumber
  <2>2. n # 0
    <3> DEFINE none == [k \in 1..0 |-> 0]
    <3>1. none = [k \in 1..0 |-> LeftBy(r, adv, pay, none, k)]
      OBVIOUS
    <3>2. \E left : Upto(0, left)
      BY <3>1
    <3> QED
      BY <3>2
  <2>3. n - 1 \in Nat /\ n - 1 \notin bad
    <3>1. n \in Nat /\ n - 1 \in Nat /\ ~(n <= n - 1)
      BY <2>1, <2>2
    <3> HIDE DEF bad
    <3> QED
      BY <2>1, <3>1
  <2>4. PICK left : Upto(n - 1, left)
    BY <2>3
  <2> DEFINE more == [k \in 1..n |-> LeftBy(r, adv, pay, left, k)]
  <2>5. ASSUME NEW k \in 1..n
        PROVE  LeftBy(r, adv, pay, left, k) = LeftBy(r, adv, pay, more, k)
    <3>1. CASE k = 1
      BY <3>1 DEF LeftBy
    <3>2. CASE k # 1
      <4>1. k - 1 \in 1..n /\ k - 1 \in 1..(n - 1)
        BY <2>3, <3>2
      <4>2. more[k - 1] = left[k - 1]
        BY <2>4, <4>1
      <4> QED
        BY <3>2, <4>2 DEF LeftBy
    <3> QED
      BY <3>1, <3>2
  <2>6. Upto(n, more)
    BY <2>5
  <2> HIDE DEF more
  <2> QED
    BY <2>1, <2>6
<1>2. NAdvances + 1 \in Nat
  BY FiniteIndexes
<1> QED
  BY <1>1, <1>2 DEF IsLeft

LEMMA LeftDef ==
  ASSUME NEW r, NEW adv, NEW pay, NEW k \in 1..(NAdvances + 1)
  PROVE  Available(r, adv, pay)[k] = LeftBy(r, adv, pay, Available(r, adv, pay), k)
<1>1. Available(r, adv, pay) = CHOOSE left : IsLeft(left, r, adv, pay)
  BY DEF Available, IsLeft, LeftBy
<1>2. IsLeft(Available(r, adv, pay), r, adv, pay)
  BY <1>1, LeftExists, Zenon
<1> QED
  BY <1>2 DEF IsLeft

(* When it is the turn of advance k, the net pay is what the advances       *)
(* before it have left; they have taken no more than there was.             *)
LEMMA RecoveriesSoFar ==
  ASSUME NEW r, NEW adv \in [Advances -> AdvanceType], NEW pay \in Int,
         NEW k \in 1..(NAdvances + 1)
  PROVE  LET left  == Available(r, adv, pay)[k]
             taken == SumFunctionOnSet(Recoveries(r, adv, pay), 1..(k - 1))
         IN  /\ left \in Int /\ taken = pay - left
             /\ IF pay >= 0 THEN left >= 0 ELSE left = pay
<1> DEFINE left == Available(r, adv, pay)
           now  == Recoveries(r, adv, pay)
           Good(n) == /\ left[n] \in Int
                      /\ SumFunctionOnSet(now, 1..(n - 1)) = pay - left[n]
                      /\ IF pay >= 0 THEN left[n] >= 0 ELSE left[n] = pay
           bad == {n \in 1..(NAdvances + 1) : ~Good(n)}
<1> SUFFICES ASSUME bad # {} PROVE FALSE
  OBVIOUS
<1>0. \A n \in 1..(NAdvances + 1) : left[n] = LeftBy(r, adv, pay, left, n)
  BY LeftDef
<1>1. \A a \in Advances :
        now[a] = IF a \in Due(r, adv)
                   THEN allocateAdvanceRecovery(adv[a], left[a]) ELSE 0
  BY DEF Recoveries
<1> HIDE DEF left, now
<1>2. PICK n \in bad : \A m \in bad : n <= m
  <2>1. bad \in SUBSET Nat
    BY FiniteIndexes
  <2> HIDE DEF bad
  <2> QED
    BY <2>1, LeastNumber
<1>3. n # 1
  <2>1. left[1] = pay
    BY <1>0, FiniteIndexes DEF LeftBy
  <2>2. 1..(1 - 1) = {}
    OBVIOUS
  <2>3. SumFunctionOnSet(now, 1..(1 - 1)) = 0
    BY <2>2, SumEmpty
  <2>4. Good(1)
    BY <2>1, <2>3
  <2> QED
    BY <1>2, <2>4
<1> DEFINE p == n - 1
<1>4. p \in Advances /\ p \in 1..(NAdvances + 1) /\ p \in Nat /\ n = p + 1
  BY <1>2, <1>3, FiniteIndexes DEF Advances
<1>5. Good(p)
  <2>1. p \notin bad
    <3>1. ~(n <= p)
      BY <1>4
    <3> HIDE DEF bad
    <3> QED
      BY <1>2, <3>1
  <2> QED
    BY <1>4, <2>1
<1> HIDE DEF p
<1>6. /\ now[p] \in Nat /\ left[n] = left[p] - now[p]
      /\ now[p] > 0 => now[p] <= left[p]
  <2>0. left[n] = LeftBy(r, adv, pay, left, n) /\ n # 1 /\ n - 1 = p
    BY <1>0, <1>2, <1>3, <1>4
  <2>1. CASE p \in Due(r, adv)
    <3>1. now[p] = allocateAdvanceRecovery(adv[p], left[p])
      BY <1>1, <1>4, <2>1
    <3>2. left[n] = left[p] - allocateAdvanceRecovery(adv[p], left[p])
      BY <2>0, <2>1 DEF LeftBy
    <3>3. adv[p] \in AdvanceType
      BY <1>4
    <3> QED
      BY <1>5, <3>1, <3>2, <3>3, AllocationBounds
  <2>2. CASE p \notin Due(r, adv)
    <3>1. now[p] = 0
      BY <1>1, <1>4, <2>2
    <3>2. left[n] = left[p]
      BY <2>0, <2>2 DEF LeftBy
    <3> QED
      BY <1>5, <3>1, <3>2
  <2> QED
    BY <2>1, <2>2
<1>7. SumFunctionOnSet(now, 1..(n - 1))
        = now[p] + SumFunctionOnSet(now, 1..(p - 1))
  <2>1. n - 1 = p /\ p \in 1..p /\ (1..p) \ {p} = 1..(p - 1)
    BY <1>4 DEF Advances
  <2>2. IsFiniteSet(1..p)
    BY <1>4, FS_Interval
  <2>3. ASSUME NEW a \in 1..p PROVE now[a] \in Int
    <3>1. a \in Advances /\ a \in 1..(NAdvances + 1) /\ ~(n <= a)
      BY <1>4, FiniteIndexes DEF Advances
    <3>2. a \notin bad
      <4> HIDE DEF bad
      <4> QED
        BY <1>2, <3>1
    <3>3. left[a] \in Int
      BY <3>1, <3>2
    <3>4. adv[a] \in AdvanceType
      BY <3>1
    <3>5. CASE a \in Due(r, adv)
      <4>1. now[a] = allocateAdvanceRecovery(adv[a], left[a])
        BY <1>1, <3>1, <3>5
      <4>2. allocateAdvanceRecovery(adv[a], left[a]) \in Nat
        BY <3>3, <3>4, AllocationBounds
      <4> QED
        BY <4>1, <4>2
    <3>6. CASE a \notin Due(r, adv)
      BY <1>1, <3>1, <3>6
    <3> QED
      BY <3>5, <3>6
  <2> DEFINE S == 1..p
  <2>4. IsFiniteSet(S) /\ p \in S /\ \A a \in S : now[a] \in Int
    BY <2>1, <2>2, <2>3
  <2> HIDE DEF S
  <2>5. SumFunctionOnSet(now, S) = now[p] + SumFunctionOnSet(now, S \ {p})
    BY <2>4, SumWithout
  <2> QED
    BY <2>1, <2>5 DEF S
<1>8. Good(n)
  BY <1>5, <1>6, <1>7
<1> QED
  BY <1>2, <1>8

LEMMA RecoveriesBound ==
  ASSUME NEW r, NEW adv \in [Advances -> AdvanceType], NEW pay \in Int
  PROVE  LET now == Recoveries(r, adv, pay)
         IN  /\ now \in [Advances -> Nat]
             /\ \A a \in Advances : now[a] > 0 =>
                  /\ adv[a].status \in Recoverable
                  /\ now[a] <= adv[a].approved - adv[a].recovered
             /\ SumFunctionOnSet(now, Advances) <= AtLeast(0, pay)
<1> DEFINE left == Available(r, adv, pay)
           now  == Recoveries(r, adv, pay)
<1>1. now = [a \in Advances |->
              IF a \in Due(r, adv)
                THEN allocateAdvanceRecovery(adv[a], left[a]) ELSE 0]
  BY DEF Recoveries
<1>2. \A k \in 1..(NAdvances + 1) :
        /\ left[k] \in Int
        /\ SumFunctionOnSet(now, 1..(k - 1)) = pay - left[k]
        /\ IF pay >= 0 THEN left[k] >= 0 ELSE left[k] = pay
  BY RecoveriesSoFar
<1> HIDE DEF left, now
<1>3. ASSUME NEW a \in Advances
      PROVE  /\ now[a] \in Nat
             /\ now[a] > 0 => /\ adv[a].status \in Recoverable
                             /\ now[a] <= adv[a].approved - adv[a].recovered
  <2>1. CASE a \in Due(r, adv)
    <3>1. now[a] = allocateAdvanceRecovery(adv[a], left[a])
      BY <1>1, <2>1
    <3>2. adv[a] \in AdvanceType /\ left[a] \in Int
      BY <1>2, FiniteIndexes DEF Advances
    <3>3. adv[a].status \in Recoverable
      BY <2>1 DEF Due
    <3>4. LET n == allocateAdvanceRecovery(adv[a], left[a])
          IN  n \in Nat /\ (n > 0 => n <= adv[a].approved - adv[a].recovered)
      BY <3>2, AllocationBounds
    <3> QED
      BY <3>1, <3>3, <3>4
  <2>2. CASE a \notin Due(r, adv)
    BY <1>1, <2>2
  <2> QED
    BY <2>1, <2>2
<1>4. now \in [Advances -> Nat]
  <2>1. now = [a \in Advances |-> now[a]]
    BY <1>1
  <2> QED
    BY <1>3, <2>1
<1>5. SumFunctionOnSet(now, Advances) <= AtLeast(0, pay)
  <2> DEFINE k == NAdvances + 1
  <2>1. k \in 1..(NAdvances + 1) /\ 1..(k - 1) = Advances
    BY FiniteIndexes DEF Advances
  <2>2. /\ left[k] \in Int
        /\ SumFunctionOnSet(now, 1..(k - 1)) = pay - left[k]
        /\ IF pay >= 0 THEN left[k] >= 0 ELSE left[k] = pay
    BY <1>2, <2>1
  <2> HIDE DEF k
  <2>3. SumFunctionOnSet(now, Advances) = pay - left[k]
    BY <2>1, <2>2
  <2> QED
    BY <2>2, <2>3 DEF AtLeast
<1> QED
  BY <1>3, <1>4, <1>5 DEF now

-----------------------------------------------------------------------------
(* Every action keeps the invariant. *)

RunType == [status: {"DRAFT", "CALCULATED", "APPROVED", "VOIDED"}, stale: BOOLEAN]

LEMMA StaledTyped ==
  ASSUME run \in [Runs -> RunType], NEW rs PROVE Staled(rs) \in [Runs -> RunType]
<1> SUFFICES ASSUME NEW r \in Runs
             PROVE  (IF r \in rs /\ run[r].status = "CALCULATED"
                       THEN [run[r] EXCEPT !.stale = TRUE] ELSE run[r]) \in RunType
  BY DEF Staled
<1>1. run[r] \in RunType
  OBVIOUS
<1>2. [run[r] EXCEPT !.stale = TRUE] \in RunType
  BY <1>1 DEF RunType
<1> QED
  BY <1>1, <1>2

(* What the amounts are about stays as it is. *)
LEMMA AmountsKept ==
  ASSUME AdvanceInv, UNCHANGED <<advance, recovery, net, calc, overlapped, unwound>>,
         today' \in 1..LastDay, run' \in [Runs -> RunType]
  PROVE  AdvanceInv'
<1>1. TypeOK'
  BY DEF AdvanceInv, TypeOK, RunType
<1>2. StatusesTell' /\ ApprovedForGood' /\ ReadsHold'
  BY DEF AdvanceInv, StatusesTell, ApprovedForGood, ReadsHold
<1>3. \A a \in Advances : RecoveredBy(a)' = RecoveredBy(a)
  BY DEF RecoveredBy
<1>4. RowsWithin' /\ RowsExplainRecovered' /\ RecoveryWithinNetPay'
  BY <1>3 DEF AdvanceInv, RowsWithin, RowsExplainRecovered, RecoveryWithinNetPay
<1> QED
  BY <1>1, <1>2, <1>4 DEF AdvanceInv

(* An advance nothing was recovered of is requested or decided. *)
LEMMA DecisionKeepsInv ==
  ASSUME AdvanceInv, NEW a \in Advances, advance[a].status \in {"NONE", "REQUESTED"},
         NEW new \in AdvanceType, new.status \in {"REQUESTED", "APPROVED", "REJECTED"},
         new.recovered = advance[a].recovered,
         advance' = [advance EXCEPT ![a] = new],
         UNCHANGED <<today, recovery, net, calc, overlapped, unwound>>,
         run' \in [Runs -> RunType]
  PROVE  AdvanceInv'
<1>1. TypeOK'
  <2>1. advance' \in [Advances -> AdvanceType]
    BY DEF AdvanceInv, TypeOK
  <2> QED
    BY <2>1 DEF AdvanceInv, TypeOK, RunType
<1>2. /\ advance'[a] = new
      /\ \A b \in Advances : b # a => advance'[b] = advance[b]
      /\ \A b \in Advances : advance'[b].recovered = advance[b].recovered
  BY DEF AdvanceInv, TypeOK
<1>3. StatusTells(new)
  <2>1. advance[a].recovered = 0
    BY DEF AdvanceInv, StatusesTell, StatusTells
  <2> QED
    BY <2>1 DEF StatusTells
<1>4. StatusesTell'
  <2>1. ASSUME NEW b \in Advances PROVE StatusTells(advance'[b])
    BY <1>2, <1>3 DEF AdvanceInv, StatusesTell
  <2> QED
    BY <2>1 DEF AdvanceInv, StatusesTell
<1>5. ApprovedForGood'
  <2>1. \A b \in Advances : advance[b].status \in Decided => b # a
    BY DEF Decided
  <2> QED
    BY <1>2, <2>1 DEF AdvanceInv, ApprovedForGood
<1>6. ReadsHold'
  BY <1>2 DEF AdvanceInv, ReadsHold
<1>7. \A b \in Advances : RecoveredBy(b)' = RecoveredBy(b)
  BY DEF RecoveredBy
<1>8. RowsWithin' /\ RowsExplainRecovered' /\ RecoveryWithinNetPay'
  BY <1>2, <1>7 DEF AdvanceInv, RowsWithin, RowsExplainRecovered, RecoveryWithinNetPay
<1> QED
  BY <1>1, <1>4, <1>5, <1>6, <1>8 DEF AdvanceInv

LEMMA ReadKeepsInv ==
  ASSUME AdvanceInv, NEW r \in Runs, calculateRead(r) PROVE AdvanceInv'
<1> USE DEF calculateRead
<1>1. PICK pay \in NetPay :
        calc' = [calc EXCEPT ![r] = [open |-> TRUE, net |-> pay, advances |-> advance]]
  OBVIOUS
<1>2. /\ calc'[r] = [open |-> TRUE, net |-> pay, advances |-> advance]
      /\ \A q \in Runs : q # r => calc'[q] = calc[q]
  BY <1>1 DEF AdvanceInv, TypeOK
<1>3. TypeOK'
  <2>1. pay \in Int
    BY RecoveryAssumption
  <2>2. calc' \in [Runs -> [open: BOOLEAN, net: Int,
                             advances: [Advances -> AdvanceType]]]
    BY <1>1, <2>1 DEF AdvanceInv, TypeOK
  <2>3. overlapped' \in BOOLEAN
    BY Zenon
  <2> QED
    BY <2>2, <2>3 DEF AdvanceInv, TypeOK
<1>4. StatusesTell'
  <2>1. ASSUME NEW q \in Runs, NEW a \in Advances
        PROVE  StatusTells(calc'[q].advances[a])
    <3>1. CASE q = r
      BY <1>2, <3>1 DEF AdvanceInv, StatusesTell
    <3>2. CASE q # r
      BY <1>2, <3>2 DEF AdvanceInv, StatusesTell
    <3> QED
      BY <3>1, <3>2
  <2> QED
    BY <2>1 DEF AdvanceInv, StatusesTell
<1>5. ApprovedForGood'
  <2>1. ASSUME NEW q \in Runs, NEW a \in Advances,
               calc'[q].advances[a].status \in Recoverable
        PROVE  /\ advance[a].status \in Decided
               /\ advance[a].approved = calc'[q].advances[a].approved
    <3>1. CASE q = r
      BY <1>2, <2>1, <3>1 DEF Recoverable, Decided
    <3>2. CASE q # r
      BY <1>2, <2>1, <3>2 DEF AdvanceInv, ApprovedForGood
    <3> QED
      BY <3>1, <3>2
  <2> QED
    BY <2>1 DEF AdvanceInv, ApprovedForGood
<1>6. ReadsHold'
  <2> SUFFICES ASSUME ~overlapped'
               PROVE  /\ \A q, p \in Runs : calc'[q].open /\ calc'[p].open => q = p
                      /\ \A q \in Runs, a \in Advances :
                           calc'[q].advances[a].status \in Recoverable =>
                             /\ calc'[q].open
                             /\ calc'[q].advances[a].recovered = advance[a].recovered
    BY DEF ReadsHold
  <2>1. ~overlapped /\ \A q \in Runs : ~calc[q].open
    OBVIOUS
  <2>2. \A q \in Runs, a \in Advances : ~(calc[q].advances[a].status \in Recoverable)
    BY <2>1 DEF AdvanceInv, ReadsHold
  <2>3. \A q \in Runs : q # r =>
          /\ ~calc'[q].open
          /\ \A a \in Advances : ~(calc'[q].advances[a].status \in Recoverable)
    BY <1>2, <2>1, <2>2
  <2>4. calc'[r].open /\ calc'[r].advances = advance
    BY <1>2
  <2> QED
    BY <2>3, <2>4
<1>7. \A a \in Advances : RecoveredBy(a)' = RecoveredBy(a)
  BY DEF RecoveredBy
<1>8. ~overlapped' => ~overlapped
  OBVIOUS
<1>9. RowsWithin' /\ RowsExplainRecovered' /\ RecoveryWithinNetPay'
  BY <1>7, <1>8 DEF AdvanceInv, RowsWithin, RowsExplainRecovered, RecoveryWithinNetPay
<1> QED
  BY <1>3, <1>4, <1>5, <1>6, <1>9 DEF AdvanceInv

LEMMA FailureKeepsInv ==
  ASSUME AdvanceInv, NEW r \in Runs, calculateFails(r) PROVE AdvanceInv'
<1> USE DEF calculateFails
<1>1. /\ calc'[r] = NoCalc
      /\ \A q \in Runs : q # r => calc'[q] = calc[q]
  BY DEF AdvanceInv, TypeOK
<1>2. TypeOK'
  <2>1. calc' \in [Runs -> [open: BOOLEAN, net: Int,
                             advances: [Advances -> AdvanceType]]]
    BY NoCalcTyped DEF AdvanceInv, TypeOK
  <2> QED
    BY <2>1 DEF AdvanceInv, TypeOK
<1>3. ASSUME NEW q \in Runs, NEW a \in Advances
      PROVE  /\ StatusTells(calc'[q].advances[a])
             /\ calc'[q].advances[a].status \in Recoverable => calc'[q] = calc[q]
  <2>1. CASE q = r
    BY <1>1, <2>1, NoCalcTyped, NoAdvanceTyped DEF Recoverable
  <2>2. CASE q # r
    BY <1>1, <2>2 DEF AdvanceInv, StatusesTell
  <2> QED
    BY <2>1, <2>2
<1>4. \A q \in Runs : calc'[q].open => calc[q].open
  BY <1>1, NoCalcTyped
<1>5. StatusesTell'
  BY <1>3 DEF AdvanceInv, StatusesTell
<1>6. ApprovedForGood'
  BY <1>3 DEF AdvanceInv, ApprovedForGood
<1>7. ReadsHold'
  BY <1>3, <1>4 DEF AdvanceInv, ReadsHold
<1>8. \A a \in Advances : RecoveredBy(a)' = RecoveredBy(a)
  BY DEF RecoveredBy
<1>9. RowsWithin' /\ RowsExplainRecovered' /\ RecoveryWithinNetPay'
  BY <1>8 DEF AdvanceInv, RowsWithin, RowsExplainRecovered, RecoveryWithinNetPay
<1> QED
  BY <1>2, <1>5, <1>6, <1>7, <1>9 DEF AdvanceInv

(* What a calculation writes to one advance. *)
LEMMA WriteEffect ==
  ASSUME AdvanceInv, NEW r \in Runs, calculateWrite(r), NEW a \in Advances
  PROVE  LET now    == Recoveries(r, calc[r].advances, calc[r].net)
             before == recovery[r]
             old    == advance[a]
             new    == advance'[a]
         IN  /\ new \in AdvanceType /\ StatusTells(new)
             /\ new.approved = old.approved
             /\ now[a] = 0 /\ before[a] = 0 => new = old
             /\ now[a] > 0 \/ before[a] > 0 =>
                  old.status \in Decided /\ new.status \in Decided
             /\ now[a] > 0 => /\ calc[r].advances[a].status \in Recoverable
                             /\ new.recovered = calc[r].advances[a].recovered + now[a]
             /\ now[a] = 0 => new.recovered = AtLeast(0, old.recovered - before[a])
<1> DEFINE read   == calc[r].advances
           now    == Recoveries(r, read, calc[r].net)
           before == recovery[r]
           old    == advance[a]
           new    == advance'[a]
<1>1. /\ read \in [Advances -> AdvanceType] /\ calc[r].net \in Int
      /\ before \in [Advances -> Nat] /\ old \in AdvanceType
      /\ read[a] \in AdvanceType /\ before[a] \in Nat
  BY DEF AdvanceInv, TypeOK
<1>2. /\ now[a] \in Nat
      /\ now[a] > 0 => /\ read[a].status \in Recoverable
                      /\ now[a] <= read[a].approved - read[a].recovered
  BY <1>1, RecoveriesBound
<1>3. new = IF now[a] > 0
              THEN [old EXCEPT !.recovered = Recover(read[a], now[a]).recovered,
                               !.status = Recover(read[a], now[a]).status]
              ELSE Unwind(old, before[a])
  BY DEF calculateWrite
<1>4. /\ StatusTells(old) /\ StatusTells(read[a])
      /\ before[a] > 0 => old.status \in Decided
      /\ read[a].status \in Recoverable =>
           old.status \in Decided /\ old.approved = read[a].approved
  BY DEF AdvanceInv, StatusesTell, ApprovedForGood
<1> HIDE DEF now, read, before, old, new
<1>5. CASE now[a] > 0
  <2>1. /\ Recover(read[a], now[a]).recovered = read[a].recovered + now[a]
        /\ Recover(read[a], now[a]).status =
              IF read[a].recovered + now[a] >= read[a].approved
                THEN "RECOVERED" ELSE "PARTIALLY_RECOVERED"
    BY <1>1 DEF Recover, AdvanceType
  <2>2. /\ new = [old EXCEPT !.recovered = read[a].recovered + now[a],
                            !.status = IF read[a].recovered + now[a] >= read[a].approved
                                         THEN "RECOVERED" ELSE "PARTIALLY_RECOVERED"]
        /\ read[a].recovered + now[a] \in Nat
    BY <1>1, <1>2, <1>3, <1>5, <2>1 DEF AdvanceType
  <2>3. /\ new \in AdvanceType
        /\ new.approved = old.approved
        /\ new.recovered = read[a].recovered + now[a]
        /\ new.status = IF read[a].recovered + now[a] >= read[a].approved
                          THEN "RECOVERED" ELSE "PARTIALLY_RECOVERED"
    BY <1>1, <2>2 DEF AdvanceType
  <2>4. StatusTells(new) /\ new.status \in Decided
    BY <1>1, <1>2, <1>4, <1>5, <2>3 DEF StatusTells, Decided, AdvanceType
  <2> QED
    BY <1>2, <1>4, <1>5, <2>3, <2>4 DEF now, read, before, old, new
<1>6. CASE now[a] = 0 /\ before[a] = 0
  <2>1. new = old
    BY <1>3, <1>6 DEF Unwind
  <2>2. old.recovered = AtLeast(0, old.recovered - before[a])
    BY <1>1, <1>6 DEF AtLeast, AdvanceType
  <2> QED
    BY <1>1, <1>4, <1>6, <2>1, <2>2 DEF now, read, before, old, new
<1>7. CASE now[a] = 0 /\ before[a] > 0
  <2> DEFINE left == AtLeast(0, old.recovered - before[a])
  <2>1. left \in Nat /\ left <= old.recovered
        /\ (left > 0 => left < old.recovered)
    BY <1>1, <1>7 DEF AtLeast, AdvanceType
  <2>2. new = [old EXCEPT !.recovered = left,
                 !.status = IF left = 0 THEN "APPROVED" ELSE "PARTIALLY_RECOVERED"]
    BY <1>3, <1>7 DEF Unwind
  <2> HIDE DEF left
  <2>3. /\ new \in AdvanceType
        /\ new.approved = old.approved
        /\ new.recovered = left
        /\ new.status = IF left = 0 THEN "APPROVED" ELSE "PARTIALLY_RECOVERED"
    BY <1>1, <2>1, <2>2 DEF AdvanceType
  <2>4. StatusTells(new) /\ new.status \in Decided
    BY <1>1, <1>4, <2>1, <2>3 DEF StatusTells, Decided, AdvanceType
  <2> QED
    BY <1>4, <1>7, <2>3, <2>4 DEF now, read, before, old, new, left
<1> QED
  BY <1>1, <1>2, <1>5, <1>6, <1>7

(* A calculation replaces its own row, and what the rows say changes by as  *)
(* much.                                                                    *)
LEMMA RowReplaced ==
  ASSUME AdvanceInv, NEW r \in Runs, calculateWrite(r), NEW a \in Advances
  PROVE  /\ RecoveredBy(a) \in Int
         /\ RecoveredBy(a)' = (RecoveredBy(a) - recovery[r][a])
                                + Recoveries(r, calc[r].advances, calc[r].net)[a]
<1> DEFINE now == Recoveries(r, calc[r].advances, calc[r].net)
           f   == [q \in Runs |-> recovery[q][a]]
           g   == [q \in Runs |-> recovery'[q][a]]
<1>1. now \in [Advances -> Nat]
  BY RecoveriesBound DEF AdvanceInv, TypeOK
<1>2. recovery' = [recovery EXCEPT ![r] = now]
  BY DEF calculateWrite
<1> HIDE DEF now
<1>3. /\ \A q \in Runs : f[q] \in Int /\ g[q] \in Int
      /\ \A q \in Runs : q # r => g[q] = f[q]
      /\ g[r] = now[a] /\ f[r] = recovery[r][a]
  BY <1>1, <1>2 DEF AdvanceInv, TypeOK
<1>4. RecoveredBy(a) = SumFunctionOnSet(f, Runs) /\ RecoveredBy(a)' = SumFunctionOnSet(g, Runs)
  BY DEF RecoveredBy
<1> HIDE DEF f, g
<1>5. SumFunctionOnSet(f, Runs) \in Int
  BY <1>3, FiniteIndexes, SumInt
<1>6. SumFunctionOnSet(g, Runs) = (SumFunctionOnSet(f, Runs) - f[r]) + g[r]
  <2>1. IsFiniteSet(Runs)
    BY FiniteIndexes
  <2>2. \A q \in Runs : f[q] \in Int /\ g[q] \in Int
    BY <1>3
  <2>3. \A q \in Runs : q # r => g[q] = f[q]
    BY <1>3
  <2> QED
    BY <2>1, <2>2, <2>3, SumChanged
<1> QED
  BY <1>3, <1>4, <1>5, <1>6 DEF now

LEMMA WriteKeepsInv ==
  ASSUME AdvanceInv, NEW r \in Runs, calculateWrite(r) PROVE AdvanceInv'
<1> DEFINE read   == calc[r].advances
           now    == Recoveries(r, read, calc[r].net)
           before == recovery[r]
<1>1. /\ calc[r].open
      /\ recovery' = [recovery EXCEPT ![r] = now]
      /\ net' = [net EXCEPT ![r] = calc[r].net]
      /\ run' = [run EXCEPT ![r] = [status |-> "CALCULATED", stale |-> FALSE]]
      /\ calc' = [calc EXCEPT ![r] = NoCalc]
      /\ unwound' = unwound \cup {a \in Advances : before[a] > 0}
      /\ today' = today /\ overlapped' = overlapped
  BY DEF calculateWrite
<1>2. /\ now \in [Advances -> Nat]
      /\ SumFunctionOnSet(now, Advances) <= AtLeast(0, calc[r].net)
      /\ before \in [Advances -> Nat] /\ calc[r].net \in Int
  BY RecoveriesBound DEF AdvanceInv, TypeOK
<1>3. \A a \in Advances :
        /\ advance'[a] \in AdvanceType /\ StatusTells(advance'[a])
        /\ advance'[a].approved = advance[a].approved
        /\ now[a] = 0 /\ before[a] = 0 => advance'[a] = advance[a]
        /\ now[a] > 0 \/ before[a] > 0 =>
             advance[a].status \in Decided /\ advance'[a].status \in Decided
        /\ now[a] > 0 => /\ read[a].status \in Recoverable
                        /\ advance'[a].recovered = read[a].recovered + now[a]
        /\ now[a] = 0 =>
             advance'[a].recovered = AtLeast(0, advance[a].recovered - before[a])
  BY WriteEffect
<1>4. \A a \in Advances :
        /\ RecoveredBy(a) \in Int
        /\ RecoveredBy(a)' = (RecoveredBy(a) - before[a]) + now[a]
  BY RowReplaced
<1> HIDE DEF read, now, before
<1>5. /\ calc'[r] = NoCalc /\ recovery'[r] = now /\ net'[r] = calc[r].net
      /\ \A q \in Runs : q # r => /\ calc'[q] = calc[q] /\ recovery'[q] = recovery[q]
                                  /\ net'[q] = net[q]
  BY <1>1 DEF AdvanceInv, TypeOK
<1>6. ASSUME NEW q \in Runs, NEW a \in Advances
      PROVE  /\ StatusTells(calc'[q].advances[a])
             /\ calc'[q].advances[a].status \in Recoverable => q # r /\ calc'[q] = calc[q]
  <2>1. CASE q = r
    BY <1>5, <2>1, NoCalcTyped, NoAdvanceTyped DEF Recoverable
  <2>2. CASE q # r
    BY <1>5, <2>2 DEF AdvanceInv, StatusesTell
  <2> QED
    BY <2>1, <2>2
<1>7. TypeOK'
  <2>1. advance' \in [Advances -> AdvanceType]
    <3>1. advance' = [a \in Advances |-> advance'[a]]
      BY DEF calculateWrite
    <3> QED
      BY <1>3, <3>1
  <2>2. calc' \in [Runs -> [open: BOOLEAN, net: Int,
                             advances: [Advances -> AdvanceType]]]
    BY <1>1, NoCalcTyped DEF AdvanceInv, TypeOK
  <2>3. recovery' \in [Runs -> [Advances -> Nat]] /\ net' \in [Runs -> Int]
    BY <1>1, <1>2 DEF AdvanceInv, TypeOK
  <2>4. run' \in [Runs -> RunType] /\ unwound' \subseteq Advances /\ today' \in 1..LastDay
    BY <1>1 DEF AdvanceInv, TypeOK, RunType
  <2>5. overlapped' \in BOOLEAN
    BY <1>1 DEF AdvanceInv, TypeOK
  <2> QED
    BY <2>1, <2>2, <2>3, <2>4, <2>5 DEF TypeOK, RunType
<1>8. StatusesTell'
  BY <1>3, <1>6 DEF StatusesTell
<1>9. ApprovedForGood'
  <2>1. ASSUME NEW q \in Runs, NEW a \in Advances
        PROVE  recovery'[q][a] > 0 => advance'[a].status \in Decided
    <3>1. advance[a].status \in Decided => advance'[a].status \in Decided
      BY <1>2, <1>3
    <3>2. CASE q = r
      BY <1>3, <1>5, <3>2
    <3>3. CASE q # r
      BY <1>5, <3>1, <3>3 DEF AdvanceInv, ApprovedForGood
    <3> QED
      BY <3>2, <3>3
  <2>2. ASSUME NEW q \in Runs, NEW a \in Advances,
               calc'[q].advances[a].status \in Recoverable
        PROVE  /\ advance'[a].status \in Decided
               /\ advance'[a].approved = calc'[q].advances[a].approved
    <3>1. /\ advance[a].status \in Decided
          /\ advance[a].approved = calc[q].advances[a].approved
          /\ calc'[q] = calc[q]
      BY <1>6, <2>2 DEF AdvanceInv, ApprovedForGood
    <3> QED
      BY <1>2, <1>3, <3>1
  <2> QED
    BY <2>1, <2>2 DEF ApprovedForGood
<1>10. ReadsHold'
  <2> SUFFICES ASSUME ~overlapped
               PROVE  \A q \in Runs : /\ ~calc'[q].open
                                      /\ \A a \in Advances :
                                           ~(calc'[q].advances[a].status \in Recoverable)
    BY <1>1 DEF ReadsHold
  <2>1. \A q \in Runs : q # r => ~calc[q].open
    BY <1>1 DEF AdvanceInv, ReadsHold
  <2>2. \A q \in Runs : ~calc'[q].open
    BY <1>5, <2>1, NoCalcTyped
  <2>3. \A q \in Runs, a \in Advances :
          q # r => ~(calc[q].advances[a].status \in Recoverable)
    BY <2>1 DEF AdvanceInv, ReadsHold
  <2> QED
    BY <1>6, <2>2, <2>3
<1>11. ASSUME ~overlapped, NEW a \in Advances
       PROVE  /\ RecoveredBy(a)' <= advance'[a].recovered
              /\ a \notin unwound' => RecoveredBy(a)' = advance'[a].recovered
  <2>1. /\ RecoveredBy(a) <= advance[a].recovered
        /\ a \notin unwound => RecoveredBy(a) = advance[a].recovered
    BY <1>11 DEF AdvanceInv, RowsWithin, RowsExplainRecovered
  <2>2. /\ now[a] \in Nat /\ before[a] \in Nat
        /\ advance[a].recovered \in Nat /\ RecoveredBy(a) \in Int
        /\ a \notin unwound' => before[a] = 0 /\ a \notin unwound
    BY <1>1, <1>2, <1>4 DEF AdvanceInv, TypeOK, AdvanceType
  <2>3. RecoveredBy(a)' = (RecoveredBy(a) - before[a]) + now[a]
    BY <1>4
  <2>4. CASE now[a] > 0
    <3>1. read[a].recovered = advance[a].recovered
      BY <1>3, <1>11, <2>4 DEF AdvanceInv, ReadsHold, read
    <3>2. advance'[a].recovered = advance[a].recovered + now[a]
      BY <1>3, <2>4, <3>1
    <3> QED
      BY <2>1, <2>2, <2>3, <3>2
  <2>5. CASE now[a] = 0
    <3>1. advance'[a].recovered = AtLeast(0, advance[a].recovered - before[a])
      BY <1>3, <2>5
    <3> QED
      BY <2>1, <2>2, <2>3, <2>5, <3>1 DEF AtLeast
  <2> QED
    BY <2>2, <2>4, <2>5
<1>12. RowsWithin' /\ RowsExplainRecovered'
  BY <1>1, <1>11 DEF RowsWithin, RowsExplainRecovered
<1>13. RecoveryWithinNetPay'
  BY <1>2, <1>5 DEF AdvanceInv, RecoveryWithinNetPay
<1> QED
  BY <1>7, <1>8, <1>9, <1>10, <1>12, <1>13 DEF AdvanceInv

LEMMA NextAdvanceInv == AdvanceInv /\ [Next]_vars => AdvanceInv'
<1> SUFFICES ASSUME AdvanceInv, [Next]_vars PROVE AdvanceInv'
  OBVIOUS
<1>0. /\ TypeOK /\ today \in 1..LastDay /\ run \in [Runs -> RunType]
      /\ advance \in [Advances -> AdvanceType]
  BY DEF AdvanceInv, TypeOK, RunType
<1>1. ASSUME NEW a \in Advances, requestAdvance(a) PROVE AdvanceInv'
  <2>1. PICK n \in Amounts :
          advance' = [advance EXCEPT ![a].status = "REQUESTED", ![a].requested = n]
    BY <1>1 DEF requestAdvance
  <2> DEFINE new == [advance[a] EXCEPT !.status = "REQUESTED", !.requested = n]
  <2>2. n \in Nat /\ advance[a] \in AdvanceType
    BY <1>0, RecoveryAssumption
  <2>3. /\ new \in AdvanceType /\ new.status = "REQUESTED"
        /\ new.recovered = advance[a].recovered
    BY <2>2 DEF AdvanceType
  <2>4. advance' = [advance EXCEPT ![a] = new]
    BY <1>0, <2>1
  <2> HIDE DEF new
  <2> QED
    BY <1>0, <1>1, <2>3, <2>4, DecisionKeepsInv DEF requestAdvance
<1>2. ASSUME NEW a \in Advances, approveAdvance(a) PROVE AdvanceInv'
  <2>1. PICK n \in Amounts :
          advance' = [advance EXCEPT ![a].status = "APPROVED", ![a].approved = n,
                                     ![a].approvedOn = today]
    BY <1>2 DEF approveAdvance
  <2> DEFINE new == [advance[a] EXCEPT !.status = "APPROVED", !.approved = n,
                                       !.approvedOn = today]
  <2>2. n \in Nat /\ advance[a] \in AdvanceType /\ today \in Nat
    BY <1>0, RecoveryAssumption
  <2>3. /\ new \in AdvanceType /\ new.status = "APPROVED"
        /\ new.recovered = advance[a].recovered
    BY <2>2 DEF AdvanceType
  <2>4. advance' = [advance EXCEPT ![a] = new]
    BY <1>0, <2>1
  <2>5. run' \in [Runs -> RunType]
    BY <1>0, <1>2, StaledTyped DEF approveAdvance
  <2> HIDE DEF new
  <2> QED
    BY <1>0, <1>2, <2>3, <2>4, <2>5, DecisionKeepsInv DEF approveAdvance
<1>3. ASSUME NEW a \in Advances, refuseAdvance(a) PROVE AdvanceInv'
  <2> DEFINE new == [advance[a] EXCEPT !.status = "REJECTED"]
  <2>1. /\ new \in AdvanceType /\ new.status = "REJECTED"
        /\ new.recovered = advance[a].recovered
    BY <1>0 DEF AdvanceType
  <2>2. advance' = [advance EXCEPT ![a] = new]
    BY <1>0, <1>3 DEF refuseAdvance
  <2> HIDE DEF new
  <2> QED
    BY <1>0, <1>3, <2>1, <2>2, DecisionKeepsInv DEF refuseAdvance
<1>4. ASSUME NEW r \in Runs,
             calculateRead(r) \/ calculateWrite(r) \/ calculateFails(r)
      PROVE  AdvanceInv'
  BY <1>4, ReadKeepsInv, WriteKeepsInv, FailureKeepsInv
<1>5. ASSUME NEW r \in Runs, inputChange(r) PROVE AdvanceInv'
  BY <1>0, <1>5, StaledTyped, AmountsKept DEF inputChange
<1>6. ASSUME NEW r \in Runs, advanceRun(r) PROVE AdvanceInv'
  <2>1. PICK target \in {"CALCULATED", "APPROVED", "VOIDED"} :
          run' = [run EXCEPT ![r].status = target]
    BY <1>0, <1>6 DEF advanceRun, RunType
  <2>2. run' \in [Runs -> RunType]
    <3>1. run[r] \in RunType
      BY <1>0
    <3>2. [run[r] EXCEPT !.status = target] \in RunType
      BY <3>1 DEF RunType
    <3> QED
      BY <1>0, <2>1, <3>2
  <2> QED
    BY <1>0, <1>6, <2>2, AmountsKept DEF advanceRun
<1>7. CASE nextDay
  <2>1. today' \in 1..LastDay
    BY <1>0, <1>7, RecoveryAssumption DEF nextDay
  <2> QED
    BY <1>0, <1>7, <2>1, AmountsKept DEF nextDay
<1>8. CASE UNCHANGED vars
  BY <1>0, <1>8, AmountsKept DEF vars
<1> QED
  BY <1>1, <1>2, <1>3, <1>4, <1>5, <1>6, <1>7, <1>8 DEF Next

-----------------------------------------------------------------------------
(* Theorems. *)

(* Amounts, statuses and what calculations read hold their types: no amount *)
(* of an advance or of a recovery is ever negative.                         *)
THEOREM RecoveryTypeCorrect == Spec => []TypeOK
<1>1. Spec => []AdvanceInv
  BY InitAdvanceInv, NextAdvanceInv, PTL DEF Spec
<1>2. AdvanceInv => TypeOK
  BY DEF AdvanceInv
<1> QED
  BY <1>1, <1>2, PTL

(* Whatever calculations overlap, an advance's status tells how much of it  *)
(* is recovered, and never more than was approved; without overlap the      *)
(* rows claim no more than the advance does.                                *)
THEOREM NeverOverRecovers == Spec => []NeverOverRecovered
<1>1. Spec => []AdvanceInv
  BY InitAdvanceInv, NextAdvanceInv, PTL DEF Spec
<1>2. AdvanceInv => NeverOverRecovered
  BY DEF AdvanceInv, StatusesTell, StatusTells, RowsWithin, NeverOverRecovered
<1> QED
  BY <1>1, <1>2, PTL

(* A run's recoveries together are covered by the net pay they were taken   *)
(* from, however many advances are due at once.                             *)
THEOREM RecoveryCovered == Spec => []RecoveryWithinNetPay
<1>1. Spec => []AdvanceInv
  BY InitAdvanceInv, NextAdvanceInv, PTL DEF Spec
<1>2. AdvanceInv => RecoveryWithinNetPay
  BY DEF AdvanceInv
<1> QED
  BY <1>1, <1>2, PTL

(* The rows explain what is recovered of every advance no recalculation has *)
(* unwound.                                                                 *)
THEOREM RowsExplain == Spec => []RowsExplainRecovered
<1>1. Spec => []AdvanceInv
  BY InitAdvanceInv, NextAdvanceInv, PTL DEF Spec
<1>2. AdvanceInv => RowsExplainRecovered
  BY DEF AdvanceInv
<1> QED
  BY <1>1, <1>2, PTL

(* An approved run keeps what it recovered: while a run is calculated it is *)
(* neither approved nor voided, and nothing calculates it afterwards.       *)
Closed == {"APPROVED", "VOIDED"}

OpenIsCalculable == \A r \in Runs : calc[r].open => run[r].status \notin Closed

ApprovedRunsStay ==
  [][\A r \in Runs : run[r].status \in Closed =>
       /\ run'[r].status = run[r].status
       /\ recovery'[r] = recovery[r] /\ net'[r] = net[r]]_vars

THEOREM ApprovedRecoveriesStay == Spec => ApprovedRunsStay
<1> DEFINE Stays(r) == /\ run'[r].status = run[r].status
                       /\ recovery'[r] = recovery[r] /\ net'[r] = net[r]
           Stay == \A r \in Runs : run[r].status \in Closed => Stays(r)
<1>1. Init => OpenIsCalculable
  BY NoCalcTyped DEF Init, OpenIsCalculable
<1>2. ASSUME AdvanceInv, OpenIsCalculable, [Next]_vars PROVE OpenIsCalculable' /\ Stay
  <2>0. /\ run \in [Runs -> RunType] /\ recovery \in [Runs -> [Advances -> Nat]]
        /\ net \in [Runs -> Int]
        /\ calc \in [Runs -> [open: BOOLEAN, net: Int, advances: [Advances -> AdvanceType]]]
    BY <1>2 DEF AdvanceInv, TypeOK, RunType
  <2>1. ASSUME \A q \in Runs : run'[q].status = run[q].status,
               UNCHANGED <<recovery, net, calc>>
        PROVE  OpenIsCalculable' /\ Stay
    BY <1>2, <2>1 DEF OpenIsCalculable
  <2>2. ASSUME NEW rs, run' = Staled(rs)
        PROVE  \A q \in Runs : run'[q].status = run[q].status
    BY <2>0, <2>2 DEF Staled, RunType
  <2>3. ASSUME NEW a \in Advances, requestAdvance(a) \/ approveAdvance(a) \/ refuseAdvance(a)
        PROVE  OpenIsCalculable' /\ Stay
    BY <2>1, <2>2, <2>3 DEF requestAdvance, approveAdvance, refuseAdvance
  <2>4. ASSUME NEW r \in Runs, inputChange(r) PROVE OpenIsCalculable' /\ Stay
    BY <2>1, <2>2, <2>4 DEF inputChange
  <2>5. ASSUME NEW r \in Runs, calculateRead(r) PROVE OpenIsCalculable' /\ Stay
    <3>1. run[r].status \notin Closed /\ UNCHANGED <<recovery, run, net>>
      BY <2>5 DEF calculateRead, Closed
    <3>2. \A q \in Runs \ {r} : calc'[q] = calc[q]
      BY <2>0, <2>5 DEF calculateRead
    <3> QED
      BY <1>2, <3>1, <3>2 DEF OpenIsCalculable
  <2>6. ASSUME NEW r \in Runs, calculateWrite(r) PROVE OpenIsCalculable' /\ Stay
    <3>1. run[r].status \notin Closed
      BY <1>2, <2>6 DEF calculateWrite, OpenIsCalculable
    <3>2. ~calc'[r].open
      BY <2>0, <2>6, NoCalcTyped DEF calculateWrite
    <3>3. \A q \in Runs \ {r} : /\ calc'[q] = calc[q] /\ run'[q] = run[q]
                               /\ recovery'[q] = recovery[q] /\ net'[q] = net[q]
      BY <2>0, <2>6 DEF calculateWrite
    <3> QED
      BY <1>2, <3>1, <3>2, <3>3 DEF OpenIsCalculable
  <2>7. ASSUME NEW r \in Runs, calculateFails(r) PROVE OpenIsCalculable' /\ Stay
    <3>1. ~calc'[r].open /\ \A q \in Runs \ {r} : calc'[q] = calc[q]
      BY <2>0, <2>7, NoCalcTyped DEF calculateFails
    <3> QED
      BY <1>2, <2>7, <3>1 DEF calculateFails, OpenIsCalculable
  <2>8. ASSUME NEW r \in Runs, advanceRun(r) PROVE OpenIsCalculable' /\ Stay
    <3>1. ~calc[r].open /\ run[r].status \notin Closed /\ UNCHANGED <<recovery, net, calc>>
      BY <2>8 DEF advanceRun, Closed
    <3>2. \A q \in Runs \ {r} : run'[q] = run[q]
      BY <2>0, <2>8 DEF advanceRun
    <3> QED
      BY <1>2, <3>1, <3>2 DEF OpenIsCalculable
  <2>9. CASE nextDay \/ UNCHANGED vars
    BY <2>1, <2>9 DEF nextDay, vars
  <2> HIDE DEF Stay
  <2> QED
    BY <1>2, <2>3, <2>4, <2>5, <2>6, <2>7, <2>8, <2>9 DEF Next
<1> QED
  BY <1>1, <1>2, InitAdvanceInv, NextAdvanceInv, PTL DEF Spec, ApprovedRunsStay
=============================================================================
