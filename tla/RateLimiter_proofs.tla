------------------------- MODULE RateLimiter_proofs -------------------------
(***************************************************************************)
(* Proofs about the rate limiters, for any clients, limits and window: no  *)
(* client exceeds a limit in any window, and the limiters implement the    *)
(* sliding window.  The inductive invariant says why: the part of a table  *)
(* inside the window is exactly the requests admitted.                     *)
(***************************************************************************)
EXTENDS RateLimiter, FiniteSetTheorems, TLAPS

TableIsAdmitted == \A k \in Key : Valid(requests[k]) = admitted[k]

LimiterInv == TypeOK /\ NeverOverLimit /\ TableIsAdmitted

(* A new admission differs from those it joins: below the limit there is a *)
(* number left.                                                            *)
LEMMA NewIsNew ==
    ASSUME NEW S, IsFiniteSet(S), NEW limit \in Nat, Cardinality(S) < limit
    PROVE  New(S, limit) \notin S /\ New(S, limit) \in {0} \X (1 .. limit)
<1>. DEFINE T == {e \in S : \E n \in 1 .. limit : e = <<0, n>>}
            f == [n \in 1 .. limit |-> <<0, n>>]
<1>1. IsFiniteSet(T) /\ Cardinality(T) <= Cardinality(S) /\ Cardinality(T) \in Nat
    <2>1. T \in SUBSET S
        OBVIOUS
    <2>. QED
        BY <2>1, FS_Subset, FS_CardinalityType
<1>2. IsFiniteSet(1 .. limit) /\ Cardinality(1 .. limit) = limit
    BY FS_Interval
<1>3. \E n \in 1 .. limit : <<0, n>> \notin S
    <2>1. SUFFICES ASSUME \A n \in 1 .. limit : <<0, n>> \in S
                   PROVE  FALSE
        OBVIOUS
    <2>2. f \in [1 .. limit -> T]
        BY <2>1
    <2>3. Cardinality(S) \in Nat
        BY FS_CardinalityType
    <2>4. Cardinality(T) < Cardinality(1 .. limit)
        BY <1>1, <1>2, <2>3
    <2>5. PICK m, n \in 1 .. limit : m # n /\ f[m] = f[n]
        <3>. HIDE DEF f, T
        <3>. QED
            BY <1>1, <1>2, <2>2, <2>4, FS_PigeonHole
    <2>. QED
        BY <2>5
<1>. QED
    BY <1>3 DEF New

(* Ageing adds no admission to a set. *)
LEMMA OlderBounded ==
    ASSUME NEW S \in SUBSET Entry, IsFiniteSet(S)
    PROVE  /\ IsFiniteSet(Older(S) \ {Outside})
           /\ Cardinality(Older(S) \ {Outside}) <= Cardinality(S)
<1>. DEFINE T == Older(S) \ {Outside}
            f == [t \in T |-> <<t[1] - 1, t[2]>>]
<1>1. \A t \in T : \E e \in S : t = <<e[1] + 1, e[2]>> /\ e[1] \in Nat
    BY WindowPositive DEF Older, Entry, Outside
<1>2. \A t \in T : f[t] \in S
    <2>. TAKE t \in T
    <2>1. PICK e \in S : t = <<e[1] + 1, e[2]>> /\ e[1] \in Nat
        BY <1>1
    <2>2. f[t] = <<e[1], e[2]>> /\ e = <<e[1], e[2]>>
        BY <2>1 DEF Entry
    <2>. QED
        BY <2>2
<1>3. ASSUME NEW t \in T, NEW u \in T, f[t] = f[u]
      PROVE  t = u
    <2>1. PICK e \in S : t = <<e[1] + 1, e[2]>> /\ e[1] \in Nat
        BY <1>1
    <2>2. PICK g \in S : u = <<g[1] + 1, g[2]>> /\ g[1] \in Nat
        BY <1>1
    <2>. QED
        BY <1>3, <2>1, <2>2
<1>4. f \in Injection(T, S)
    BY <1>2, <1>3 DEF Injection, IsInjective
<1>. QED
    BY <1>4, FS_Injection

(* A set inside the window ages as the sliding window's log does. *)
LEMMA OlderIsAged ==
    ASSUME NEW S \in SUBSET Entry
    PROVE  Older(S) \ {Outside} = Promise!Aged(S)
BY WindowPositive DEF Older, Outside, Entry, Promise!Aged

(* Of an aged table, the part inside the window comes from the part that   *)
(* was inside.                                                             *)
LEMMA ValidOlder ==
    ASSUME NEW S \in SUBSET Entry
    PROVE  Valid(Older(S)) = Older(Valid(S)) \ {Outside}
<1>1. ASSUME NEW x \in Valid(Older(S)) PROVE x \in Older(Valid(S)) \ {Outside}
    <2>1. x \in Older(S) /\ x[1] < Window
        BY DEF Valid
    <2>2. PICK e \in S : x = IF e[1] + 1 < Window THEN <<e[1] + 1, e[2]>> ELSE Outside
        BY <2>1 DEF Older
    <2>3. Outside[1] = Window /\ e[1] \in Nat
        BY DEF Outside, Entry
    <2>4. e[1] + 1 < Window
        BY <2>1, <2>2, <2>3, WindowPositive
    <2>5. e \in Valid(S)
        BY <2>3, <2>4, WindowPositive DEF Valid
    <2>6. x # Outside
        BY <2>1, <2>3, WindowPositive
    <2>. QED
        BY <2>2, <2>5, <2>6 DEF Older
<1>2. ASSUME NEW x \in Older(Valid(S)) \ {Outside} PROVE x \in Valid(Older(S))
    <2>1. PICK e \in Valid(S) : x = IF e[1] + 1 < Window THEN <<e[1] + 1, e[2]>> ELSE Outside
        BY DEF Older
    <2>2. e \in S /\ e[1] + 1 < Window /\ x = <<e[1] + 1, e[2]>>
        BY <1>2, <2>1 DEF Valid
    <2>. QED
        BY <2>2 DEF Valid, Older
<1>. QED
    BY <1>1, <1>2

LEMMA OlderType == ASSUME NEW S \in SUBSET Entry PROVE Older(S) \in SUBSET Entry
BY WindowPositive DEF Older, Entry, Outside

(* The constants, as the proofs below use them. *)
LEMMA LimitType == \A k \in Key : Limit[k] \in Nat \ {0}
BY LimitsPositive DEF Limit

LEMMA InitInv == Init => LimiterInv
<1>1. IsFiniteSet({}) /\ Cardinality({}) = 0
    BY FS_EmptySet
<1>. QED
    BY <1>1, LimitType, WindowPositive, InFlightNatural
       DEF Init, LimiterInv, TypeOK, NeverOverLimit, TableIsAdmitted, Valid, NoAnswer, Limiter

(* The sliding window counts as the limiters do. *)
LEMMA SameCount == \A S : Promise!Cardinality(S) = Cardinality(S)
BY DEF Cardinality, Promise!Cardinality

(* An answer of a limiter keeps the invariant and is the sliding window's. *)
LEMMA AllowStep ==
    ASSUME LimiterInv, NEW k \in Key, Allow(k)
    PROVE  /\ requests' \in [Key -> SUBSET Entry] /\ admitted' \in [Key -> SUBSET Entry]
           /\ answer' \in {NoAnswer} \cup Key \X BOOLEAN
           /\ NeverOverLimit' /\ TableIsAdmitted'
           /\ Promise!Admit(k) \/ Promise!Refuse(k)
<1>. DEFINE log == admitted[k]
            new == New(log, Limit[k])
<1>0. /\ requests \in [Key -> SUBSET Entry] /\ admitted \in [Key -> SUBSET Entry]
      /\ Valid(requests[k]) = log /\ log \in SUBSET Entry
      /\ IsFiniteSet(log) /\ Cardinality(log) \in Nat /\ Limit[k] \in Nat
    BY LimitType, FS_CardinalityType DEF LimiterInv, TypeOK, TableIsAdmitted, NeverOverLimit
<1>1. CASE Cardinality(log) < Limit[k]
    <2>1. /\ requests' = [requests EXCEPT ![k] = log \cup {new}]
          /\ admitted' = [admitted EXCEPT ![k] = log \cup {new}]
          /\ answer' = <<k, TRUE>>
        BY <1>0, <1>1 DEF Allow
    <2>2. new \in Entry /\ new[1] < Window
        <3>1. new \in {0} \X (1 .. Limit[k])
            BY <1>0, <1>1, NewIsNew
        <3>. QED
            BY <3>1, <1>0, WindowPositive DEF Entry
    <2>3. Valid(log \cup {new}) = log \cup {new}
        <3>1. \A e \in log : e[1] < Window
            BY <1>0 DEF Valid
        <3>. QED
            BY <3>1, <2>2 DEF Valid
    <2>4. IsFiniteSet(log \cup {new}) /\ Cardinality(log \cup {new}) <= Limit[k]
        <3>1. /\ IsFiniteSet(log \cup {new})
              /\ Cardinality(log \cup {new}) = IF new \in log THEN Cardinality(log)
                                                              ELSE Cardinality(log) + 1
            <4>. HIDE DEF log, new
            <4>. QED
                BY <1>0, FS_AddElement
        <3>. HIDE DEF log, new
        <3>. QED
            BY <3>1, <1>0, <1>1
    <2>5. requests' \in [Key -> SUBSET Entry] /\ admitted' \in [Key -> SUBSET Entry]
        BY <1>0, <2>1, <2>2
    <2>6. NeverOverLimit'
        BY <1>0, <2>1, <2>4 DEF LimiterInv, NeverOverLimit
    <2>7. TableIsAdmitted'
        BY <1>0, <2>1, <2>3 DEF LimiterInv, TableIsAdmitted
    <2>8. Promise!Admit(k)
        BY <1>1, <2>1, SameCount DEF Promise!Admit, Promise!New, New
    <2>. QED
        BY <2>1, <2>5, <2>6, <2>7, <2>8
<1>2. CASE ~(Cardinality(log) < Limit[k])
    <2>1. /\ requests' = [requests EXCEPT ![k] = log]
          /\ admitted' = admitted
          /\ answer' = <<k, FALSE>>
        <3>1. /\ requests' = [requests EXCEPT ![k] = log]
              /\ admitted' = [admitted EXCEPT ![k] = admitted[k]]
            BY <1>0, <1>2 DEF Allow
        <3>2. answer' = <<k, Cardinality(log) < Limit[k]>>
            BY <1>0, Zenon DEF Allow
        <3>3. (Cardinality(log) < Limit[k]) = FALSE
            BY <1>0, <1>2
        <3>4. answer' = <<k, FALSE>>
            BY <3>2, <3>3, Zenon
        <3>5. admitted' = admitted
            BY <3>1, <1>0
        <3>. QED
            BY <3>1, <3>4, <3>5
    <2>2. Valid(log) = log
        BY <1>0 DEF Valid
    <2>3. TableIsAdmitted'
        BY <1>0, <2>1, <2>2 DEF LimiterInv, TableIsAdmitted
    <2>4. Promise!Refuse(k)
        BY <1>0, <1>2, <2>1, SameCount DEF Promise!Refuse
    <2>. QED
        BY <1>0, <2>1, <2>3, <2>4 DEF LimiterInv, NeverOverLimit
<1>. QED
    BY <1>1, <1>2

(* Every step keeps the invariant and is a step of the sliding window, or  *)
(* changes nothing it can see.                                             *)
LEMMA StepRefines ==
    ASSUME LimiterInv, [Next]_vars
    PROVE  LimiterInv' /\ [Promise!Next]_<<admitted, answer>>
<1>0. TypeOK /\ NeverOverLimit /\ TableIsAdmitted
    BY DEF LimiterInv
<1>1. ASSUME NEW c \in Client, Request(c) \/ Login(c) \/ LoginGoesOn(c)
      PROVE  LimiterInv' /\ Promise!Next
    <2>1. PICK k \in Key : Allow(k)
        BY <1>1 DEF Request, Login, LoginGoesOn, Key, Limiter
    <2>2. elapsed' = elapsed /\ passing' \in [Client -> 0 .. InFlight]
        <3>1. CASE Request(c)
            BY <1>0, <3>1 DEF Request, TypeOK
        <3>2. CASE Login(c)
            BY <1>0, <3>2, InFlightNatural DEF Login, TypeOK
        <3>3. CASE LoginGoesOn(c)
            BY <1>0, <3>3, InFlightNatural DEF LoginGoesOn, TypeOK
        <3>. QED
            BY <1>1, <3>1, <3>2, <3>3
    <2>. QED
        BY <1>0, <2>1, <2>2, AllowStep DEF LimiterInv, TypeOK, Promise!Next
<1>2. ASSUME NEW l \in Limiter, Cleanup(l)
      PROVE  LimiterInv' /\ UNCHANGED <<admitted, answer>>
    <2>1. \A S : Valid(Valid(S)) = Valid(S) /\ Valid(S) \subseteq S
        BY DEF Valid
    <2>2. requests' = [k \in Key |-> IF k[1] = l THEN Valid(requests[k]) ELSE requests[k]]
        BY <1>2 DEF Cleanup
    <2>3. requests' \in [Key -> SUBSET Entry]
        BY <1>0, <2>1, <2>2 DEF TypeOK
    <2>4. TableIsAdmitted'
        BY <1>0, <1>2, <2>1, <2>2 DEF Cleanup, TableIsAdmitted
    <2>. QED
        BY <1>0, <1>2, <2>3, <2>4, WindowPositive DEF Cleanup, LimiterInv, TypeOK, NeverOverLimit
<1>3. ASSUME Tick
      PROVE  LimiterInv' /\ Promise!Next
    <2>1. \A k \in Key : /\ requests[k] \in SUBSET Entry /\ admitted[k] \in SUBSET Entry
                         /\ requests'[k] = Older(requests[k])
                         /\ admitted'[k] = Older(admitted[k]) \ {Outside}
        BY <1>0, <1>3 DEF Tick, TypeOK
    <2>2. requests' \in [Key -> SUBSET Entry] /\ admitted' \in [Key -> SUBSET Entry]
        <3>1. \A k \in Key : requests'[k] \in SUBSET Entry /\ admitted'[k] \in SUBSET Entry
            BY <2>1, OlderType
        <3>. QED
            BY <1>3, <3>1 DEF Tick
    <2>3. elapsed' \in [Limiter -> 0 .. Window]
        BY <1>0, <1>3, WindowPositive DEF Tick, TypeOK
    <2>4. NeverOverLimit'
        <3>. SUFFICES ASSUME NEW k \in Key
                      PROVE  IsFiniteSet(admitted'[k]) /\ Cardinality(admitted'[k]) <= Limit[k]
            BY DEF NeverOverLimit
        <3>1. IsFiniteSet(admitted[k]) /\ Cardinality(admitted[k]) <= Limit[k]
            BY <1>0 DEF NeverOverLimit
        <3>2. /\ IsFiniteSet(admitted'[k])
              /\ Cardinality(admitted'[k]) <= Cardinality(admitted[k])
            BY <2>1, <3>1, OlderBounded
        <3>3. Cardinality(admitted'[k]) \in Nat /\ Cardinality(admitted[k]) \in Nat
            BY <3>1, <3>2, FS_CardinalityType
        <3>. QED
            BY <3>1, <3>2, <3>3, LimitType
    <2>5. TableIsAdmitted'
        <3>. SUFFICES ASSUME NEW k \in Key
                      PROVE  Valid(requests'[k]) = admitted'[k]
            BY DEF TableIsAdmitted
        <3>1. Valid(requests[k]) = admitted[k]
            BY <1>0 DEF TableIsAdmitted
        <3>. QED
            BY <2>1, <3>1, ValidOlder
    <2>6. Promise!Tick
        <3>1. \A k \in Key : Older(admitted[k]) \ {Outside} = Promise!Aged(admitted[k])
            BY <2>1, OlderIsAged
        <3>. QED
            BY <1>3, <3>1 DEF Tick, Promise!Tick, NoAnswer, Promise!NoAnswer
    <2>. QED
        BY <1>0, <1>3, <2>2, <2>3, <2>4, <2>5, <2>6 DEF Tick, LimiterInv, TypeOK, Promise!Next
<1>4. CASE UNCHANGED vars
    BY <1>0, <1>4 DEF vars, LimiterInv, TypeOK, NeverOverLimit, TableIsAdmitted
<1>. QED
    BY <1>1, <1>2, <1>3, <1>4 DEF Next

LEMMA InvariantHolds == Spec => []LimiterInv
BY InitInv, StepRefines, PTL DEF Spec

(* The variables keep their types. *)
THEOREM LimiterTypeCorrect == Spec => []TypeOK
<1>1. LimiterInv => TypeOK
    BY DEF LimiterInv
<1>. QED
    BY <1>1, InvariantHolds, PTL

(* No client gets more than its limit past a limiter in any window: the    *)
(* first half of what RateLimiter is for.                                  *)
THEOREM NeverOverLimitHolds == Spec => []NeverOverLimit
<1>1. LimiterInv => NeverOverLimit
    BY DEF LimiterInv
<1>. QED
    BY <1>1, InvariantHolds, PTL

(* Tables, prunings and the cleanup implement the sliding window: exactly  *)
(* the requests it would refuse are refused.                               *)
THEOREM RefinesSlidingWindow == Spec => ImplementsSlidingWindow
<1>1. Init => Promise!Init
    BY DEF Init, Promise!Init, NoAnswer, Promise!NoAnswer
<1>2. LimiterInv /\ [Next]_vars => [Promise!Next]_<<admitted, answer>>
    BY StepRefines
<1>. QED
    BY <1>1, <1>2, InvariantHolds, PTL DEF Spec, Promise!Spec, ImplementsSlidingWindow
=============================================================================
