--------------------------- MODULE SlidingWindow ---------------------------
(***************************************************************************)
(* What a rate limiter promises: a request of a key is admitted exactly    *)
(* when fewer than the key's limit have been admitted in the window that   *)
(* ends with it, and a request that is refused costs nothing.  There is no *)
(* table and nothing to clean up here, only the admissions themselves.     *)
(***************************************************************************)
EXTENDS Naturals, FiniteSets

CONSTANTS
    Key,        \* who is limited
    Limit,      \* how often, for each key
    Window      \* and in how many units of time

VARIABLES
    log,        \* the admissions of each key inside the window
    answer      \* the last answer: the key and whether it was admitted

NoAnswer == <<>>

(* An admission is its age and a number that tells it from the others of   *)
(* the same moment.                                                        *)
New(S, limit) == <<0, CHOOSE n \in 1 .. limit : <<0, n>> \notin S>>

(* One unit of time later; what leaves the window is forgotten. *)
Aged(S) == {<<e[1] + 1, e[2]>> : e \in {f \in S : f[1] + 1 < Window}}

Init == log = [k \in Key |-> {}] /\ answer = NoAnswer

Admit(k) ==
    /\ Cardinality(log[k]) < Limit[k]
    /\ log' = [log EXCEPT ![k] = @ \cup {New(@, Limit[k])}]
    /\ answer' = <<k, TRUE>>

Refuse(k) ==
    /\ Cardinality(log[k]) >= Limit[k]
    /\ answer' = <<k, FALSE>>
    /\ UNCHANGED log

Tick ==
    /\ log' = [k \in Key |-> Aged(log[k])]
    /\ answer' = NoAnswer

Next == Tick \/ \E k \in Key : Admit(k) \/ Refuse(k)

Spec == Init /\ [][Next]_<<log, answer>>
=============================================================================
