---------------------------- MODULE RateLimiter ----------------------------
(***************************************************************************)
(* The API's rate limiters (api/middleware/rate_limit.go): one that every  *)
(* request passes and a stricter one behind it for /auth                   *)
(* (endpoint_rate_limit.go), as api/server.go chains them.  Each keeps a   *)
(* table from a client's address to the times of its requests, which       *)
(* Allow and a cleanup ticker both prune under one mutex, so that each is  *)
(* one step.  Times are ages in units of time; a time older than the       *)
(* window is only known to be there.                                       *)
(***************************************************************************)
EXTENDS Naturals, FiniteSets

CONSTANTS
    Client,     \* the clients' addresses
    APILimit,   \* APIConfig.RateLimit
    AuthLimit,  \* AuthRateLimiter's limit
    Window,     \* both windows (a minute), in units of time
    InFlight    \* bound: logins of a client between the two limiters

(* The validator refuses a limit of zero or less; the rest is in the code. *)
ASSUME WindowPositive == Window \in Nat \ {0}
ASSUME LimitsPositive == APILimit \in Nat \ {0} /\ AuthLimit \in Nat \ {0}
ASSUME InFlightNatural == InFlight \in Nat

Limiter == {"api", "auth"}
Key == Limiter \X Client
Limit == [k \in Key |-> IF k[1] = "api" THEN APILimit ELSE AuthLimit]

VARIABLES
    requests,   \* RateLimiter.requests of both: a client is in the map of a
                \* limiter when its set is not empty
    elapsed,    \* the time since the cleanup ticker of each limiter fired
    passing,    \* the logins of each client between the two limiters
    admitted,   \* history: the requests admitted within the window
    answer      \* history: the last answer of a limiter

vars == <<requests, elapsed, passing, admitted, answer>>

-----------------------------------------------------------------------------
(* The table. *)

NoAnswer == <<>>

(* A time is its age and a number that tells it from others of the same    *)
(* moment.  Both loops keep the times inside the window, ...               *)
Valid(S) == {e \in S : e[1] < Window}

(* ... and append(valid, now) adds one. *)
New(S, limit) == <<0, CHOOSE n \in 1 .. limit : <<0, n>> \notin S>>

Outside == <<Window, 0>>

Older(S) == {IF e[1] + 1 < Window THEN <<e[1] + 1, e[2]>> ELSE Outside : e \in S}

(* Mutant: a refused request is recorded as well. *)
AllowRecordingRefused(k) ==
    LET valid == Valid(requests[k])
        allowed == Cardinality(valid) < Limit[k]
    IN  /\ requests' = [requests EXCEPT ![k] =
                            IF allowed THEN valid \cup {New(valid, Limit[k])}
                                       ELSE valid \cup {<<0, 1>>}]
        /\ admitted' = [admitted EXCEPT ![k] =
                            IF allowed THEN @ \cup {New(@, Limit[k])} ELSE @]
        /\ answer' = <<k, allowed>>

(* Allow, from Lock to Unlock. *)
Allow(k) ==
    LET valid == Valid(requests[k])
        allowed == Cardinality(valid) < Limit[k]
    IN  /\ requests' = [requests EXCEPT ![k] =
                            IF allowed THEN valid \cup {New(valid, Limit[k])} ELSE valid]
        /\ admitted' = [admitted EXCEPT ![k] =
                            IF allowed THEN @ \cup {New(@, Limit[k])} ELSE @]
        /\ answer' = <<k, allowed>>

Allowed == answer'[2]

-----------------------------------------------------------------------------

Init ==
    /\ requests = [k \in Key |-> {}]
    /\ elapsed = [l \in Limiter |-> 0]
    /\ passing = [c \in Client |-> 0]
    /\ admitted = [k \in Key |-> {}]
    /\ answer = NoAnswer

(* A request for anything but /auth passes the first limiter and reaches   *)
(* its handler, or is refused.                                             *)
Request(c) ==
    /\ Allow(<<"api", c>>)
    /\ UNCHANGED <<elapsed, passing>>

(* A login or registration that the first limiter lets through goes on to  *)
(* the second, ...                                                         *)
Login(c) ==
    /\ passing[c] < InFlight
    /\ Allow(<<"api", c>>)
    /\ passing' = [passing EXCEPT ![c] = IF Allowed THEN @ + 1 ELSE @]
    /\ UNCHANGED elapsed

(* ... which counts those of one client together. *)
LoginGoesOn(c) ==
    /\ passing[c] > 0
    /\ Allow(<<"auth", c>>)
    /\ passing' = [passing EXCEPT ![c] = @ - 1]
    /\ UNCHANGED elapsed

(* Mutant: the cleanup skips the clients that have nothing to remember. *)
CleanupKeepsKeys(l) ==
    /\ elapsed[l] = Window
    /\ requests' = [k \in Key |-> IF k[1] = l /\ Valid(requests[k]) # {}
                                  THEN Valid(requests[k]) ELSE requests[k]]
    /\ elapsed' = [elapsed EXCEPT ![l] = 0]
    /\ UNCHANGED <<passing, admitted, answer>>

(* A limiter's cleanup goroutine: the ticker fires a window after the last *)
(* time, and the goroutine comes to it then or later.  A client left       *)
(* without times leaves the map.                                           *)
Cleanup(l) ==
    /\ elapsed[l] = Window
    /\ requests' = [k \in Key |-> IF k[1] = l THEN Valid(requests[k]) ELSE requests[k]]
    /\ elapsed' = [elapsed EXCEPT ![l] = 0]
    /\ UNCHANGED <<passing, admitted, answer>>

Tick ==
    /\ requests' = [k \in Key |-> Older(requests[k])]
    /\ elapsed' = [l \in Limiter |-> IF elapsed[l] < Window THEN elapsed[l] + 1 ELSE Window]
    /\ admitted' = [k \in Key |-> Older(admitted[k]) \ {Outside}]
    /\ answer' = NoAnswer
    /\ UNCHANGED passing

Next ==
    \/ \E c \in Client : Request(c) \/ Login(c) \/ LoginGoesOn(c)
    \/ \E l \in Limiter : Cleanup(l)
    \/ Tick

(* Time passes and the cleanup goroutines run; nobody has to send. *)
Fairness == WF_vars(Tick) /\ \A l \in Limiter : WF_vars(Cleanup(l))

Spec == Init /\ [][Next]_vars

FairSpec == Spec /\ Fairness

-----------------------------------------------------------------------------
(* Properties. *)

Entry == (0 .. Window) \X Nat

TypeOK ==
    /\ requests \in [Key -> SUBSET Entry]
    /\ elapsed \in [Limiter -> 0 .. Window]
    /\ passing \in [Client -> 0 .. InFlight]
    /\ admitted \in [Key -> SUBSET Entry]
    /\ answer \in {NoAnswer} \cup Key \X BOOLEAN

(* Neither limiter ever lets a client through more often than its limit    *)
(* within any window, wherever it lies to the ticker's period, however     *)
(* cleanups, refusals and logins that wait for the second limiter fall.    *)
NeverOverLimit ==
    \A k \in Key : IsFiniteSet(admitted[k]) /\ Cardinality(admitted[k]) <= Limit[k]

Promise == INSTANCE SlidingWindow WITH log <- admitted

(* The limiters keep the promise of a sliding window: table and ticker     *)
(* forget nothing that counts and remember nothing that does not, and a    *)
(* client that hammers while it is refused is admitted as soon as its      *)
(* admissions leave the window.                                            *)
ImplementsSlidingWindow == Promise!Spec

(* The tables do not grow with every address ever seen: a client with no   *)
(* admission left in the window leaves the map, unless it comes back.      *)
IdleClientsForgotten ==
    \A k \in Key : admitted[k] = {} ~> requests[k] = {} \/ admitted[k] # {}
=============================================================================
