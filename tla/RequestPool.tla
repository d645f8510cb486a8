---------------------------- MODULE RequestPool ----------------------------
(***************************************************************************)
(* What the request pool (class Api) promises to the rest of the client,   *)
(* without threads, locks or condition variables: a request handed over is *)
(* performed by one of a fixed number of servers, the most urgent waiting  *)
(* request first, and its response comes back to the client exactly once.  *)
(***************************************************************************)
EXTENDS Naturals, FiniteSets

CONSTANTS Request,          \* the requests the client can make
          Slots,            \* requests performed at the same time
          Urgent(_, _)      \* Urgent(a, b): a must be started before b

VARIABLE place              \* where each request is

Place == {"client", "queued", "performing", "answered"}

At(where) == {r \in Request : place[r] = where}

Init == place = [r \in Request |-> "client"]

Move(r, from, to) == /\ place[r] = from
                     /\ place' = [place EXCEPT ![r] = to]

Submit(r) == Move(r, "client", "queued")

Start(r) == /\ Cardinality(At("performing")) < Slots
            /\ \A q \in At("queued") : ~Urgent(q, r)
            /\ Move(r, "queued", "performing")

Answer(r) == Move(r, "performing", "answered")

Deliver(r) == Move(r, "answered", "client")

Next == \E r \in Request : Submit(r) \/ Start(r) \/ Answer(r) \/ Deliver(r)

Spec == Init /\ [][Next]_place
=============================================================================
