---------------------------- MODULE ExploreTree ----------------------------
(***************************************************************************)
(* The exploration (struct ExploreArea, App::processExploreResponse,       *)
(* State::fetchNextExploreArea): a tree of areas. The server tells how     *)
(* many treasures an area has; an area with treasures is cut into parts    *)
(* that are explored in turn, the area with most treasures per cell first; *)
(* what the last unexplored part of an area holds is deduced, not asked    *)
(* for. A single cell with treasures is handed over to be dug.             *)
(*                                                                         *)
(* The client starts from a nominal number of treasures of the field,      *)
(* whatever the server holds (app.cpp:40). Where that is too small, the    *)
(* differences of its size_t counters wrap around; the model has the       *)
(* integers that they stand for modulo 2^64, below zero as well, and wraps *)
(* where the code compares them.                                           *)
(***************************************************************************)
EXTENDS SubAreas, SequencesExt, FiniteSets, FiniteSetsExt, Functions

CONSTANTS Treasures,    \* Treasures[x, y]: the treasures below a cell
          Nominal,      \* kTreasuriesCount: what the client takes for their sum
          Modulus,      \* 2^64, that of size_t; smaller for TLC
          Concurrent,   \* kExploreConcurrentRequestsCnt
          MaxRefused    \* bound: explore calls the server refuses

Cells == (0..(FieldX - 1)) \X (0..(FieldY - 1))

\* the last row of the table cuts an area into single cells
ASSUME ExploreTreeAssumption ==
    /\ Treasures \in [Cells -> Nat]
    /\ Nominal \in Nat \ {0} /\ Modulus \in Nat
    /\ Concurrent \in Nat /\ MaxRefused \in Nat
    /\ ExploreAreas # <<>>
    /\ ExploreAreas[Len(ExploreAreas)] = [height |-> 1, width |-> 1]

VARIABLES
    tree,     \* the areas created so far, in this order: id_ is the position
    queue,    \* exploreQueue_: ids in iteration order
    calls,    \* ids of the areas in the request pool or at the server
    replies,  \* answered calls: [id, status, amount]
    found,    \* [cell, amount]: the cells handed over to be dug, in order
    counts,   \* the treasures the server still has below each cell
    status,   \* "running", or "crashed" on the null pointer
    refused

vars == <<tree, queue, calls, replies, found, counts, status, refused>>

Root == 1

CellsOf(area) == {c \in Cells : /\ c[1] \in area.x..(area.x + area.sizeX - 1)
                                /\ c[2] \in area.y..(area.y + area.sizeY - 1)}

TreasuresIn(map, area) == SumFunctionOnSet(map, CellsOf(area))

-----------------------------------------------------------------------------
(***************************************************************************)
(* struct ExploreArea. s is the client's state: tree, queue, calls, found  *)
(* and status.                                                             *)
(***************************************************************************)
Node(parent, area, depth, actual) ==
    [parent |-> parent, area |-> area, exploreDepth |-> depth,
     actual |-> actual, explored |-> FALSE, requestInFlight |-> FALSE,
     children |-> <<>>, childSwaps |-> 0,
     exploredTreasures |-> 0,    \* exploredChildrenTreasuriesCnt_
     nonExploredSize |-> 0,      \* nonExploredChildrenAreaSize_
     nonExploredCnt |-> 0]       \* nonExploredChildrenCnt_

\* mutant: the explored children are not subtracted
Left_Actual(s, n) == s.tree[n].actual

\* getLeftTreasuriesCnt: of type size_t, so that "> 0" means "not 0"
Left(s, n) == s.tree[n].actual - s.tree[n].exploredTreasures

\* a difference as size_t holds it
Unsigned(x) == IF x < 0 THEN x + Modulus ELSE x

\* operator<: expectedChildTreasuriesCnt_ is Left / nonExploredSize
Before(s, a, b) ==
    LET ea == Unsigned(Left(s, a)) * s.tree[b].nonExploredSize
        eb == Unsigned(Left(s, b)) * s.tree[a].nonExploredSize
    IN  ea > eb \/ (ea = eb /\ a < b)

\* exploreQueue_.insert and .erase
AddExploreArea(s, n) ==
    IF n \in ToSet(s.queue) THEN s
    ELSE LET before == {i \in DOMAIN s.queue : Before(s, s.queue[i], n)}
         IN  [s EXCEPT !.queue = InsertAt(@, 1 + Cardinality(before), n)]

\* mutant: the parent is not taken out before its key changes
RemoveExploreArea_Not(s, n) == s

RemoveExploreArea(s, n) ==
    IF n \notin ToSet(s.queue) THEN s
    ELSE LET p == CHOOSE i \in DOMAIN s.queue : s.queue[i] = n
         IN  [s EXCEPT !.queue = RemoveAt(@, p)]

\* addChild for each part of an area, that counts them in one by one
Cut(nodes, n, areas, count) ==
    LET node == nodes[n]
        sizes == [k \in DOMAIN areas |-> Size(areas[k])]
        ids == [k \in DOMAIN areas |-> Len(nodes) + k]
    IN  [nodes EXCEPT ![n] =
            [node EXCEPT !.children = @ \o ids,
                         !.nonExploredSize = @ + SumFunction(sizes),
                         !.nonExploredCnt = @ + count]]
        \o [k \in DOMAIN areas |-> Node(n, areas[k], node.exploreDepth + 1, 0)]

\* mutant: the children are not counted
AddChildren_NoCount(s, n, areas) ==
    [s EXCEPT !.tree = Cut(@, n, areas, 0)]

AddChildren(s, n, areas) ==
    [s EXCEPT !.tree = Cut(@, n, areas, Len(areas))]

\* mutant: always with the very last child
SwapToEnd_Last(children, i, swaps) ==
    LET j == Len(children)
    IN  [children EXCEPT ![i] = children[j], ![j] = children[i]]

\* the child explored last changes places with the last child unexplored
SwapToEnd(children, i, swaps) ==
    LET j == Len(children) - swaps
    IN  [children EXCEPT ![i] = children[j], ![j] = children[i]]

CountExplored(node, i, child) ==
    [node EXCEPT !.exploredTreasures = @ + child.actual,
                 !.nonExploredSize = @ - Size(child.area),
                 !.nonExploredCnt = @ - 1,
                 !.children = SwapToEnd(@, i, node.childSwaps),
                 !.childSwaps = @ + 1]

UpdateChildExplored(s, n, child) ==
    LET children == s.tree[n].children
        i == CHOOSE k \in DOMAIN children : children[k] = child
    IN  [s EXCEPT !.tree[child].requestInFlight = FALSE,
                  !.tree[n] = CountExplored(@, i, s.tree[child])]

\* the positions of the children nobody asked for yet
Candidates(s, n) ==
    {i \in DOMAIN s.tree[n].children :
        LET child == s.tree[s.tree[n].children[i]]
        IN  ~child.explored /\ ~child.requestInFlight}

\* getChildForRequest leaves one child to be deduced
HasChildForRequest(s, n) == Cardinality(Candidates(s, n)) >= 2

ChildForRequest(s, n) == s.tree[n].children[Min(Candidates(s, n))]

LastNonExploredChild(s, n) ==
    CHOOSE child \in ToSet(s.tree[n].children) : ~s.tree[child].explored

-----------------------------------------------------------------------------
(***************************************************************************)
(* class App                                                               *)
(***************************************************************************)

\* setLeftTreasuriesAmount and the first dig of the cell
StartDigging(s, area, amount) ==
    [s EXCEPT !.found = Append(@, [cell |-> <<area.x, area.y>>,
                                   amount |-> amount])]

(***************************************************************************)
(* processExploredArea calls itself, at its end and through createSubAreas, *)
(* for an area that has one part only. A call is the client it finds, the  *)
(* area and what that holds; area 0 stands for no further call. Each call  *)
(* is for an area cut by the next row of the table, so that there are no   *)
(* more calls than rows.                                                   *)
(***************************************************************************)
Call(s, n, amount) == [client |-> s, area |-> n, amount |-> amount]
Return(s) == Call(s, 0, 0)

\* an area with one part has that part deduced at once
CreateSubAreas(s, n) ==
    LET t == AddChildren(s, n, SubAreas(s.tree[n].area, s.tree[n].exploreDepth))
    IN  IF t.tree[n].nonExploredCnt = 1
        THEN Call(t, LastNonExploredChild(t, n), Left(t, n))
        ELSE Return(AddExploreArea(t, n))

\* the area is explored: its parent is out of the queue while its key changes
SetExplored(s, n, amount) ==
    LET p == s.tree[n].parent
        t == UpdateChildExplored(
                 RemoveExploreArea([s EXCEPT !.tree[n].actual = amount,
                                             !.tree[n].explored = TRUE], p),
                 p, n)
    IN  IF Left(t, p) # 0 THEN AddExploreArea(t, p) ELSE t

\* what an explored area with treasures leads to
Pursue(s, n) ==
    LET node == s.tree[n]
    IN  IF node.actual = 0 THEN Return(s)
        ELSE IF Size(node.area) = 1
        THEN Return(StartDigging(s, node.area, node.actual))
        ELSE CreateSubAreas(s, n)

Process(call) ==
    IF call.area = 0 THEN call
    ELSE IF call.client.tree[call.area].explored THEN Return(call.client)
    ELSE Pursue(SetExplored(call.client, call.area, call.amount), call.area)

ProcessAll(call) ==
    LET after[k \in 0..Len(ExploreAreas)] ==
            IF k = 0 THEN call ELSE Process(after[k - 1])
    IN  after[Len(ExploreAreas)].client

ProcessExploredArea(s, n, amount) == ProcessAll(Call(s, n, amount))

\* mutant: the area is not marked as asked for
ScheduleNextExplore_NoMark(s) ==
    LET able == {i \in DOMAIN s.queue : HasChildForRequest(s, s.queue[i])}
    IN  IF able = {} THEN [s EXCEPT !.status = "crashed"]
        ELSE LET child == ChildForRequest(s, s.queue[Min(able)])
             IN  [s EXCEPT !.calls = @ \cup {child}]

\* fetchNextExploreArea and scheduleExplore: with no area to ask for a null
\* pointer is scheduled, and the worker that takes it crashes
ScheduleNextExplore(s) ==
    LET able == {i \in DOMAIN s.queue : HasChildForRequest(s, s.queue[i])}
    IN  IF able = {} THEN [s EXCEPT !.status = "crashed"]
        ELSE LET child == ChildForRequest(s, s.queue[Min(able)])
             IN  [s EXCEPT !.tree[child].requestInFlight = TRUE,
                           !.calls = @ \cup {child}]

\* mutant: the last part is asked for, not deduced
ProcessExploreResponse_NoDeduction(s, n, amount) ==
    ScheduleNextExplore(ProcessExploredArea(s, n, amount))

ProcessExploreResponse(s, n, amount) ==
    LET t == ProcessExploredArea(s, n, amount)
        p == t.tree[n].parent
        u == IF t.tree[p].nonExploredCnt = 1
             THEN ProcessExploredArea(t, LastNonExploredChild(t, p), Left(t, p))
             ELSE t
    IN  ScheduleNextExplore(u)

Start == [tree |-> <<Node(0, Field, 0, Nominal)>>, queue |-> <<>>, calls |-> {},
          found |-> <<>>, status |-> "running"]

\* fireInitRequests
Fired ==
    LET after[k \in 0..Concurrent] ==
            IF k = 0 THEN ProcessAll(CreateSubAreas(Start, Root))
            ELSE ScheduleNextExplore(after[k - 1])
    IN  after[Concurrent]

-----------------------------------------------------------------------------
Client == [tree |-> tree, queue |-> queue, calls |-> calls, found |-> found,
           status |-> status]

Become(s) == /\ tree' = s.tree /\ queue' = s.queue /\ calls' = s.calls
             /\ found' = s.found /\ status' = s.status

Init == /\ tree = Fired.tree /\ queue = Fired.queue /\ calls = Fired.calls
        /\ found = Fired.found /\ status = Fired.status
        /\ replies = {}
        /\ counts = Treasures
        /\ refused = 0

\* the server answers a call
Answer(n) == /\ status = "running"
             /\ calls' = calls \ {n}
             /\ replies' = replies \cup
                    {[id |-> n, status |-> 200,
                      amount |-> TreasuresIn(counts, tree[n].area)]}
             /\ UNCHANGED <<tree, queue, found, counts, status, refused>>

\* the server, or its rate limiter, answers with an error
Refuse(n) == /\ status = "running"
             /\ refused < MaxRefused
             /\ refused' = refused + 1
             /\ calls' = calls \ {n}
             /\ replies' = replies \cup
                    {[id |-> n, status |-> 429, amount |-> 0]}
             /\ UNCHANGED <<tree, queue, found, counts, status>>

\* processExploreResponse
Handle(reply) ==
    /\ status = "running"
    /\ replies' = replies \ {reply}
    /\ IF reply.status # 200
       THEN Become([Client EXCEPT !.calls = @ \cup {reply.id}])
       ELSE Become(ProcessExploreResponse(Client, reply.id, reply.amount))
    /\ UNCHANGED <<counts, refused>>

\* a treasure of a cell that was handed over is dug up
Dig(c) == /\ \E i \in DOMAIN found : found[i].cell = c
          /\ counts[c] > 0
          /\ counts' = [counts EXCEPT ![c] = @ - 1]
          /\ UNCHANGED <<tree, queue, calls, replies, found, status, refused>>

Next == \/ \E n \in calls : Answer(n) \/ Refuse(n)
        \/ \E reply \in replies : Handle(reply)
        \/ \E c \in Cells : Dig(c)

Spec == Init /\ [][Next]_vars

-----------------------------------------------------------------------------
Ids == DOMAIN tree
Children(n) == ToSet(tree[n].children)
Asked == calls \cup {reply.id : reply \in replies}

(***************************************************************************)
(* Every variable has its type. The sizes and numbers of children never    *)
(* go below zero; the differences of treasures may, see above.             *)
(***************************************************************************)
AreaNode == [parent : 0..Len(tree), area : [x : Nat, y : Nat, sizeX : Nat \ {0},
                                            sizeY : Nat \ {0}],
             exploreDepth : 0..Len(ExploreAreas), actual : Int,
             explored : BOOLEAN, requestInFlight : BOOLEAN,
             children : Seq(1..Len(tree)), childSwaps : Nat,
             exploredTreasures : Int, nonExploredSize : Nat,
             nonExploredCnt : Nat]

TypeOK == /\ tree \in Seq(AreaNode)
          /\ queue \in Seq(Ids)
          /\ calls \in SUBSET Ids
          /\ replies \subseteq [id : Ids, status : {200, 429}, amount : Nat]
          /\ found \in Seq([cell : Cells, amount : Int])
          /\ counts \in [Cells -> Nat]
          /\ status \in {"running", "crashed"}
          /\ refused \in 0..MaxRefused

(***************************************************************************)
(* The queue is in order although the keys of its elements change: an area *)
(* is out of the queue whenever its expected number of treasures changes.  *)
(* std::set would be corrupted otherwise; the debug build asserts it       *)
(* (state.cpp:8-13).                                                       *)
(***************************************************************************)
QueueSorted == \A i, j \in DOMAIN queue :
                   i < j => Before(Client, queue[i], queue[j])

(***************************************************************************)
(* The queue holds the areas worth exploring further, all of them and no   *)
(* other: those that were cut and have treasures not located yet.          *)
(***************************************************************************)
QueueExact == \A n \in Ids : n \in ToSet(queue)
                  <=> tree[n].children # <<>> /\ Left(Client, n) # 0

(***************************************************************************)
(* The counters of an area agree with its children, and the explored       *)
(* children are the last ones, where iter_swap has moved them              *)
(* (api_entities.h:148-165).                                               *)
(***************************************************************************)
NodeSums ==
    \A n \in Ids :
        LET node == tree[n]
            explored == {c \in Children(n) : tree[c].explored}
            waiting == Children(n) \ explored
        IN  /\ node.exploredTreasures =
                   SumFunction([c \in explored |-> tree[c].actual])
            /\ node.nonExploredSize =
                   SumFunction([c \in waiting |-> Size(tree[c].area)])
            /\ node.nonExploredCnt = Cardinality(waiting)
            /\ \A i \in DOMAIN node.children :
                   tree[node.children[i]].explored
                       <=> i > Len(node.children) - node.childSwaps

(***************************************************************************)
(* The client believes of every area it asked for what the area held at    *)
(* first, although cells are dug meanwhile. Only a deduced count can be    *)
(* wrong, and it is by as much as the area that it is a part of; so the    *)
(* error of the nominal count, that of the root, is handed down from one   *)
(* deduced area to the next and never spreads: at most one cell is handed  *)
(* over with a wrong number of treasures, none if the nominal count is     *)
(* right. And each cell is handed over once (app.cpp:40, 143-168, 188-195).*)
(***************************************************************************)
Surplus(n) == tree[n].actual - TreasuresIn(Treasures, tree[n].area)

CountsExact ==
    LET wrong == {i \in DOMAIN found : found[i].amount # Treasures[found[i].cell]}
    IN  /\ \A n \in Ids : tree[n].nonExploredCnt # 0 =>
               \A c \in Children(n) : tree[c].explored => Surplus(c) = 0
        /\ \A n \in Ids : tree[n].nonExploredCnt = 0 /\ tree[n].children # <<>> =>
               \E last \in Children(n) : \A c \in Children(n) :
                   Surplus(c) = IF c = last THEN Surplus(n) ELSE 0
        /\ \A i, j \in wrong : i = j
        /\ Nominal = TreasuresIn(Treasures, Field) => wrong = {}
        /\ \A i, j \in DOMAIN found : found[i].cell = found[j].cell => i = j

(***************************************************************************)
(* The client keeps the same number of explore calls under way, each for   *)
(* an area of its own; an unexplored area is marked as requested exactly   *)
(* while a call for it is under way.                                       *)
(***************************************************************************)
CallsInStep ==
    status = "running" =>
        /\ Cardinality(calls) + Cardinality(replies) = Concurrent
        /\ Cardinality(Asked) = Concurrent
        /\ \A n \in Ids : tree[n].requestInFlight
                             <=> n \in Asked /\ ~tree[n].explored

(***************************************************************************)
(* No part is left to be asked for that could be deduced: an area never    *)
(* has a single unexplored part, and never are all its unexplored parts    *)
(* asked for.                                                              *)
(***************************************************************************)
LastIsDeduced ==
    \A n \in Ids :
        /\ tree[n].nonExploredCnt # 1
        /\ tree[n].nonExploredCnt # 0 =>
               \E c \in Children(n) : ~tree[c].explored /\ c \notin Asked

(***************************************************************************)
(* fetchNextExploreArea always finds an area to ask for (the assertion of  *)
(* state.cpp:22).                                                          *)
(* FALSE of this code when the exploration ends: see README, Findings.     *)
(***************************************************************************)
AlwaysNextArea == status # "crashed"
=============================================================================
