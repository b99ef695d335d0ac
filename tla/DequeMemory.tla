----------------------------- MODULE DequeMemory ----------------------------
(***************************************************************************)
(* The memory of the two concurrent lists of the multicore backend         *)
(* (honei/backends/multicore/cas_deque.hh, concurrent_deque.hh): doubly    *)
(* linked elements, two ends, a lock per end, and the calls in progress.   *)
(* CASDeque and ConcurrentDeque give the steps of a call.                  *)
(*                                                                         *)
(* In CASDeque an end is a CASDequeEndElement whose members _elem and      *)
(* _next (_prev) are volatile, the lock its flag _blocked; in              *)
(* ConcurrentDeque an end is a pointer, elem here, and the lock a mutex.   *)
(* Memory is sequentially consistent.                                      *)
(***************************************************************************)
EXTENDS Integers, Sequences, FiniteSets

CONSTANTS
    Threads,   \* threads with calls on the list: enqueuers, its owner, thieves
    Uses,      \* which of the two lists to consider, and who calls what on it
    NumTasks,  \* how many different tasks there are: a bound
    NumNodes,  \* how many addresses new has for elements: a bound
    Nobody,    \* nobody has a lock
    Lengths,   \* lengths the list may have at first: a bound
    MaxCalls   \* calls there are: a bound

Tasks == 1..NumTasks  \* the T of the list: pointers to tasks
NoTask == 0           \* the null T
Nodes == 1..NumNodes  \* pointers to elements
Null == 0

VARIABLES
    use,       \* the list and its users
    head,      \* the front end: its first element and that one's successor
    tail,      \* the back end: its last element and that one's predecessor
    node,      \* the elements
    heap,      \* the elements that are allocated
    lock,      \* who has each end
    thread,    \* the call each thread is in
    calls      \* calls so far

memory == <<head, tail, node, heap, lock>>
vars == <<use, memory, thread, calls>>

Operations == {"push_back", "pop_front", "pop_back"}

(* list is "cas" or "mutex"; may says what each thread calls.              *)
ASSUME UsesAssumption ==
    Uses \subseteq [list : {"cas", "mutex"}, may : [Threads -> SUBSET Operations]]

ASSUME NobodyAssumption == Nobody \notin Threads

(* The elements of the first list, and their tasks, are among the bounded. *)
ASSUME BoundsAssumption ==
    /\ NumTasks \in Nat /\ NumNodes \in Nat /\ MaxCalls \in Nat
    /\ \A n \in Lengths : n \in 0..NumNodes /\ n \in 0..NumTasks

(* at: where it is in the call; case: how many elements it takes the list  *)
(* to have; node: the element it adds or takes; reg: a pointer it has read *)
(* and not compared or stored yet.                                         *)
Idle == [op |-> "none", at |-> "out", case |-> "none", task |-> NoTask, node |-> Null, reg |-> Null]

Pointer == Nodes \cup {Null}

Cases == {"zero", "one", "two", "three", "more"}

(* Where a call may be: in either list, behind mutexes, and, in CASDeque,  *)
(* before it has a guess, with a guess, with what that takes, and among    *)
(* its writes.                                                             *)
Places == {"out", "called", "write", "write2", "write3", "unlock", "done"}
          \cup {"back", "look"}
          \cup {"zero?", "one?", "one??", "more?", "more??", "two?", "two??", "two???", "two????",
                "three?", "three??", "more!", "more!!"}
          \cup Cases \cup {"head", "check", "check2", "check3", "retreat"}
          \cup {"fetch", "link", "load"}

TypeOK ==
    /\ use \in Uses
    /\ head \in [elem : Pointer, next : Pointer]
    /\ tail \in [elem : Pointer, prev : Pointer]
    /\ node \in [Nodes -> [prev : Pointer, next : Pointer, data : Tasks \cup {NoTask}]]
    /\ heap \subseteq Nodes
    /\ lock \in [{"head", "tail"} -> Threads \cup {Nobody}]
    /\ thread \in [Threads -> [op : Operations \cup {"none"}, at : Places, case : Cases \cup {"none"},
                               task : Tasks \cup {NoTask}, node : Pointer, reg : Pointer]]
    /\ calls \in 0..MaxCalls

Busy(p) == thread[p].op # "none"

InUse == {node[x].data : x \in heap} \cup {thread[p].task : p \in Threads}

(* A list as n calls of push_back leave it.                                *)
Init ==
    /\ use \in Uses
    /\ \E n \in Lengths :
         LET At(x) == IF x \in 1..n THEN x ELSE Null
         IN  /\ heap = 1..n
             /\ node = [x \in Nodes |->
                          IF x \in heap THEN [prev |-> At(x - 1), next |-> At(x + 1), data |-> x]
                          ELSE [prev |-> Null, next |-> Null, data |-> NoTask]]
             /\ head = [elem |-> At(1), next |-> IF use.list = "cas" THEN At(2) ELSE Null]
             /\ tail = [elem |-> At(n), prev |-> IF use.list = "cas" THEN At(n - 1) ELSE Null]
    /\ lock = [end \in {"head", "tail"} |-> Nobody]
    /\ thread = [p \in Threads |-> Idle]
    /\ calls = 0

-----------------------------------------------------------------------------
(* A thread calls an operation, and allocates the element for a push: the  *)
(* allocator gives out freed addresses first.  That a task and an address  *)
(* are left is a bound.                                                    *)
Lowest(S) == CHOOSE x \in S : \A y \in S : x <= y

CallPush(p) ==
    /\ ~Busy(p)
    /\ "push_back" \in use.may[p]
    /\ calls < MaxCalls
    /\ heap # Nodes /\ Tasks \ InUse # {}
    /\ calls' = calls + 1
    /\ LET x == Lowest(Nodes \ heap)
           t == Lowest(Tasks \ InUse)
       IN  /\ heap' = heap \cup {x}
           /\ node' = [node EXCEPT ![x] = [prev |-> Null, next |-> Null, data |-> t]]
           /\ thread' = [thread EXCEPT ![p] =
                           [Idle EXCEPT !.op = "push_back", !.at = "called", !.task = t, !.node = x]]
    /\ UNCHANGED <<use, head, tail, lock>>

CallPop(p) ==
    /\ ~Busy(p)
    /\ calls < MaxCalls
    /\ calls' = calls + 1
    /\ \E o \in use.may[p] \ {"push_back"} :
         thread' = [thread EXCEPT ![p] = [Idle EXCEPT !.op = o, !.at = "called"]]
    /\ UNCHANGED <<use, memory>>

(* A pop deletes the element it has taken (deleting null does nothing).    *)
Return(p) ==
    /\ thread[p].at = "done"
    /\ heap' = IF thread[p].op = "push_back" THEN heap ELSE heap \ {thread[p].node}
    /\ thread' = [thread EXCEPT ![p] = Idle]
    /\ UNCHANGED <<use, head, tail, node, lock, calls>>

-----------------------------------------------------------------------------
Goes(p, at) == thread' = [thread EXCEPT ![p].at = at]

(* One write to shared memory, by a thread that goes to at.                *)
Put(p, h, t, n, at) ==
    /\ head' = h /\ tail' = t /\ node' = n
    /\ Goes(p, at)
    /\ UNCHANGED <<use, heap, lock, calls>>

(* The same when the thread takes the element x out of the list.           *)
PutTaking(p, h, t, n, at, x) ==
    /\ head' = h /\ tail' = t /\ node' = n
    /\ thread' = [thread EXCEPT ![p].at = at, ![p].node = x, ![p].task = node[x].data]
    /\ UNCHANGED <<use, heap, lock, calls>>

Unlock(p, end) == lock' = [lock EXCEPT ![end] = Nobody]
=============================================================================
