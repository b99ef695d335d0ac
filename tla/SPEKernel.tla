----------------------------- MODULE SPEKernel -----------------------------
(***************************************************************************)
(* An SPE of the Cell backend, with the ring of instructions between a     *)
(* kernel on the PPE and the program on the SPE                            *)
(* (honei/backends/cell: ppe/spe_kernel.cc, spe.cc, spe_manager.cc and     *)
(* spe/kernels/stand_alone-kernel.cc.in).                                  *)
(*                                                                         *)
(* Four threads meet: a client in SPEManager::dispatch, under the mutex of *)
(* the manager; the SPE's thread on the PPE, which loads the kernel; the   *)
(* kernel thread, which handles the mail of the SPE; and the SPE itself.   *)
(* A section under the kernel's mutex is one step.  The mutex of the SPE,  *)
(* which kernel() and signal() take, is held for more than a step by the   *)
(* loading thread only, the kernel's by a client that wants to signal.     *)
(***************************************************************************)
EXTENDS Integers, Sequences, FiniteSets

CONSTANTS
    Ring,       \* places of the ring: 8
    Instrs,     \* the instructions there are: a bound on the work
    Answers,    \* those with a result: km_result_dword
    Kernels,    \* the programs for the SPE
    Knows,      \* the instructions each of them has an opcode for
    Clients,    \* threads that call the manager
    Batches,    \* the SPEInstructionQueues clients may use
    Straight,   \* batches go to a loaded kernel, and not around the ring's end
    Prompt,     \* a result is in the mailbox when its mail is handled
    Noop, Halt, \* oc_noop, oc_halt
    None        \* the null pointer, an empty mailbox

Slots == 0..(Ring - 1)

ASSUME RingAssumption == Ring \in Nat /\ Ring > 1
ASSUME InstrsAssumption == Instrs \cap {Noop, Halt, None} = {} /\ Answers \subseteq Instrs
ASSUME OpcodesAssumption == Noop # Halt /\ None # Halt /\ None \notin {"result", "finished"}
ASSUME KernelsAssumption ==
    /\ Knows \in [Kernels -> SUBSET Instrs]
    /\ \A i \in Instrs : \E k \in Kernels : i \in Knows[k]
ASSUME BatchesAssumption ==
    \A b \in Batches : /\ b \in Seq(Instrs) /\ b # <<>>
                       /\ \A m, n \in 1..Len(b) : b[m] = b[n] => m = n
ASSUME DisciplineAssumption == Straight \in BOOLEAN /\ Prompt \in BOOLEAN

VARIABLES
    kernel,      \* the program in the SPE
    ring,        \* instructions: what the SPE will fetch
    posted,      \* spe_instructions: whom to tell
    index,       \* spe_instruction_index
    free,        \* next_free_index
    loaded,      \* spe # 0
    initial,     \* initial_instructions
    ppe,         \* where the kernel thread is
    loader,      \* where the SPE's thread on the PPE is
    spu,         \* the SPE: where it is, its instruction, its copy of the ring
    signal,      \* the signal register
    mail,        \* the interrupt mailbox, which holds one mail
    outbox,      \* the mailbox for results, which holds one word
    answer,      \* the memory the results go to
    executed,    \* the instructions whose operation was carried out
    finished,    \* the instructions that have been told so, Halt included
    client,      \* where each client is in dispatch(), what it has to enqueue
    outstanding  \* the instructions each client has to wait for

queue == <<ring, posted, index, free, initial>>
threads == <<ppe, loader, loaded>>
lines == <<signal, mail, outbox>>
clients == <<client, outstanding>>
vars == <<kernel, queue, threads, spu, lines, answer, executed, finished, clients>>
-----------------------------------------------------------------------------
Places == {"free", "prepare", "kernel", "enqueue", "signal", "halting", "run", "left"}

TypeOK ==
    /\ kernel \in Kernels
    /\ ring \in [Slots -> Instrs \cup {Noop, Halt}]
    /\ posted \in [Slots -> Instrs \cup {Halt, None}]
    /\ index \in Slots /\ free \in Slots
    /\ loaded \in BOOLEAN /\ initial \in BOOLEAN
    /\ ppe \in {"start", "sync", "event", "finish", "result", "gone"}
    /\ loader \in {"start", "sync", "run", "gone"}
    /\ spu \in [at : {"off", "ready", "fetch", "walk", "execute", "result", "answer",
                      "mail", "unknown", "stopped"},
                task : Instrs \cup {Halt, None},
                copy : [Slots -> Instrs \cup {Noop, Halt}]]
    /\ signal \in BOOLEAN
    /\ mail \in {"result", "finished", None}
    /\ outbox \in Instrs \cup {None}
    /\ answer \in [Answers -> Instrs \cup {None}]
    /\ executed \subseteq Instrs
    /\ finished \subseteq Instrs \cup {Halt}
    /\ client \in [Clients -> [at : Places, todo : Seq(Instrs \cup {Halt}),
                               call : {"none", "single", "batch", "destroy"}]]
    /\ outstanding \in [Clients -> SUBSET Instrs]

EmptyRing == [s \in Slots |-> Noop]

Free == [at |-> "free", todo |-> <<>>, call |-> "none"]

Off == [at |-> "off", task |-> None, copy |-> EmptyRing]

(* SPEKernel's constructor, and SPE::run() up to the start of its thread.  *)
(* Mails and signals of the old context are gone.                          *)
Started(k) ==
    /\ kernel' = k
    /\ ring' = EmptyRing /\ posted' = [s \in Slots |-> None]
    /\ index' = 0 /\ free' = 0 /\ initial' = FALSE
    /\ loaded' = FALSE /\ ppe' = "start" /\ loader' = "start" /\ spu' = Off
    /\ signal' = FALSE /\ mail' = None /\ outbox' = None
    /\ finished' = finished \ {Halt}

(* The manager's constructor has run a kernel in the SPE.                  *)
Init ==
    /\ kernel \in Kernels
    /\ ring = EmptyRing /\ posted = [s \in Slots |-> None]
    /\ index = 0 /\ free = 0 /\ initial = FALSE
    /\ loaded = FALSE /\ ppe = "start" /\ loader = "start" /\ spu = Off
    /\ signal = FALSE /\ mail = None /\ outbox = None
    /\ answer = [i \in Answers |-> None]
    /\ executed = {} /\ finished = {}
    /\ client = [c \in Clients |-> Free]
    /\ outstanding = [c \in Clients |-> {}]

KernelIsFree == \A c \in Clients : client[c].at # "signal"
SPEIsFree == loader # "sync"

Load == (free - index) % Ring
Full == index = (free + 1) % Ring
-----------------------------------------------------------------------------
(* The SPE's thread, in SPEKernel::load().  Its start signal is for what   *)
(* was enqueued before there was an SPE to signal to.                      *)

\* Mutant: without the start signal.
GoOnSilently == /\ loader' = "run"
                /\ spu' = [spu EXCEPT !.at = "ready"]
                /\ initial' = FALSE
                /\ UNCHANGED signal

GoOn == /\ loader' = "run"
        /\ spu' = [spu EXCEPT !.at = "ready"]
        /\ signal' = (signal \/ initial)
        /\ initial' = FALSE

LoadKernel ==
    /\ loader = "start" /\ KernelIsFree
    /\ loaded' = TRUE
    /\ IF ppe = "sync" THEN GoOn
       ELSE loader' = "sync" /\ UNCHANGED <<spu, signal, initial>>
    /\ UNCHANGED <<kernel, ring, posted, index, free, ppe, mail, outbox, answer, executed,
                   finished, clients>>

Synchronised ==
    /\ loader = "sync" /\ ppe # "start" /\ KernelIsFree
    /\ GoOn
    /\ UNCHANGED <<kernel, ring, posted, index, free, ppe, loaded, mail, outbox, answer,
                   executed, finished, clients>>

-----------------------------------------------------------------------------
(* The program in the SPE.                                                 *)

Fetch ==
    /\ spu.at = "ready" /\ signal
    /\ signal' = FALSE
    /\ spu' = [spu EXCEPT !.at = "fetch"]
    /\ UNCHANGED <<kernel, queue, threads, mail, outbox, answer, executed, finished, clients>>

Fetched ==
    /\ spu.at = "fetch"
    /\ spu' = [spu EXCEPT !.at = "walk", !.copy = ring]
    /\ UNCHANGED <<kernel, queue, threads, lines, answer, executed, finished, clients>>

Left == {s \in Slots : spu.copy[s] # Noop}

\* Mutant: from the last place to the first.
LastLeft == CHOOSE s \in Left : \A r \in Left : r <= s

FirstLeft == CHOOSE s \in Left : \A r \in Left : s <= r

(* The copy is walked through from its first place to its last.            *)
Walk ==
    LET op == spu.copy[FirstLeft] IN
    /\ spu.at = "walk"
    /\ spu' = IF Left = {} THEN [spu EXCEPT !.at = "ready"]
              ELSE [at   |-> CASE op = Halt -> "mail"
                               [] op \in Knows[kernel] -> "execute"
                               [] OTHER -> "unknown",
                    task |-> op,
                    copy |-> [spu.copy EXCEPT ![FirstLeft] = Noop]]
    /\ UNCHANGED <<kernel, queue, threads, lines, answer, executed, finished, clients>>

Execute ==
    /\ spu.at = "execute"
    /\ executed' = executed \cup {spu.task}
    /\ spu' = [spu EXCEPT !.at = IF spu.task \in Answers THEN "result" ELSE "mail"]
    /\ UNCHANGED <<kernel, queue, threads, lines, answer, finished, clients>>

(* The mail that a result comes is sent before the result.                 *)
MailResult ==
    /\ spu.at = "result" /\ mail = None
    /\ mail' = "result"
    /\ spu' = [spu EXCEPT !.at = "answer"]
    /\ UNCHANGED <<kernel, queue, threads, signal, outbox, answer, executed, finished, clients>>

WriteResult ==
    /\ spu.at = "answer" /\ outbox = None
    /\ outbox' = spu.task
    /\ spu' = [spu EXCEPT !.at = "mail"]
    /\ UNCHANGED <<kernel, queue, threads, signal, mail, answer, executed, finished, clients>>

(* Every instruction ends with a mail; after a halt the SPE's thread ends. *)
MailFinished ==
    /\ spu.at = "mail" /\ mail = None
    /\ mail' = "finished"
    /\ IF spu.task = Halt
       THEN spu' = [Off EXCEPT !.at = "stopped"] /\ loader' = "gone"
       ELSE spu' = [spu EXCEPT !.at = "walk", !.task = None] /\ UNCHANGED loader
    /\ UNCHANGED <<kernel, queue, ppe, loaded, signal, outbox, answer, executed, finished,
                   clients>>
-----------------------------------------------------------------------------
(* The kernel thread.                                                      *)

StartThread ==
    /\ ppe = "start" /\ KernelIsFree
    /\ ppe' = IF loaded THEN "event" ELSE "sync"
    /\ UNCHANGED <<kernel, queue, loader, loaded, spu, lines, answer, executed, finished,
                   clients>>

KernelLoaded ==
    /\ ppe = "sync" /\ loaded /\ KernelIsFree
    /\ ppe' = "event"
    /\ UNCHANGED <<kernel, queue, loader, loaded, spu, lines, answer, executed, finished,
                   clients>>

ReadMail ==
    /\ ppe = "event" /\ mail # None
    /\ ppe' = IF mail = "finished" THEN "finish" ELSE "result"
    /\ mail' = None
    /\ UNCHANGED <<kernel, queue, loader, loaded, spu, signal, outbox, answer, executed,
                   finished, clients>>

(* km_result_dword: the result, if there is one, goes to the instruction   *)
(* the kernel thread believes is being executed.                           *)
Result ==
    /\ ppe = "result" /\ KernelIsFree
    /\ Prompt => outbox # None
    /\ ppe' = "event"
    /\ answer' = IF outbox # None /\ ring[index] \in Answers
                 THEN [answer EXCEPT ![ring[index]] = outbox] ELSE answer
    /\ outbox' = None
    /\ UNCHANGED <<kernel, queue, loader, loaded, spu, signal, mail, executed, finished,
                   clients>>

Told == finished \cup ({posted[index]} \ {None})

\* Mutant: without the modulo.
FinishedPastTheEnd ==
    /\ ppe = "finish" /\ KernelIsFree
    /\ ppe' = "event"
    /\ ring' = [ring EXCEPT ![index] = Noop]
    /\ posted' = [posted EXCEPT ![index] = None]
    /\ finished' = Told
    /\ index' = index + 1
    /\ UNCHANGED <<kernel, free, initial, loader, loaded, spu, lines, answer, executed,
                   clients>>

\* Mutant: the instruction stays on the ring.
FinishedWithoutNoop ==
    /\ ppe = "finish" /\ KernelIsFree
    /\ ppe' = "event"
    /\ posted' = [posted EXCEPT ![index] = None]
    /\ finished' = Told
    /\ index' = (index + 1) % Ring
    /\ UNCHANGED <<kernel, ring, free, initial, loader, loaded, spu, lines, answer, executed,
                   clients>>

(* km_instruction_finished.                                                *)
Finished ==
    /\ ppe = "finish" /\ KernelIsFree
    /\ ppe' = "event"
    /\ ring' = [ring EXCEPT ![index] = Noop]
    /\ posted' = [posted EXCEPT ![index] = None]
    /\ finished' = Told
    /\ index' = (index + 1) % Ring
    /\ UNCHANGED <<kernel, free, initial, loader, loaded, spu, lines, answer, executed,
                   clients>>

(* SPE_EVENT_SPE_STOPPED, which may be seen before the last mail.          *)
Stopped ==
    /\ ppe = "event" /\ spu.at = "stopped" /\ KernelIsFree
    /\ ppe' = "gone"
    /\ finished' = finished \cup ({posted[s] : s \in Slots} \ {None})
    /\ UNCHANGED <<kernel, queue, loader, loaded, spu, lines, answer, executed, clients>>
-----------------------------------------------------------------------------
(* The clients, in SPEManager.                                             *)

Idle(c) == client[c].at \in {"free", "left"}
Quiet == \A c \in Clients : Idle(c)  \* nobody has the manager's mutex
MayCall(c) == client[c] = Free /\ Quiet /\ \A d \in Clients : client[d].at # "left"

New(i) == /\ i \notin finished
          /\ \A c \in Clients : i \notin outstanding[c]

MayBatch(b) ==
    Straight => /\ loader = "run" /\ Load = 0
                /\ b[1] \in Knows[kernel]
                /\ free + Len(b) <= Ring /\ Len(b) < Ring

Dispatch(c, i) ==
    /\ MayCall(c) /\ New(i)
    /\ client' = [client EXCEPT ![c] = [at |-> "prepare", todo |-> <<i>>, call |-> "single"]]
    /\ outstanding' = [outstanding EXCEPT ![c] = @ \cup {i}]
    /\ UNCHANGED <<kernel, queue, threads, spu, lines, answer, executed, finished>>

DispatchBatch(c, b) ==
    /\ MayCall(c) /\ MayBatch(b) /\ \A n \in 1..Len(b) : New(b[n])
    /\ client' = [client EXCEPT ![c] = [at |-> "prepare", todo |-> b, call |-> "batch"]]
    /\ outstanding' = [outstanding EXCEPT ![c] = @ \cup {b[n] : n \in 1..Len(b)}]
    /\ UNCHANGED <<kernel, queue, threads, spu, lines, answer, executed, finished>>

(* ~SPEManager(), when nothing is under way any more.                      *)
Destroy(c) ==
    /\ MayCall(c) /\ \A d \in Clients : outstanding[d] = {}
    /\ client' = [client EXCEPT ![c] = [at |-> "kernel", todo |-> <<Halt>>, call |-> "destroy"]]
    /\ UNCHANGED <<kernel, queue, threads, spu, lines, answer, executed, finished, outstanding>>

\* Mutant: an SPE that is not idle is taken.
PrepareAtOnce(c) ==
    LET first == client[c].todo[1] IN
    /\ client[c].at = "prepare" /\ SPEIsFree
    /\ client' = [client EXCEPT ![c].at = "kernel",
                                ![c].todo = IF first \in Knows[kernel] THEN @ ELSE <<Halt>> \o @]
    /\ UNCHANGED <<kernel, queue, threads, spu, lines, answer, executed, finished, outstanding>>

(* prepare_spe(): wait until the SPE is idle; if it does not know the      *)
(* opcode it is halted first.                                              *)
Prepare(c) ==
    LET first == client[c].todo[1] IN
    /\ client[c].at = "prepare" /\ SPEIsFree
    /\ Load = 0
    /\ client' = [client EXCEPT ![c].at = "kernel",
                                ![c].todo = IF first \in Knows[kernel] THEN @ ELSE <<Halt>> \o @]
    /\ UNCHANGED <<kernel, queue, threads, spu, lines, answer, executed, finished, outstanding>>

GetKernel(c) ==
    /\ client[c].at = "kernel" /\ SPEIsFree
    /\ client' = [client EXCEPT ![c].at = "enqueue"]
    /\ UNCHANGED <<kernel, queue, threads, spu, lines, answer, executed, finished, outstanding>>

InBatch(c) == client[c].call = "batch" /\ client[c].todo[1] # Halt

Put(i) == /\ ring' = [ring EXCEPT ![free] = i]
          /\ posted' = [posted EXCEPT ![free] = i]
          /\ free' = (free + 1) % Ring
          /\ initial' = (initial \/ ~loaded)
          /\ UNCHANGED index

(* Where a client is when its first instruction is on the ring and the SPE *)
(* has been signalled.                                                     *)
Enqueued(cl) ==
    CASE cl.todo[1] = Halt -> [cl EXCEPT !.at = "halting"]
      [] OTHER -> Free

(* enqueue() keeps the kernel's mutex to signal.                           *)
Enqueue(c) ==
    /\ client[c].at = "enqueue" /\ client[c].todo # <<>> /\ ~InBatch(c)
    /\ ~Full /\ KernelIsFree
    /\ Put(client[c].todo[1])
    /\ client' = [client EXCEPT ![c] = IF loaded THEN [@ EXCEPT !.at = "signal"] ELSE Enqueued(@)]
    /\ UNCHANGED <<kernel, threads, spu, lines, answer, executed, finished, outstanding>>

Signal(c) ==
    /\ client[c].at = "signal" /\ SPEIsFree
    /\ signal' = TRUE
    /\ client' = [client EXCEPT ![c] = Enqueued(@)]
    /\ UNCHANGED <<kernel, queue, threads, spu, mail, outbox, answer, executed, finished,
                   outstanding>>

(* enqueue_queue_element() does not signal; run_queue() does, at the end,  *)
(* without the kernel's mutex.                                             *)
EnqueueElement(c) ==
    /\ client[c].at = "enqueue" /\ client[c].todo # <<>> /\ InBatch(c)
    /\ ~Full /\ KernelIsFree
    /\ Put(client[c].todo[1])
    /\ client' = [client EXCEPT ![c].at = "kernel", ![c].todo = Tail(@)]
    /\ UNCHANGED <<kernel, threads, spu, lines, answer, executed, finished, outstanding>>

RunQueue(c) ==
    /\ client[c].at = "enqueue" /\ client[c].todo = <<>>
    /\ loaded => SPEIsFree
    /\ signal' = (signal \/ loaded)
    /\ client' = [client EXCEPT ![c] = Free]
    /\ UNCHANGED <<kernel, queue, threads, spu, mail, outbox, answer, executed, finished,
                   outstanding>>

(* inst_halt.wait() returns.                                               *)
Halted(c) ==
    /\ client[c].at = "halting" /\ Halt \in finished
    /\ client' = [client EXCEPT ![c] = IF @.call = "destroy" THEN [Free EXCEPT !.at = "left"]
                                       ELSE [@ EXCEPT !.at = "run", !.todo = Tail(client[c].todo)]]
    /\ UNCHANGED <<kernel, queue, threads, spu, lines, answer, executed, finished, outstanding>>

(* SPE::run(), with both threads of the old kernel joined: some kernel     *)
(* that knows the opcode.                                                  *)
Run(c) ==
    /\ client[c].at = "run" /\ ppe = "gone" /\ loader = "gone"
    /\ \E k \in Kernels : client[c].todo[1] \in Knows[k] /\ Started(k)
    /\ client' = [client EXCEPT ![c].at = "kernel"]
    /\ UNCHANGED <<answer, executed, outstanding>>

\* SPEInstruction::wait() returns.
Wait(c, i) ==
    /\ client[c].at = "free" /\ i \in outstanding[c] /\ i \in finished
    /\ outstanding' = [outstanding EXCEPT ![c] = @ \ {i}]
    /\ UNCHANGED <<kernel, queue, threads, spu, lines, answer, executed, finished, client>>
-----------------------------------------------------------------------------
LoaderStep == LoadKernel \/ Synchronised
SPUStep == Fetch \/ Fetched \/ Walk \/ Execute \/ MailResult \/ WriteResult \/ MailFinished
PPEStep == StartThread \/ KernelLoaded \/ ReadMail \/ Result \/ Finished \/ Stopped

ClientStep(c) == \/ Prepare(c) \/ GetKernel(c) \/ Enqueue(c) \/ Signal(c)
                 \/ EnqueueElement(c) \/ RunQueue(c) \/ Halted(c) \/ Run(c)

ClientCall(c) == \/ \E i \in Instrs : Dispatch(c, i) \/ Wait(c, i)
                 \/ \E b \in Batches : DispatchBatch(c, b)
                 \/ Destroy(c)

Next == \/ LoaderStep \/ SPUStep \/ PPEStep
        \/ \E c \in Clients : ClientStep(c) \/ ClientCall(c)

Spec == Init /\ [][Next]_vars

(* Threads that can go on do, the SPE too, and operations end.  Nobody has *)
(* to dispatch or to destroy the manager.                                  *)
FairSpec == /\ Spec
            /\ WF_vars(LoaderStep) /\ WF_vars(SPUStep) /\ WF_vars(PPEStep)
            /\ \A c \in Clients : WF_vars(ClientStep(c))
-----------------------------------------------------------------------------
(* What the manager relies on when it takes a load of 0 for idle: the SPE  *)
(* has nothing left to do, no mail is on its way, and a fetch would find   *)
(* nothing.                                                                *)
IdleMeansIdle ==
    Load = 0 => /\ ring = EmptyRing /\ spu.copy = EmptyRing
                /\ spu.at \in {"off", "ready", "fetch", "walk", "stopped"}
                /\ mail = None /\ outbox = None
                /\ ppe \notin {"finish", "result"}

(* spe_instruction.hh: "Wait until we have been executed."  What an        *)
(* instruction is told to have finished was executed, and its result is in *)
(* the memory of that instruction.                                         *)
FinishedWasExecuted ==
    /\ finished \subseteq executed \cup {Halt}
    /\ \A i \in Answers \cap finished : answer[i] = i

(* The SPE implements what clients may rely on of any executor: each       *)
(* instruction is executed once, then told so, and waits return after it.  *)
Posted(i) == \E s \in Slots : posted[s] = i

Status(i) == CASE spu.at = "execute" /\ spu.task = i -> "running"
               [] OTHER -> IF i \in finished THEN "done"
                           ELSE IF i \in executed THEN "executed"
                           ELSE IF Posted(i) THEN "queued" ELSE "new"

Outstanding(i) == \E c \in Clients : i \in outstanding[c]

Exec == INSTANCE Executor WITH
            Tasks <- Instrs, Faulty <- {},
            status  <- [i \in Instrs |-> Status(i)],
            awaited <- {i \in Instrs : i \in finished /\ ~Outstanding(i)}

ImplementsExecutor == Exec!Spec

(* A client has the kernel's mutex and wants the SPE's, the loading thread *)
(* has the SPE's and wants the kernel's.                                   *)
Embraced == loader = "sync" /\ \E c \in Clients : client[c].at = "signal"

(* Liveness, but for that embrace: what is enqueued is finished, and every *)
(* dispatch and the destructor come to their ends.                         *)
EverythingEnds ==
    /\ \A i \in Instrs : Posted(i) ~> i \in finished \/ Embraced
    /\ \A c \in Clients : ~Idle(c) ~> Idle(c) \/ Embraced
=============================================================================
