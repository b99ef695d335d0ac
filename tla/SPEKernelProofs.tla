--------------------------- MODULE SPEKernelProofs --------------------------
(***************************************************************************)
(* Proofs about SPEKernel, for rings of any length, any kernels, clients   *)
(* and instructions: types for every use; where batches are only given to  *)
(* a loaded kernel and not around the end of the ring, a load of 0 means   *)
(* that the SPE is idle, what has finished was executed and has its        *)
(* result, and the SPE implements Executor.                                *)
(***************************************************************************)
EXTENDS SPEKernel, FiniteSetTheorems, SequenceTheorems, WellFoundedInduction, TLAPS

-----------------------------------------------------------------------------
(* Types. *)

Opcodes == Instrs \cup {Noop, Halt}

SPUStates == [at : {"off", "ready", "fetch", "walk", "execute", "result", "answer",
                    "mail", "unknown", "stopped"},
              task : Instrs \cup {Halt, None}, copy : [Slots -> Opcodes]]

ClientStates == [at : Places, todo : Seq(Instrs \cup {Halt}),
                 call : {"none", "single", "batch", "destroy"}]

(* An operation is carried out, and answers, for instructions; a client    *)
(* that works on an instruction has one.                                   *)
TypeInv ==
    /\ TypeOK
    /\ spu.at = "execute" => spu.task \in Instrs
    /\ spu.at \in {"result", "answer"} => spu.task \in Answers
    /\ \A c \in Clients : client[c].at \in {"prepare", "signal", "halting"} => client[c].todo # <<>>

(* A set of numbers has a smallest one: n is below m when 0..n is a proper *)
(* subset of 0..m, a well-founded order.                                   *)
LEMMA Smallest ==
  ASSUME NEW T \in SUBSET Nat, T # {}
  PROVE  \E m \in T : \A n \in T : m <= n
<1> DEFINE U == {0..n : n \in T}
           R == StrictSubsetOrdering(Nat)
<1>1. U \subseteq FiniteSubsetsOf(Nat) /\ U # {}
  <2>1. \A n \in T : 0..n \in SUBSET Nat /\ IsFiniteSet(0..n)
    BY FS_Interval
  <2> QED BY <2>1 DEF FiniteSubsetsOf
<1>2. IsWellFoundedOn(R, FiniteSubsetsOf(Nat))
  BY FS_StrictSubsetOrderingWellFounded
<1>3. \E x \in U : \A y \in U : ~(<<y, x>> \in R)
  <2> HIDE DEF U, R
  <2> QED BY <1>1, <1>2, WFMin
<1>4. PICK m \in T : \A n \in T : <<0..n, 0..m>> \notin R
  BY <1>3
<1>5. ASSUME NEW n \in T, n < m PROVE FALSE
  <2>1. 0..n \in SUBSET Nat /\ 0..m \in SUBSET Nat /\ 0..n \subseteq 0..m /\ m \in 0..m /\ m \notin 0..n
    BY <1>5
  <2>2. <<0..n, 0..m>> \in R
    BY <2>1 DEF StrictSubsetOrdering
  <2> QED BY <1>4, <2>2
<1> QED BY <1>5

(* The first place of the copy with something to do.                       *)
LEMMA FirstLeftFacts ==
  ASSUME TypeOK, Left # {}
  PROVE  FirstLeft \in Left /\ \A r \in Left : FirstLeft <= r
<1>1. Left \in SUBSET Nat
  BY RingAssumption DEF Left, Slots
<1>2. \E s \in Left : \A r \in Left : s <= r
  <2> PICK L : L = Left
    OBVIOUS
  <2> QED BY <1>1, Smallest
<1> QED BY <1>2 DEF FirstLeft

LEMMA SlotsFacts == Ring \in Nat /\ 0 \in Slots /\ \A s \in Slots : (s + 1) % Ring \in Slots
<1>1. ASSUME NEW s \in Slots PROVE (s + 1) % Ring \in Slots
  <2>1. s + 1 \in Int /\ Ring \in Nat /\ Ring > 0
    BY RingAssumption DEF Slots
  <2> QED BY <2>1 DEF Slots
<1> QED BY <1>1, RingAssumption DEF Slots

LEMMA StateSets ==
  TypeOK => spu \in SPUStates /\ client \in [Clients -> ClientStates]
  BY DEF TypeOK, SPUStates, ClientStates, Opcodes

LEMMA FreeType == Free \in ClientStates /\ Off \in SPUStates /\ EmptyRing \in [Slots -> Opcodes]
<1>1. <<>> \in Seq(Instrs \cup {Halt})
  BY EmptySeq
<1> QED BY <1>1 DEF Free, Off, EmptyRing, ClientStates, SPUStates, Opcodes, Places

LEMMA EnqueuedType ==
  ASSUME NEW cl \in ClientStates, cl.todo # <<>>
  PROVE  Enqueued(cl) \in ClientStates /\ (Enqueued(cl).at = "free" \/ Enqueued(cl).todo # <<>>)
         /\ Enqueued(cl).at \in {"free", "halting"}
  BY FreeType DEF Enqueued, ClientStates, Places, Free

LEMMA InitTypeInv == Init => TypeInv
<1> SUFFICES ASSUME Init PROVE TypeInv
  OBVIOUS
<1>1. client \in [Clients -> ClientStates] /\ \A c \in Clients : client[c].at = "free"
  BY FreeType DEF Init, Free
<1>2. spu \in SPUStates /\ spu.at = "off" /\ ring \in [Slots -> Opcodes]
  BY FreeType DEF Init, Off
<1>3. answer \in [Answers -> Instrs \cup {None}] /\ outstanding \in [Clients -> SUBSET Instrs]
  BY DEF Init
<1> QED BY <1>1, <1>2, <1>3, SlotsFacts DEF Init, TypeInv, TypeOK, ClientStates, SPUStates, Opcodes

(* Steps of the SPE's threads, which leave the clients alone.              *)
LEMMA MachineTypes ==
  ASSUME TypeInv, LoaderStep \/ SPUStep \/ PPEStep
  PROVE  TypeInv'
<1> USE DEF TypeInv
<1>1. ASSUME GoOn, TypeOK
      PROVE  loader' = "run" /\ spu' \in SPUStates /\ spu'.at = "ready" /\ signal' \in BOOLEAN /\ initial' = FALSE
  <2>1. spu \in SPUStates /\ spu' = [spu EXCEPT !.at = "ready"]
    BY <1>1, StateSets DEF GoOn
  <2>2. spu' \in SPUStates /\ spu'.at = "ready"
    BY <2>1 DEF SPUStates
  <2>3. signal' \in BOOLEAN
    BY <1>1 DEF GoOn, TypeOK
  <2> QED BY <1>1, <2>2, <2>3 DEF GoOn
<1>2. CASE LoadKernel
  <2>1. CASE ppe = "sync"
    BY <1>1, <1>2, <2>1 DEF LoadKernel, TypeOK, SPUStates, Opcodes, clients
  <2>2. CASE ppe # "sync"
    BY <1>2, <2>2 DEF LoadKernel, TypeOK, clients
  <2> QED BY <2>1, <2>2
<1>3. CASE Synchronised
  BY <1>1, <1>3 DEF Synchronised, TypeOK, SPUStates, Opcodes, clients
<1>4. CASE Fetch
  BY <1>4 DEF Fetch, TypeOK, queue, threads, clients
<1>5. CASE Fetched
  <2>1. spu \in SPUStates /\ ring \in [Slots -> Opcodes]
    BY StateSets DEF TypeOK, Opcodes
  <2>2. spu' \in SPUStates /\ spu'.at = "walk"
    BY <1>5, <2>1 DEF Fetched, SPUStates
  <2>3. UNCHANGED <<kernel, queue, threads, lines, answer, executed, finished, clients>>
    BY <1>5 DEF Fetched
  <2> QED BY <2>2, <2>3 DEF TypeOK, SPUStates, Opcodes, queue, threads, lines, clients
<1>6. CASE Walk
  <2>1. CASE Left = {}
    BY <1>6, <2>1 DEF Walk, TypeOK, queue, threads, lines, clients
  <2>2. CASE Left # {}
    <3>1. PICK f \in Slots : f = FirstLeft /\ spu.copy[f] # Noop
      BY <2>2, FirstLeftFacts DEF Left
    <3>2. spu.copy[f] \in Instrs \cup {Halt} /\ [spu.copy EXCEPT ![f] = Noop] \in [Slots -> Opcodes]
      BY <3>1 DEF TypeOK, Opcodes
    <3>3. spu' = [at   |-> CASE spu.copy[f] = Halt -> "mail"
                             [] spu.copy[f] \in Knows[kernel] -> "execute"
                             [] OTHER -> "unknown",
                  task |-> spu.copy[f],
                  copy |-> [spu.copy EXCEPT ![f] = Noop]]
      BY <1>6, <2>2, <3>1 DEF Walk
    <3>4. spu.copy[f] \in Knows[kernel] => spu.copy[f] \in Instrs
      BY KernelsAssumption DEF TypeOK
    <3>5. /\ spu' \in SPUStates
          /\ spu'.at = "execute" => spu'.task \in Instrs
          /\ spu'.at \notin {"result", "answer"}
      BY <3>2, <3>3, <3>4 DEF SPUStates
    <3>6. UNCHANGED <<kernel, queue, threads, lines, answer, executed, finished, clients>>
      BY <1>6 DEF Walk
    <3> QED BY <3>5, <3>6 DEF TypeOK, SPUStates, Opcodes, queue, threads, lines, clients
  <2> QED BY <2>1, <2>2
<1>7. CASE Execute
  <2>1. spu \in SPUStates /\ spu.task \in Instrs
    BY <1>7, StateSets DEF Execute
  <2>2. /\ spu' \in SPUStates /\ spu'.at \in {"result", "mail"}
        /\ spu'.at = "result" => spu'.task \in Answers
    BY <1>7, <2>1 DEF Execute, SPUStates
  <2>3. /\ executed' = executed \cup {spu.task}
        /\ UNCHANGED <<kernel, queue, threads, lines, answer, finished, clients>>
    BY <1>7 DEF Execute
  <2> QED BY <2>1, <2>2, <2>3 DEF TypeOK, SPUStates, Opcodes, queue, threads, lines, clients
<1>8. CASE MailResult
  <2>1. spu \in SPUStates /\ spu.task \in Answers
    BY <1>8, StateSets DEF MailResult
  <2>2. spu' \in SPUStates /\ spu'.at = "answer" /\ spu'.task \in Answers
    BY <1>8, <2>1 DEF MailResult, SPUStates
  <2>3. /\ mail' = "result"
        /\ UNCHANGED <<kernel, queue, threads, signal, outbox, answer, executed, finished, clients>>
    BY <1>8 DEF MailResult
  <2> QED BY <2>2, <2>3 DEF TypeOK, SPUStates, Opcodes, queue, threads, clients
<1>9. CASE WriteResult
  <2>1. spu \in SPUStates /\ spu.task \in Instrs
    BY <1>9, StateSets, InstrsAssumption DEF WriteResult
  <2>2. spu' \in SPUStates /\ spu'.at = "mail"
    BY <1>9, <2>1 DEF WriteResult, SPUStates
  <2>3. /\ outbox' = spu.task
        /\ UNCHANGED <<kernel, queue, threads, signal, mail, answer, executed, finished, clients>>
    BY <1>9 DEF WriteResult
  <2> QED BY <2>1, <2>2, <2>3 DEF TypeOK, SPUStates, Opcodes, queue, threads, clients
<1>10. CASE MailFinished
  <2>1. spu \in SPUStates /\ None \in Instrs \cup {Halt, None}
    BY StateSets
  <2>2. [Off EXCEPT !.at = "stopped"] \in SPUStates /\ [Off EXCEPT !.at = "stopped"].at = "stopped"
    BY FreeType DEF SPUStates, Off
  <2>3. /\ [spu EXCEPT !.at = "walk", !.task = None] \in SPUStates
        /\ [spu EXCEPT !.at = "walk", !.task = None].at = "walk"
    BY <2>1 DEF SPUStates
  <2>4. /\ spu' \in SPUStates /\ spu'.at \in {"stopped", "walk"}
        /\ loader' \in {"gone", loader} /\ mail' = "finished"
    BY <1>10, <2>2, <2>3 DEF MailFinished
  <2>5. UNCHANGED <<kernel, queue, ppe, loaded, signal, outbox, answer, executed, finished, clients>>
    BY <1>10 DEF MailFinished
  <2> QED BY <2>4, <2>5 DEF TypeOK, SPUStates, Opcodes, queue, clients
<1>11. CASE StartThread \/ KernelLoaded
  BY <1>11 DEF StartThread, KernelLoaded, TypeOK, queue, lines, clients
<1>12. CASE ReadMail
  BY <1>12 DEF ReadMail, TypeOK, queue, clients
<1>13. CASE Result
  BY <1>13 DEF Result, TypeOK, queue, clients
<1>14. CASE Finished
  <2>1. Told \subseteq Instrs \cup {Halt}
    BY DEF Told, TypeOK
  <2>2. (index + 1) % Ring \in Slots
    BY SlotsFacts DEF TypeOK
  <2> QED BY <1>14, <2>1, <2>2 DEF Finished, TypeOK, lines, clients
<1>15. CASE Stopped
  <2>1. ({posted[s] : s \in Slots} \ {None}) \subseteq Instrs \cup {Halt}
    BY DEF TypeOK
  <2> QED BY <1>15, <2>1 DEF Stopped, TypeOK, queue, lines, clients
<1> QED BY <1>2, <1>3, <1>4, <1>5, <1>6, <1>7, <1>8, <1>9, <1>10, <1>11, <1>12, <1>13, <1>14, <1>15
        DEF LoaderStep, SPUStep, PPEStep

(* What a client puts on the ring.                                         *)
LEMMA PutType ==
  ASSUME TypeOK, NEW i \in Instrs \cup {Halt}, Put(i)
  PROVE  /\ ring' \in [Slots -> Opcodes] /\ posted' \in [Slots -> Instrs \cup {Halt, None}]
         /\ index' \in Slots /\ free' \in Slots /\ initial' \in BOOLEAN
<1>1. (free + 1) % Ring \in Slots
  BY SlotsFacts DEF TypeOK
<1> QED BY <1>1 DEF Put, TypeOK, Opcodes

(* The SPE's new kernel.                                                   *)
LEMMA StartedType ==
  ASSUME TypeOK, NEW k \in Kernels, Started(k)
  PROVE  /\ kernel' \in Kernels
         /\ ring' \in [Slots -> Opcodes] /\ posted' \in [Slots -> Instrs \cup {Halt, None}]
         /\ index' \in Slots /\ free' \in Slots /\ initial' = FALSE /\ loaded' = FALSE
         /\ ppe' = "start" /\ loader' = "start" /\ spu' = Off
         /\ signal' = FALSE /\ mail' = None /\ outbox' = None
         /\ finished' \subseteq Instrs \cup {Halt}
  BY SlotsFacts, FreeType DEF Started, TypeOK, Opcodes

(* Steps of clients, with what they do to their own state.                 *)
LEMMA ClientTypes ==
  ASSUME TypeInv, NEW c \in Clients, ClientStep(c) \/ ClientCall(c)
  PROVE  TypeInv'
<1> USE DEF TypeInv
<1> DEFINE Fits(cl) == /\ cl \in ClientStates
                       /\ cl.at \in {"prepare", "signal", "halting"} => cl.todo # <<>>
<1>1. ASSUME NEW cl, Fits(cl), client' = [client EXCEPT ![c] = cl]
      PROVE  /\ client' \in [Clients -> ClientStates]
             /\ \A d \in Clients : client'[d].at \in {"prepare", "signal", "halting"} => client'[d].todo # <<>>
  BY <1>1, StateSets
<1>2. client[c] \in ClientStates
  BY StateSets
<1>3. \A i \in Instrs \cup {Halt} : <<i>> \in Seq(Instrs \cup {Halt}) /\ <<i>> # <<>>
  OBVIOUS
<1>4. ASSUME NEW i \in Instrs, Dispatch(c, i) PROVE TypeInv'
  <2>1. Fits([at |-> "prepare", todo |-> <<i>>, call |-> "single"])
    BY <1>3 DEF ClientStates, Places
  <2> QED BY <1>1, <1>4, <2>1 DEF Dispatch, TypeOK, queue, threads, lines, ClientStates
<1>5. ASSUME NEW i \in Instrs, Wait(c, i) PROVE TypeInv'
  BY <1>5 DEF Wait, TypeOK, queue, threads, lines
<1>6. ASSUME NEW b \in Batches, DispatchBatch(c, b) PROVE TypeInv'
  <2>1. b \in Seq(Instrs) /\ b \in Seq(Instrs \cup {Halt}) /\ b # <<>>
    BY BatchesAssumption
  <2>2. Fits([at |-> "prepare", todo |-> b, call |-> "batch"])
    BY <2>1 DEF ClientStates, Places
  <2>3. {b[n] : n \in 1..Len(b)} \subseteq Instrs
    BY <2>1
  <2> QED BY <1>1, <1>6, <2>2, <2>3 DEF DispatchBatch, TypeOK, queue, threads, lines, ClientStates
<1>7. CASE Destroy(c)
  <2>1. Fits([at |-> "kernel", todo |-> <<Halt>>, call |-> "destroy"])
    BY <1>3 DEF ClientStates, Places
  <2> QED BY <1>1, <1>7, <2>1 DEF Destroy, TypeOK, queue, threads, lines, ClientStates
<1>8. CASE Prepare(c)
  <2>1. <<Halt>> \o client[c].todo \in Seq(Instrs \cup {Halt})
    BY <1>2, <1>3, ConcatProperties DEF ClientStates
  <2>2. PICK cl : /\ client' = [client EXCEPT ![c] = cl]
                  /\ cl = [client[c] EXCEPT !.at = "kernel",
                             !.todo = IF client[c].todo[1] \in Knows[kernel] THEN @ ELSE <<Halt>> \o @]
    BY <1>8 DEF Prepare
  <2>3. Fits(cl)
    BY <1>2, <2>1, <2>2 DEF ClientStates, Places
  <2> QED BY <1>1, <1>8, <2>2, <2>3 DEF Prepare, TypeOK, queue, threads, lines, ClientStates
<1>9. CASE GetKernel(c)
  <2>1. PICK cl : client' = [client EXCEPT ![c] = cl] /\ cl = [client[c] EXCEPT !.at = "enqueue"]
    BY <1>9 DEF GetKernel
  <2>2. Fits(cl)
    BY <1>2, <2>1 DEF ClientStates, Places
  <2> QED BY <1>1, <1>9, <2>1, <2>2 DEF GetKernel, TypeOK, queue, threads, lines, ClientStates
<1>10. CASE Enqueue(c)
  <2>1. client[c].todo # <<>> /\ client[c].todo[1] \in Instrs \cup {Halt}
    BY <1>2, <1>10 DEF Enqueue, ClientStates
  <2>2. PICK cl : /\ client' = [client EXCEPT ![c] = cl]
                  /\ cl = IF loaded THEN [client[c] EXCEPT !.at = "signal"] ELSE Enqueued(client[c])
    BY <1>10 DEF Enqueue
  <2>3. Fits(cl)
    BY <1>2, <2>1, <2>2, EnqueuedType DEF ClientStates, Places
  <2> QED BY <1>1, <1>10, <2>1, <2>2, <2>3, PutType
          DEF Enqueue, TypeOK, threads, lines, ClientStates, Opcodes
<1>11. CASE Signal(c)
  <2>1. PICK cl : client' = [client EXCEPT ![c] = cl] /\ cl = Enqueued(client[c])
    BY <1>11 DEF Signal
  <2>2. Fits(cl)
    BY <1>2, <1>11, <2>1, EnqueuedType DEF Signal, ClientStates, Places
  <2> QED BY <1>1, <1>11, <2>1, <2>2 DEF Signal, TypeOK, queue, threads, ClientStates
<1>12. CASE EnqueueElement(c)
  <2>1. /\ client[c].todo # <<>> /\ client[c].todo[1] \in Instrs \cup {Halt}
        /\ Tail(client[c].todo) \in Seq(Instrs \cup {Halt})
    BY <1>2, <1>12, HeadTailProperties DEF EnqueueElement, ClientStates
  <2>2. PICK cl : /\ client' = [client EXCEPT ![c] = cl]
                  /\ cl = [client[c] EXCEPT !.at = "kernel", !.todo = Tail(@)]
    BY <1>12 DEF EnqueueElement
  <2>3. Fits(cl)
    BY <1>2, <2>1, <2>2 DEF ClientStates, Places
  <2> QED BY <1>1, <1>12, <2>1, <2>2, <2>3, PutType
          DEF EnqueueElement, TypeOK, threads, lines, ClientStates, Opcodes
<1>13. CASE RunQueue(c)
  <2>1. Fits(Free)
    BY FreeType DEF Free
  <2> QED BY <1>1, <1>13, <2>1 DEF RunQueue, TypeOK, queue, threads, ClientStates
<1>14. CASE Halted(c)
  <2>1. Tail(client[c].todo) \in Seq(Instrs \cup {Halt})
    BY <1>2, <1>14, HeadTailProperties DEF Halted, ClientStates
  <2>2. PICK cl : /\ client' = [client EXCEPT ![c] = cl]
                  /\ cl = IF client[c].call = "destroy" THEN [Free EXCEPT !.at = "left"]
                          ELSE [client[c] EXCEPT !.at = "run", !.todo = Tail(client[c].todo)]
    BY <1>14 DEF Halted
  <2>3. Fits(cl)
    BY <1>2, <2>1, <2>2, FreeType DEF ClientStates, Places, Free
  <2> QED BY <1>1, <1>14, <2>2, <2>3 DEF Halted, TypeOK, queue, threads, lines, ClientStates
<1>15. CASE Run(c)
  <2>1. PICK k \in Kernels : Started(k)
    BY <1>15 DEF Run
  <2>2. PICK cl : client' = [client EXCEPT ![c] = cl] /\ cl = [client[c] EXCEPT !.at = "kernel"]
    BY <1>15 DEF Run
  <2>3. Fits(cl)
    BY <1>2, <2>2 DEF ClientStates, Places
  <2> HIDE DEF Fits
  <2> QED BY <1>1, <1>15, <2>1, <2>2, <2>3, StartedType, FreeType
          DEF Run, TypeOK, ClientStates, SPUStates, Opcodes, Off
<1> QED BY <1>4, <1>5, <1>6, <1>7, <1>8, <1>9, <1>10, <1>11, <1>12, <1>13, <1>14, <1>15
        DEF ClientStep, ClientCall

LEMMA NextTypeInv == TypeInv /\ [Next]_vars => TypeInv'
<1>1. ASSUME TypeInv, UNCHANGED vars PROVE TypeInv'
  BY <1>1 DEF TypeInv, TypeOK, vars, queue, threads, lines, clients
<1> QED BY <1>1, MachineTypes, ClientTypes DEF Next

(* Type correctness, for any use of the manager: an SPE carries out        *)
(* opcodes that it fetched, and a result is that of an instruction.        *)
THEOREM SPETypeOK == Spec => []TypeOK
<1>1. TypeInv => TypeOK
  BY DEF TypeInv
<1> QED BY <1>1, InitTypeInv, NextTypeInv, PTL DEF Spec

-----------------------------------------------------------------------------
(* The parts of the inductive invariant. *)

(* The places in use are those from index to End: they do not go around    *)
(* the end of the ring, but free may be at its start again.                *)
End == IF free < index THEN Ring ELSE free

RingInOrder ==
    /\ free < index => free = 0
    /\ \A s \in Slots : ring[s] # Noop <=> index <= s /\ s < End
    /\ \A s \in Slots : posted[s] = IF ring[s] = Noop THEN None ELSE ring[s]

(* A halt is alone on the ring.                                            *)
HaltIsAlone == \A s \in Slots : ring[s] = Halt => s = index /\ End = s + 1

(* Where the SPE is on the ring: mails of finished instructions that have  *)
(* been sent, or read, but not acted upon, are behind it.                  *)
Here == index + (IF ppe = "finish" THEN 1 ELSE 0) + (IF mail = "finished" THEN 1 ELSE 0)

Working == {"execute", "result", "answer", "mail", "unknown"}

(* The SPE has not seen what is on the ring.                               *)
Untouched ==
    /\ spu.at \notin Working /\ spu.copy = EmptyRing
    /\ mail = None /\ outbox = None /\ ppe \notin {"finish", "result"}

(* The SPE has a copy of what is on the ring from Here on, the instruction *)
(* that it works on excepted.                                              *)
Progress ==
    /\ ~signal /\ ~initial
    /\ spu.at \notin {"off", "fetch"}
    /\ Here <= End
    /\ \A s \in Slots : spu.copy[s] = IF Here <= s /\ ~(spu.at \in Working /\ s = Here)
                                      THEN ring[s] ELSE Noop
    /\ spu.at \in Working => Here < End /\ spu.task = ring[Here]
    /\ spu.at \in {"ready", "stopped"} => Here = End

SPEInPlace == Untouched \/ Progress

(* A signal, or what stands for it, is for something not yet seen.         *)
SignalsAreForNews ==
    /\ signal \/ initial \/ spu.at = "fetch" => Untouched /\ Load # 0
    /\ signal => spu.at \notin {"fetch", "off"}
    /\ initial => spu.at = "off"

ThreadsInPlace ==
    /\ loaded <=> loader # "start"
    /\ spu.at = "off" <=> loader \in {"start", "sync"}
    /\ spu.at = "stopped" <=> loader = "gone"
    /\ ppe = "gone" => spu.at = "stopped"
    /\ Halt \in finished => spu.at = "stopped"
    /\ spu.at # "stopped" => \A s \in Slots : s < Here => ring[s] # Halt
    /\ spu.at = "stopped" => \A s \in Slots : ring[s] \in {Noop, Halt}

(* A result is in flight between its instruction's operation and mail.     *)
ResultsInPlace ==
    /\ mail = "result" => /\ spu.at \in {"answer", "mail"} /\ spu.task \in Answers
                          /\ ppe # "result"
                          /\ outbox = IF spu.at = "answer" THEN None ELSE spu.task
    /\ ppe = "result" =>
           \/ mail = None /\ spu.at = "answer" /\ spu.task \in Answers /\ outbox = None
           \/ mail = None /\ spu.at = "mail" /\ spu.task \in Answers /\ outbox = spu.task
           \/ mail = "finished" /\ ring[index] \in Answers /\ outbox = ring[index]
    /\ spu.at = "answer" => mail = "result" \/ (ppe = "result" /\ mail = None)
    /\ outbox # None => mail = "result" \/ ppe = "result"
    /\ spu.at = "mail" /\ spu.task \in Answers /\ mail # "result" /\ ~(ppe = "result" /\ mail = None) =>
           answer[spu.task] = spu.task

(* What was executed has been told so, or is behind the SPE; the results   *)
(* of what is behind the SPE have come, or are about to be picked up.      *)
Executed(s) == s < Here \/ (s = Here /\ spu.at \in {"result", "answer", "mail"})

ExecutedInOrder ==
    /\ finished \subseteq executed \cup {Halt}
    /\ \A i \in executed : i \in finished \/ \E s \in Slots : ring[s] = i
    /\ \A s \in Slots : ring[s] \in Instrs => (ring[s] \in executed <=> Executed(s))

AnswersInPlace ==
    /\ \A i \in Answers \cap finished : answer[i] = i
    /\ \A s \in Slots : ring[s] \in Answers /\ index <= s /\ s < Here /\ ppe # "result" =>
           answer[ring[s]] = ring[s]

(* An instruction on the ring, or about to be put there, is new, there     *)
(* once, and somebody will wait for it.                                    *)
Pending(i) == i \in Instrs => i \notin finished /\ \E c \in Clients : i \in outstanding[c]

Remaining(c) == {n \in 1..Len(client[c].todo) : ~(n = 1 /\ client[c].at = "signal")}

InstructionsAreNew ==
    /\ \A s \in Slots : Pending(ring[s])
    /\ \A s, r \in Slots : ring[s] = ring[r] /\ ring[s] \in Instrs => s = r
    /\ \A c \in Clients : \A n \in Remaining(c) :
           /\ Pending(client[c].todo[n])
           /\ client[c].todo[n] \in Instrs => \A s \in Slots : ring[s] # client[c].todo[n]
    /\ \A c \in Clients : \A m, n \in 1..Len(client[c].todo) :
           client[c].todo[m] = client[c].todo[n] => m = n

(* One client at a time is in the manager, and nobody after its end.       *)
OneAtATime ==
    /\ \A c, d \in Clients : ~Idle(c) /\ ~Idle(d) => c = d
    /\ \A c, d \in Clients : client[c].at = "left" => Idle(d)

(* Only a client that halts the SPE puts a halt on the ring.               *)
NoHalt == Halt \notin finished /\ spu.at # "stopped" /\ \A s \in Slots : ring[s] # Halt

Halts(c) == \/ client[c].at \in {"halting", "run", "left"}
            \/ client[c].at = "signal" /\ client[c].todo[1] = Halt

HaltsAreOurs == NoHalt \/ \E c \in Clients : Halts(c)

(* Nothing the SPE has not seen is signalled yet.                          *)
Calm == Untouched /\ ~signal /\ ~initial /\ spu.at \notin {"fetch", "stopped"}

IsTodo(cl) ==
    CASE cl.call = "destroy" -> cl.todo = <<Halt>>
      [] cl.call = "single" -> \E i \in Instrs : cl.todo \in {<<i>>, <<Halt, i>>}
      [] OTHER -> FALSE

Prepares(c) ==
    /\ client[c].call \in {"single", "batch"} /\ client[c].todo # <<>>
    /\ client[c].todo \in Seq(Instrs)
    /\ client[c].call = "single" => Len(client[c].todo) = 1
    /\ client[c].call = "batch" => /\ loader = "run" /\ Load = 0
                                   /\ client[c].todo[1] \in Knows[kernel]
                                   /\ free + Len(client[c].todo) <= Ring

Puts(c) ==
    /\ Calm
    /\ \/ IsTodo(client[c]) /\ Load = 0
       \/ /\ client[c].call = "batch" /\ loader = "run"
          /\ client[c].todo \in Seq(Instrs)
          /\ End + Len(client[c].todo) <= Ring
          /\ client[c].todo = <<>> => Load # 0

Signals(c) ==
    /\ Calm /\ IsTodo(client[c]) /\ loaded
    /\ ring[index] = client[c].todo[1] /\ End = index + 1

CallInOrder(c) ==
    /\ client[c].at = "free" => client[c] = Free
    /\ client[c].at = "prepare" => Prepares(c)
    /\ client[c].at \in {"kernel", "enqueue"} => Puts(c)
    /\ client[c].at = "signal" => Signals(c)
    /\ client[c].at = "halting" => IsTodo(client[c]) /\ client[c].todo[1] = Halt
    /\ client[c].at = "run" => /\ client[c].call = "single" /\ IsTodo(client[c])
                               /\ client[c].todo[1] # Halt /\ Halt \in finished

CallsInOrder == \A c \in Clients : CallInOrder(c)

IInv == /\ TypeInv /\ RingInOrder /\ HaltIsAlone /\ SPEInPlace /\ SignalsAreForNews
        /\ ThreadsInPlace /\ ResultsInPlace /\ ExecutedInOrder /\ AnswersInPlace
        /\ InstructionsAreNew /\ OneAtATime /\ HaltsAreOurs /\ CallsInOrder

-----------------------------------------------------------------------------
(* Places of the ring. *)

LEMMA NextPlace ==
  ASSUME NEW s \in Slots
  PROVE  (s + 1) % Ring = IF s + 1 = Ring THEN 0 ELSE s + 1
<1>1. s \in Nat /\ s < Ring /\ Ring \in Nat /\ Ring > 1
  BY RingAssumption DEF Slots
<1>2. CASE s + 1 = Ring
  BY <1>1, <1>2
<1>3. CASE s + 1 # Ring
  BY <1>1, <1>3
<1> QED BY <1>2, <1>3

LEMMA LoadFacts ==
  ASSUME TypeOK
  PROVE  Load = 0 <=> index = free
<1>1. /\ index \in Nat /\ index < Ring /\ free \in Nat /\ free < Ring
      /\ Ring \in Nat /\ Ring > 1
  BY RingAssumption DEF TypeOK, Slots
<1>2. CASE free < index
  <2>1. free - index + Ring \in 1..(Ring - 1)
    BY <1>1, <1>2
  <2>2. (free - index) % Ring = free - index + Ring
    BY <1>1, <2>1
  <2> QED BY <1>1, <1>2, <2>1, <2>2 DEF Load
<1>3. CASE free >= index
  BY <1>1, <1>3 DEF Load
<1> QED BY <1>1, <1>2, <1>3

LEMMA PlaceFacts ==
  ASSUME TypeOK, RingInOrder
  PROVE  /\ index \in Nat /\ End \in Nat /\ index < Ring /\ index <= End /\ End <= Ring /\ Ring \in Nat
         /\ Load = 0 <=> index = End
         /\ free < Ring /\ free \in Nat
         /\ End < Ring => free = End
         /\ End = Ring => free = 0
         /\ Here \in Nat /\ index <= Here
<1>1. /\ index \in Nat /\ index < Ring /\ free \in Nat /\ free < Ring
      /\ Ring \in Nat /\ Ring > 1
  BY RingAssumption DEF TypeOK, Slots
<1>2. free < index => free = 0
  BY DEF RingInOrder
<1>3. Here \in Nat /\ index <= Here
  BY <1>1 DEF Here
<1> QED BY <1>1, <1>2, <1>3, LoadFacts DEF End

(* With a load of 0 nothing is on the ring, nor on its way.                *)
LEMMA IdleFacts ==
  ASSUME IInv, Load = 0
  PROVE  Untouched /\ ring = EmptyRing /\ Here = index /\ End = index /\ free = index
<1>1. TypeOK /\ RingInOrder /\ SPEInPlace /\ ResultsInPlace
  BY DEF IInv, TypeInv
<1>2. index = End /\ index = free
  BY <1>1, PlaceFacts, LoadFacts
<1>3. ring = EmptyRing
  <2>1. ASSUME NEW s \in Slots PROVE ring[s] = Noop
    <3>1. s \in Nat /\ index \in Nat
      BY <1>1, PlaceFacts DEF Slots
    <3> QED BY <1>1, <1>2, <3>1 DEF RingInOrder
  <2> QED BY <1>1, <2>1 DEF TypeOK, EmptyRing
<1>4. CASE Progress
  <2>1. Here = index
    BY <1>1, <1>2, <1>4, PlaceFacts DEF Progress
  <2>2. ppe # "finish" /\ mail # "finished"
    BY <1>1, <2>1, PlaceFacts DEF Here
  <2>3. spu.at \notin Working
    BY <1>1, <1>2, <1>4, <2>1, PlaceFacts DEF Progress
  <2>4. mail = None
    BY <1>1, <2>2, <2>3 DEF TypeOK, ResultsInPlace, Working
  <2>5. ppe # "result" /\ outbox = None
    BY <1>1, <2>3, <2>4, OpcodesAssumption DEF ResultsInPlace, Working
  <2>6. spu.copy = EmptyRing
    <3>1. \A s \in Slots : spu.copy[s] = Noop
      BY <1>3, <1>4, <2>3 DEF Progress, EmptyRing
    <3> QED BY <1>1, <3>1 DEF TypeOK, EmptyRing
  <2> QED BY <1>2, <1>3, <2>1, <2>2, <2>3, <2>4, <2>5, <2>6 DEF Untouched
<1>5. CASE Untouched
  BY <1>1, <1>2, <1>3, <1>5, PlaceFacts, OpcodesAssumption DEF Untouched, Here
<1> QED BY <1>1, <1>4, <1>5 DEF SPEInPlace

LEMMA UntouchedHere == TypeOK /\ Untouched => Here = index
  BY OpcodesAssumption, RingAssumption DEF Untouched, Here, TypeOK, Slots

(* What has not been seen is not behind the SPE.                           *)
LEMMA ProgressIsNotCalm ==
  ASSUME IInv, Progress, Load # 0
  PROVE  ~Calm
<1>1. TypeOK /\ RingInOrder
  BY DEF IInv, TypeInv
<1> SUFFICES ASSUME Calm PROVE FALSE
  OBVIOUS
<1>2. Untouched /\ Here = index /\ index < End
  BY <1>1, UntouchedHere, PlaceFacts DEF Calm
<1>3. spu.at = "walk"
  <2>1. Here # End
    BY <1>1, <1>2, PlaceFacts
  <2>2. spu.at \notin Working /\ spu.at \notin {"off", "fetch", "stopped", "ready"}
    BY <1>2, <2>1 DEF Progress, Calm, Untouched
  <2> QED BY <1>1, <2>2 DEF Working, TypeOK
<1>4. index \in Slots /\ ring[index] # Noop
  BY <1>1, <1>2, PlaceFacts DEF RingInOrder, TypeOK
<1>5. spu.copy[index] = ring[index]
  BY <1>1, <1>2, <1>4, PlaceFacts DEF Progress, Untouched
<1> QED BY <1>2, <1>4, <1>5 DEF Untouched, EmptyRing

-----------------------------------------------------------------------------
(* What steps leave alone. *)

(* A step of the SPE's threads that does not touch the ring.               *)
Undisturbed ==
    /\ UNCHANGED <<kernel, ring, posted, index, free, client, outstanding>>
    /\ loaded => loaded'
    /\ Calm => Calm'
    /\ Calm \/ Load = 0 => (loader = "run" => loader' = "run")
    /\ finished \subseteq finished' /\ finished' \subseteq finished \cup {Halt}
    /\ Halt \in finished' => Halt \in finished \/ spu.at = "stopped"
    /\ spu'.at = "stopped" => spu.at = "stopped" \/ \E s \in Slots : ring[s] = Halt

LEMMA MachineFrame ==
  ASSUME IInv, Undisturbed
  PROVE  /\ RingInOrder' /\ HaltIsAlone' /\ InstructionsAreNew' /\ OneAtATime'
         /\ HaltsAreOurs' /\ CallsInOrder'
<1>1. RingInOrder'
  BY DEF IInv, Undisturbed, RingInOrder, End
<1>2. HaltIsAlone'
  BY DEF IInv, Undisturbed, HaltIsAlone, End
<1>3. InstructionsAreNew'
  <2>1. \A i \in Instrs : i \in finished' <=> i \in finished
    BY InstrsAssumption DEF Undisturbed
  <2>2. \A i : Pending(i) => Pending(i)'
    BY <2>1 DEF Pending, Undisturbed
  <2> QED BY <2>2 DEF IInv, Undisturbed, InstructionsAreNew, Remaining
<1>4. OneAtATime'
  BY DEF IInv, Undisturbed, OneAtATime, Idle
<1>5. HaltsAreOurs'
  <2>1. NoHalt => NoHalt'
    BY DEF Undisturbed, NoHalt
  <2>2. \A c \in Clients : Halts(c) => Halts(c)'
    BY DEF Undisturbed, Halts
  <2> QED BY <2>1, <2>2 DEF IInv, HaltsAreOurs
<1>6. CallsInOrder'
  <2> SUFFICES ASSUME NEW c \in Clients PROVE CallInOrder(c)'
    BY DEF CallsInOrder
  <2>1. CallInOrder(c)
    BY DEF IInv, CallsInOrder
  <2>2. Load' = Load /\ End' = End
    BY DEF Undisturbed, Load, End
  <2>3. Prepares(c) => Prepares(c)'
    BY <2>2 DEF Prepares, Undisturbed
  <2>4. Puts(c) => Puts(c)'
    BY <2>2 DEF Puts, Undisturbed, IsTodo
  <2>5. Signals(c) => Signals(c)'
    BY <2>2 DEF Signals, Undisturbed, IsTodo
  <2>6. IsTodo(client[c])' <=> IsTodo(client[c])
    BY DEF Undisturbed, IsTodo
  <2> QED BY <2>1, <2>3, <2>4, <2>5, <2>6 DEF CallInOrder, Undisturbed
<1> QED BY <1>1, <1>2, <1>3, <1>4, <1>5, <1>6

-----------------------------------------------------------------------------
(* The SPE's thread, the kernel thread's start, and the SPE. *)

(* All the parts that such a step can disturb.                             *)
Machine == SPEInPlace /\ SignalsAreForNews /\ ThreadsInPlace /\ ResultsInPlace
           /\ ExecutedInOrder /\ AnswersInPlace

LEMMA LoaderSafe ==
  ASSUME IInv, LoaderStep
  PROVE  Machine' /\ Undisturbed
<1>1. /\ spu.at = "off" /\ Untouched
      /\ UNCHANGED <<kernel, ring, posted, index, free, ppe, mail, outbox, answer, executed, finished, clients>>
      /\ loaded' /\ loader # "run" /\ loader \in {"start", "sync"}
      /\ \/ UNCHANGED <<spu, signal, initial>> /\ loader' = "sync"
         \/ /\ spu' = [spu EXCEPT !.at = "ready"] /\ signal' = (signal \/ initial) /\ initial' = FALSE
            /\ loader' = "run"
  <2>1. loader \in {"start", "sync"} /\ (loaded <=> loader # "start")
    BY DEF LoaderStep, LoadKernel, Synchronised, IInv, ThreadsInPlace
  <2>2. spu.at = "off"
    BY <2>1 DEF IInv, ThreadsInPlace
  <2>3. Untouched
    BY <2>2 DEF IInv, SPEInPlace, Progress
  <2>4. /\ UNCHANGED <<kernel, ring, posted, index, free, ppe, mail, outbox, answer, executed, finished, clients>>
        /\ \/ UNCHANGED <<spu, signal, initial>> /\ loader' = "sync" /\ loaded'
           \/ GoOn /\ (loaded' \/ (UNCHANGED loaded /\ loader = "sync"))
    BY DEF LoaderStep, LoadKernel, Synchronised
  <2> QED BY <2>1, <2>2, <2>3, <2>4 DEF GoOn
<1>2. TypeOK /\ spu \in SPUStates /\ SignalsAreForNews /\ ThreadsInPlace /\ ResultsInPlace /\ ExecutedInOrder
      /\ AnswersInPlace
  BY StateSets DEF IInv, TypeInv
<1>3. /\ spu'.at \in {"off", "ready"} /\ spu'.task = spu.task /\ spu'.copy = spu.copy
      /\ spu'.at = "ready" <=> loader' = "run"
      /\ spu'.at = "ready" \/ (signal' = signal /\ initial' = initial /\ loader' = "sync" /\ spu'.at = "off")
  BY <1>1, <1>2 DEF SPUStates
<1>4. Untouched'
  BY <1>1, <1>3 DEF Untouched, Working
<1>5. SignalsAreForNews'
  <2>1. Load' = Load
    BY <1>1 DEF Load
  <2>2. signal \in BOOLEAN /\ initial \in BOOLEAN
    BY <1>2 DEF TypeOK
  <2>3. signal' => signal \/ initial
    BY <1>1, <2>2
  <2>4. signal' => spu'.at = "ready"
    BY <1>1, <1>2, <1>3 DEF SignalsAreForNews
  <2>5. initial' => initial
    BY <1>1
  <2> QED BY <1>1, <1>2, <1>3, <1>4, <2>1, <2>3, <2>4, <2>5 DEF SignalsAreForNews
<1>6. ThreadsInPlace'
  <2>1. Here' = Here
    BY <1>1 DEF Here
  <2> QED BY <1>1, <1>2, <1>3, <2>1 DEF ThreadsInPlace
<1>7. ResultsInPlace'
  BY <1>1, <1>2, <1>3 DEF ResultsInPlace
<1>8. Here' = Here
  BY <1>1 DEF Here
<1>9. ExecutedInOrder' /\ AnswersInPlace'
  BY <1>1, <1>2, <1>3, <1>8 DEF ExecutedInOrder, AnswersInPlace, Executed
<1>10. Undisturbed
  <2>1. Calm => Calm'
    BY <1>1, <1>3, <1>4 DEF Calm
  <2> QED BY <1>1, <1>3, <2>1 DEF Undisturbed, clients
<1> QED BY <1>4, <1>5, <1>6, <1>7, <1>9, <1>10 DEF Machine, SPEInPlace

LEMMA StartSafe ==
  ASSUME IInv, StartThread \/ KernelLoaded
  PROVE  Machine' /\ Undisturbed
<1>1. /\ ppe \in {"start", "sync"} /\ ppe' \in {"sync", "event"}
      /\ UNCHANGED <<kernel, queue, loader, loaded, spu, lines, answer, executed, finished, clients>>
  BY DEF StartThread, KernelLoaded
<1>2. Here' = Here /\ End' = End /\ Load' = Load
  BY <1>1 DEF Here, End, Load, queue, lines
<1>3. (Untouched => Untouched') /\ (Progress => Progress')
  BY <1>1, <1>2 DEF Untouched, Progress, queue, lines
<1>4. SPEInPlace' /\ SignalsAreForNews' /\ ThreadsInPlace' /\ ResultsInPlace'
  BY <1>1, <1>2, <1>3
     DEF IInv, SPEInPlace, SignalsAreForNews, ThreadsInPlace, ResultsInPlace, queue, lines
<1>5. ExecutedInOrder' /\ AnswersInPlace'
  BY <1>1, <1>2 DEF IInv, ExecutedInOrder, AnswersInPlace, Executed, queue, lines
<1>6. Undisturbed
  BY <1>1, <1>2, <1>3 DEF Undisturbed, Calm, queue, lines, clients
<1> QED BY <1>4, <1>5, <1>6 DEF Machine

(* The SPE comes for what it has been signalled.                           *)
LEMMA FetchSafe ==
  ASSUME IInv, Fetch
  PROVE  Machine' /\ Undisturbed
<1>1. /\ spu.at = "ready" /\ signal /\ ~signal' /\ spu' = [spu EXCEPT !.at = "fetch"]
      /\ UNCHANGED <<kernel, queue, threads, mail, outbox, answer, executed, finished, clients>>
  BY DEF Fetch
<1>2. TypeOK /\ spu \in SPUStates /\ SignalsAreForNews /\ ThreadsInPlace /\ ResultsInPlace /\ ExecutedInOrder
      /\ AnswersInPlace
  BY StateSets DEF IInv, TypeInv
<1>3. spu'.at = "fetch" /\ spu'.task = spu.task /\ spu'.copy = spu.copy
  BY <1>1, <1>2 DEF SPUStates
<1>4. Here' = Here /\ End' = End /\ Load' = Load
  BY <1>1 DEF Here, End, Load, queue, threads
<1>5. Untouched /\ Untouched' /\ Load' # 0
  BY <1>1, <1>2, <1>3, <1>4 DEF SignalsAreForNews, Untouched, Working, threads
<1>6. SignalsAreForNews'
  BY <1>1, <1>2, <1>3, <1>5 DEF SignalsAreForNews, queue
<1>7. ThreadsInPlace' /\ ResultsInPlace'
  BY <1>1, <1>2, <1>3, <1>4 DEF ThreadsInPlace, ResultsInPlace, queue, threads
<1>8. ExecutedInOrder' /\ AnswersInPlace'
  BY <1>1, <1>2, <1>3, <1>4 DEF ExecutedInOrder, AnswersInPlace, Executed, queue, threads
<1>9. Undisturbed
  BY <1>1, <1>3 DEF Undisturbed, Calm, queue, threads, clients
<1> QED BY <1>5, <1>6, <1>7, <1>8, <1>9 DEF Machine, SPEInPlace

(* What the SPE fetches is what is on the ring, none of it begun.          *)
LEMMA FetchedSafe ==
  ASSUME IInv, Fetched
  PROVE  Machine' /\ Undisturbed
<1>1. /\ spu.at = "fetch" /\ spu' = [spu EXCEPT !.at = "walk", !.copy = ring]
      /\ UNCHANGED <<kernel, queue, threads, lines, answer, executed, finished, clients>>
  BY DEF Fetched
<1>2. TypeOK /\ RingInOrder /\ spu \in SPUStates /\ SignalsAreForNews /\ ThreadsInPlace /\ ResultsInPlace
      /\ ExecutedInOrder /\ AnswersInPlace
  BY StateSets DEF IInv, TypeInv
<1>3. spu'.at = "walk" /\ spu'.task = spu.task /\ spu'.copy = ring
  BY <1>1, <1>2 DEF SPUStates
<1>4. Here' = Here /\ End' = End /\ Load' = Load
  BY <1>1 DEF Here, End, Load, queue, threads, lines
<1>5. Untouched /\ Load # 0 /\ ~signal /\ ~initial
  BY <1>1, <1>2 DEF SignalsAreForNews
<1>6. Here = index /\ index \in Nat /\ End \in Nat /\ Here <= End
  BY <1>2, <1>5, UntouchedHere, PlaceFacts
<1>7. Progress'
  <2>1. ASSUME NEW s \in Slots PROVE ring[s] = IF Here <= s THEN ring[s] ELSE Noop
    BY <1>2, <1>6 DEF RingInOrder, Slots
  <2>2. \A s \in Slots : spu'.copy[s] = IF Here' <= s /\ ~(spu'.at \in Working /\ s = Here')
                                        THEN ring'[s] ELSE Noop
    BY <1>1, <1>3, <1>4, <2>1 DEF Working, queue
  <2> QED BY <1>1, <1>3, <1>4, <1>5, <1>6, <2>2 DEF Progress, Working, queue, lines
<1>8. SignalsAreForNews' /\ ThreadsInPlace' /\ ResultsInPlace'
  BY <1>1, <1>2, <1>3, <1>4, <1>5
     DEF SignalsAreForNews, ThreadsInPlace, ResultsInPlace, queue, threads, lines
<1>9. ExecutedInOrder' /\ AnswersInPlace'
  BY <1>1, <1>2, <1>3, <1>4 DEF ExecutedInOrder, AnswersInPlace, Executed, queue, threads, lines
<1>10. Undisturbed
  BY <1>1, <1>3 DEF Undisturbed, Calm, queue, threads, clients
<1> QED BY <1>7, <1>8, <1>9, <1>10 DEF Machine, SPEInPlace

LEMMA WalkSafe ==
  ASSUME IInv, Walk
  PROVE  Machine' /\ Undisturbed
<1>1. /\ spu.at = "walk"
      /\ UNCHANGED <<kernel, queue, threads, lines, answer, executed, finished, clients>>
  BY DEF Walk
<1>2. TypeOK /\ RingInOrder /\ spu \in SPUStates /\ SignalsAreForNews /\ ThreadsInPlace /\ ResultsInPlace
      /\ ExecutedInOrder /\ AnswersInPlace /\ SPEInPlace
  BY StateSets DEF IInv, TypeInv
<1>3. Here' = Here /\ End' = End /\ Load' = Load
  BY <1>1 DEF Here, End, Load, queue, threads, lines
<1>4. Here \in Nat /\ End \in Nat /\ index \in Nat /\ index <= Here /\ End <= Ring
  BY <1>2, PlaceFacts
<1>5. CASE Left = {}
  <2>1. spu'.at = "ready" /\ spu'.task = spu.task /\ spu'.copy = spu.copy
    BY <1>2, <1>5 DEF Walk, SPUStates
  <2>2. Untouched => Untouched'
    BY <1>1, <2>1 DEF Untouched, Working, threads, lines
  <2>3. Progress => Progress'
    <3> SUFFICES ASSUME Progress PROVE Progress'
      OBVIOUS
    <3>1. Here = End
      <4> SUFFICES ASSUME Here < End PROVE FALSE
        BY <1>4 DEF Progress
      <4>1. Here \in Slots
        BY <1>4, RingAssumption DEF Slots
      <4>2. ring[Here] # Noop
        BY <1>2, <1>4, <4>1 DEF RingInOrder
      <4>3. spu.copy[Here] = ring[Here]
        BY <1>1, <1>4, <4>1 DEF Progress, Working
      <4> QED BY <1>5, <4>1, <4>2, <4>3 DEF Left
    <3> QED BY <1>1, <1>3, <2>1, <3>1 DEF Progress, Working, queue, lines
  <2>4. SPEInPlace'
    BY <1>2, <2>2, <2>3 DEF SPEInPlace
  <2>5. SignalsAreForNews' /\ ThreadsInPlace' /\ ResultsInPlace'
    BY <1>1, <1>2, <1>3, <2>1, <2>2
       DEF SignalsAreForNews, ThreadsInPlace, ResultsInPlace, Working, queue, threads, lines
  <2>6. ExecutedInOrder' /\ AnswersInPlace'
    BY <1>1, <1>2, <1>3, <2>1 DEF ExecutedInOrder, AnswersInPlace, Executed, queue, threads, lines
  <2>7. Undisturbed
    BY <1>1, <2>1, <2>2 DEF Undisturbed, Calm, queue, threads, lines, clients
  <2> QED BY <2>4, <2>5, <2>6, <2>7 DEF Machine
<1>6. CASE Left # {}
  <2>1. FirstLeft \in Slots /\ spu.copy[FirstLeft] # Noop /\ \A s \in Slots : s < FirstLeft => spu.copy[s] = Noop
    <3>1. FirstLeft \in Left /\ \A r \in Left : FirstLeft <= r
      BY <1>2, <1>6, FirstLeftFacts
    <3>2. \A s \in Slots : s \in Nat
      BY DEF Slots
    <3> QED BY <3>1, <3>2 DEF Left
  <2>2. Progress
    BY <1>2, <2>1 DEF SPEInPlace, Untouched, EmptyRing
  <2>3. FirstLeft = Here /\ Here < End /\ Here \in Slots
    <3>1. Here <= FirstLeft /\ spu.copy[FirstLeft] = ring[FirstLeft]
      BY <2>1, <2>2 DEF Progress
    <3>2. FirstLeft \in Nat /\ FirstLeft < End
      BY <1>2, <2>1, <3>1 DEF RingInOrder, Slots
    <3>3. Here \in Slots /\ Here < End
      BY <1>4, <3>1, <3>2, RingAssumption DEF Slots
    <3>4. spu.copy[Here] = ring[Here] /\ ring[Here] # Noop
      BY <1>1, <1>2, <1>4, <2>2, <3>3 DEF Progress, Working, RingInOrder
    <3> QED BY <1>4, <2>1, <3>1, <3>2, <3>3, <3>4
  <2>4. ring[Here] = spu.copy[Here] /\ ring[Here] \in Instrs \cup {Halt} /\ spu.copy \in [Slots -> Opcodes]
    BY <1>1, <1>2, <1>4, <2>1, <2>2, <2>3 DEF Progress, Working, TypeOK, SPUStates, Opcodes
  <2>5. /\ spu'.task = ring[Here] /\ spu'.copy = [spu.copy EXCEPT ![Here] = Noop]
        /\ spu'.at \in {"mail", "execute", "unknown"}
        /\ spu'.at = "mail" => ring[Here] = Halt
    BY <1>6, <2>3, <2>4 DEF Walk
  <2>6. Progress'
    <3>1. ASSUME NEW s \in Slots
          PROVE spu'.copy[s] = IF Here <= s /\ s # Here THEN ring[s] ELSE Noop
      BY <1>1, <2>2, <2>4, <2>5 DEF Progress, Working
    <3>2. spu'.at \in Working
      BY <2>5 DEF Working
    <3> QED BY <1>1, <1>3, <2>2, <2>3, <2>5, <3>1, <3>2 DEF Progress, queue, threads, lines
  <2>7. SignalsAreForNews' /\ ThreadsInPlace'
    BY <1>1, <1>2, <2>2, <2>5, <1>3
       DEF Progress, SignalsAreForNews, ThreadsInPlace, queue, threads, lines
  <2>8. ResultsInPlace'
    <3>1. ~(spu'.at = "mail" /\ spu'.task \in Answers)
      BY <2>5, InstrsAssumption
    <3> QED BY <1>1, <1>2, <2>5, <3>1 DEF ResultsInPlace, queue, threads, lines
  <2>9. ExecutedInOrder' /\ AnswersInPlace'
    <3>1. \A s \in Slots : ring[s] \in Instrs => (Executed(s)' <=> Executed(s))
      BY <1>1, <1>3, <2>5, InstrsAssumption DEF Executed
    <3> QED BY <1>1, <1>2, <1>3, <3>1 DEF ExecutedInOrder, AnswersInPlace, queue, threads, lines
  <2>10. ~Calm
    BY <1>2, <1>4, <2>2, <2>3, PlaceFacts, ProgressIsNotCalm
  <2>11. Undisturbed
    BY <1>1, <2>5, <2>10 DEF Undisturbed, queue, threads, clients
  <2> QED BY <2>6, <2>7, <2>8, <2>9, <2>11 DEF Machine, SPEInPlace
<1> QED BY <1>5, <1>6

(* While it works on an instruction it is at its place.                    *)
LEMMA WorkingFacts ==
  ASSUME IInv, spu.at \in Working
  PROVE  /\ Progress /\ Load # 0 /\ ~Calm
         /\ Here \in Slots /\ Here < End /\ spu.task = ring[Here] /\ ring[Here] \in Instrs \cup {Halt}
         /\ \A s \in Slots : ring[s] = ring[Here] /\ ring[s] \in Instrs => s = Here
<1>1. TypeOK /\ RingInOrder /\ SPEInPlace /\ InstructionsAreNew
  BY DEF IInv, TypeInv
<1>2. Progress /\ ~Calm
  BY <1>1 DEF SPEInPlace, Untouched, Calm
<1>3. Here < End /\ spu.task = ring[Here]
  BY <1>2 DEF Progress
<1>4. Here \in Slots /\ Here \in Nat /\ index <= Here
  BY <1>1, <1>3, PlaceFacts, RingAssumption DEF Slots
<1>5. ring[Here] # Noop
  BY <1>1, <1>3, <1>4 DEF RingInOrder
<1>6. Load # 0
  BY <1>1, <1>3, <1>4, PlaceFacts
<1> QED BY <1>1, <1>2, <1>3, <1>4, <1>5, <1>6 DEF TypeOK, InstructionsAreNew

(* Steps within an instruction.                                            *)
LEMMA ProgressWithin ==
  ASSUME Progress, spu.at \in Working, spu'.at \in Working, spu'.task = spu.task, spu'.copy = spu.copy,
         UNCHANGED <<ring, signal, initial>>, Here' = Here, End' = End
  PROVE  Progress'
  BY DEF Progress, Working

LEMMA ExecuteSafe ==
  ASSUME IInv, Execute
  PROVE  Machine' /\ Undisturbed
<1>1. /\ spu.at = "execute" /\ executed' = executed \cup {spu.task}
      /\ UNCHANGED <<kernel, queue, threads, lines, answer, finished, clients>>
  BY DEF Execute
<1>2. TypeOK /\ RingInOrder /\ spu \in SPUStates /\ SignalsAreForNews /\ ThreadsInPlace /\ ResultsInPlace
      /\ ExecutedInOrder /\ AnswersInPlace /\ spu.task \in Instrs
  BY <1>1, StateSets DEF IInv, TypeInv
<1>3. Here' = Here /\ End' = End /\ Load' = Load
  BY <1>1 DEF Here, End, Load, queue, threads, lines
<1>4. /\ spu'.at = (IF spu.task \in Answers THEN "result" ELSE "mail")
      /\ spu'.task = spu.task /\ spu'.copy = spu.copy
  BY <1>2 DEF Execute, SPUStates
<1>5. spu.at \in Working /\ spu'.at \in Working
  BY <1>1, <1>4 DEF Working
<1>6. Progress'
  BY <1>1, <1>3, <1>4, <1>5, WorkingFacts, ProgressWithin DEF queue, lines
<1>7. SignalsAreForNews' /\ ThreadsInPlace' /\ ResultsInPlace'
  BY <1>1, <1>2, <1>3, <1>4, <1>5, WorkingFacts
     DEF Progress, SignalsAreForNews, ThreadsInPlace, ResultsInPlace, queue, threads, lines
<1>8. ExecutedInOrder'
  <2>1. finished' \subseteq executed' \cup {Halt} /\ \A i \in executed' : i \in finished' \/ \E s \in Slots : ring'[s] = i
    BY <1>1, <1>2, <1>5, WorkingFacts DEF ExecutedInOrder, queue
  <2>2. ASSUME NEW s \in Slots, ring[s] \in Instrs PROVE ring[s] \in executed' <=> Executed(s)'
    <3>1. CASE s = Here
      BY <1>1, <1>3, <1>4, <1>5, <3>1, WorkingFacts DEF Executed
    <3>2. CASE s # Here
      BY <1>1, <1>2, <1>3, <1>5, <2>2, <3>2, WorkingFacts DEF Executed, ExecutedInOrder
    <3> QED BY <3>1, <3>2
  <2> QED BY <1>1, <2>1, <2>2 DEF ExecutedInOrder, queue
<1>9. AnswersInPlace'
  BY <1>1, <1>2, <1>3 DEF AnswersInPlace, queue, threads
<1>10. Undisturbed
  BY <1>1, <1>4, <1>5, WorkingFacts DEF Undisturbed, queue, threads, clients
<1> QED BY <1>6, <1>7, <1>8, <1>9, <1>10 DEF Machine, SPEInPlace

LEMMA MailResultSafe ==
  ASSUME IInv, MailResult
  PROVE  Machine' /\ Undisturbed
<1>1. /\ spu.at = "result" /\ mail = None /\ mail' = "result" /\ spu' = [spu EXCEPT !.at = "answer"]
      /\ UNCHANGED <<kernel, queue, threads, signal, outbox, answer, executed, finished, clients>>
  BY DEF MailResult
<1>2. TypeOK /\ RingInOrder /\ spu \in SPUStates /\ SignalsAreForNews /\ ThreadsInPlace /\ ResultsInPlace
      /\ ExecutedInOrder /\ AnswersInPlace /\ spu.task \in Answers
  BY <1>1, StateSets DEF IInv, TypeInv
<1>3. Here' = Here /\ End' = End /\ Load' = Load
  BY <1>1, OpcodesAssumption DEF Here, End, Load, queue, threads
<1>4. spu'.at = "answer" /\ spu'.task = spu.task /\ spu'.copy = spu.copy
  BY <1>1, <1>2 DEF SPUStates
<1>5. spu.at \in Working /\ spu'.at \in Working
  BY <1>1, <1>4 DEF Working
<1>6. Progress'
  BY <1>1, <1>3, <1>4, <1>5, WorkingFacts, ProgressWithin DEF queue
<1>7. SignalsAreForNews' /\ ThreadsInPlace'
  BY <1>1, <1>2, <1>3, <1>4, <1>5, WorkingFacts
     DEF Progress, SignalsAreForNews, ThreadsInPlace, queue, threads
<1>8. ResultsInPlace'
  <2>1. ppe # "result" /\ outbox = None
    BY <1>1, <1>2, OpcodesAssumption DEF ResultsInPlace
  <2> QED BY <1>1, <1>2, <1>4, <2>1 DEF ResultsInPlace, threads
<1>9. ExecutedInOrder' /\ AnswersInPlace'
  BY <1>1, <1>2, <1>3, <1>4 DEF ExecutedInOrder, AnswersInPlace, Executed, queue, threads
<1>10. Undisturbed
  BY <1>1, <1>4, <1>5, WorkingFacts DEF Undisturbed, queue, threads, clients
<1> QED BY <1>6, <1>7, <1>8, <1>9, <1>10 DEF Machine, SPEInPlace

LEMMA WriteResultSafe ==
  ASSUME IInv, WriteResult
  PROVE  Machine' /\ Undisturbed
<1>1. /\ spu.at = "answer" /\ outbox = None /\ outbox' = spu.task /\ spu' = [spu EXCEPT !.at = "mail"]
      /\ UNCHANGED <<kernel, queue, threads, signal, mail, answer, executed, finished, clients>>
  BY DEF WriteResult
<1>2. TypeOK /\ RingInOrder /\ spu \in SPUStates /\ SignalsAreForNews /\ ThreadsInPlace /\ ResultsInPlace
      /\ ExecutedInOrder /\ AnswersInPlace /\ spu.task \in Answers
  BY <1>1, StateSets DEF IInv, TypeInv
<1>3. Here' = Here /\ End' = End /\ Load' = Load
  BY <1>1 DEF Here, End, Load, queue, threads
<1>4. spu'.at = "mail" /\ spu'.task = spu.task /\ spu'.copy = spu.copy
  BY <1>1, <1>2 DEF SPUStates
<1>5. spu.at \in Working /\ spu'.at \in Working
  BY <1>1, <1>4 DEF Working
<1>6. Progress'
  BY <1>1, <1>3, <1>4, <1>5, WorkingFacts, ProgressWithin DEF queue
<1>7. SignalsAreForNews' /\ ThreadsInPlace'
  BY <1>1, <1>2, <1>3, <1>4, <1>5, WorkingFacts
     DEF Progress, SignalsAreForNews, ThreadsInPlace, queue, threads
<1>8. ResultsInPlace'
  BY <1>1, <1>2, <1>4, OpcodesAssumption DEF ResultsInPlace, threads
<1>9. ExecutedInOrder' /\ AnswersInPlace'
  BY <1>1, <1>2, <1>3, <1>4 DEF ExecutedInOrder, AnswersInPlace, Executed, queue, threads
<1>10. Undisturbed
  BY <1>1, <1>4, <1>5, WorkingFacts DEF Undisturbed, queue, threads, clients
<1> QED BY <1>6, <1>7, <1>8, <1>9, <1>10 DEF Machine, SPEInPlace

(* An instruction ends with its mail, a halt with the SPE's thread.        *)
LEMMA MailFinishedSafe ==
  ASSUME IInv, MailFinished
  PROVE  Machine' /\ Undisturbed
<1>1. /\ spu.at = "mail" /\ mail = None /\ mail' = "finished"
      /\ UNCHANGED <<kernel, queue, ppe, loaded, signal, outbox, answer, executed, finished, clients>>
  BY DEF MailFinished
<1>2. TypeOK /\ RingInOrder /\ HaltIsAlone /\ spu \in SPUStates /\ SignalsAreForNews /\ ThreadsInPlace
      /\ ResultsInPlace /\ ExecutedInOrder /\ AnswersInPlace
  BY <1>1, StateSets DEF IInv, TypeInv
<1>3. End' = End /\ Load' = Load
  BY <1>1 DEF End, Load, queue
<1>4. /\ Here \in Nat /\ End \in Nat /\ index \in Nat /\ End <= Ring /\ Here' = Here + 1
  <2>1. Here' = Here + 1
    BY <1>1, <1>2, PlaceFacts, OpcodesAssumption DEF Here, queue
  <2> QED BY <1>2, <2>1, PlaceFacts
<1>5. /\ spu.at \in Working /\ Progress /\ Load # 0 /\ ~Calm
      /\ Here \in Slots /\ Here < End /\ spu.task = ring[Here] /\ ring[Here] \in Instrs \cup {Halt}
  BY <1>1, WorkingFacts DEF Working
<1>6. /\ spu'.at = IF spu.task = Halt THEN "stopped" ELSE "walk"
      /\ spu'.copy = IF spu.task = Halt THEN EmptyRing ELSE spu.copy
      /\ loader' = IF spu.task = Halt THEN "gone" ELSE loader
  BY <1>2 DEF MailFinished, SPUStates, Off
<1>7. spu.task = Halt => End = Here + 1 /\ \A s \in Slots : ring[s] \in {Noop, Halt} /\ (Here + 1 <= s => ring[s] = Noop)
  <2> SUFFICES ASSUME spu.task = Halt PROVE End = Here + 1 /\ \A s \in Slots : ring[s] \in {Noop, Halt} /\ (Here + 1 <= s => ring[s] = Noop)
    OBVIOUS
  <2>1. Here = index /\ End = Here + 1
    BY <1>2, <1>5 DEF HaltIsAlone
  <2>2. ASSUME NEW s \in Slots, s # Here PROVE ring[s] = Noop
    <3>1. s \in Nat
      BY DEF Slots
    <3>2. ~(index <= s /\ s < End)
      BY <1>4, <2>1, <2>2, <3>1
    <3> QED BY <1>2, <3>2 DEF RingInOrder
  <2>3. ring[Here] = Halt /\ ~(Here + 1 <= Here)
    BY <1>4, <1>5
  <2> QED BY <2>1, <2>2, <2>3
<1>8. Progress'
  <2>1. ASSUME NEW s \in Slots PROVE spu'.copy[s] = IF Here + 1 <= s THEN ring[s] ELSE Noop
    <3>1. s \in Nat
      BY DEF Slots
    <3>2. CASE spu.task = Halt
      BY <1>6, <1>7, <3>2 DEF EmptyRing
    <3>3. CASE spu.task # Halt
      <4>1. spu.copy[s] = IF Here <= s /\ s # Here THEN ring[s] ELSE Noop
        BY <1>5 DEF Progress
      <4> QED BY <1>4, <1>6, <3>1, <3>3, <4>1
    <3> QED BY <3>2, <3>3
  <2>2. spu'.at \notin Working /\ spu'.at \in {"walk", "stopped"} /\ (spu'.at = "stopped" => spu.task = Halt)
    BY <1>6 DEF Working
  <2>3. ~signal' /\ ~initial'
    BY <1>1, <1>5 DEF Progress, queue
  <2>4. Here' <= End'
    BY <1>3, <1>4, <1>5
  <2>5. spu'.at \in {"ready", "stopped"} => Here' = End'
    BY <1>3, <1>4, <1>7, <2>2
  <2> QED BY <1>1, <1>4, <2>1, <2>2, <2>3, <2>4, <2>5 DEF Progress, queue
<1>9. SignalsAreForNews'
  BY <1>8 DEF Progress, SignalsAreForNews
<1>10. ThreadsInPlace'
  <2>1. ASSUME spu'.at # "stopped", NEW s \in Slots, s < Here' PROVE ring[s] # Halt
    <3>1. s \in Nat /\ (s < Here \/ s = Here)
      BY <1>4, <2>1 DEF Slots
    <3> QED BY <1>1, <1>2, <1>5, <1>6, <2>1, <3>1 DEF ThreadsInPlace
  <2> QED BY <1>1, <1>2, <1>6, <1>7, <2>1 DEF ThreadsInPlace, queue
<1>11. ResultsInPlace'
  <2>1. ppe = "result" => Here = index
    BY <1>1, <1>4, OpcodesAssumption DEF Here
  <2>2. spu'.at \notin {"answer", "mail"}
    BY <1>6
  <2>3. ppe = "result" => ring[index] \in Answers /\ outbox = ring[index]
    BY <1>1, <1>2, <1>5, <2>1, OpcodesAssumption DEF ResultsInPlace
  <2>4. outbox # None => ppe = "result"
    BY <1>1, <1>2, OpcodesAssumption DEF ResultsInPlace
  <2> QED BY <1>1, <2>2, <2>3, <2>4 DEF ResultsInPlace, queue
<1>12. ExecutedInOrder'
  <2>1. ASSUME NEW s \in Slots PROVE Executed(s)' <=> Executed(s)
    <3>1. s \in Nat /\ spu'.at \notin {"result", "answer", "mail"}
      BY <1>6 DEF Slots
    <3> QED BY <1>1, <1>4, <3>1 DEF Executed
  <2> QED BY <1>1, <1>2, <2>1 DEF ExecutedInOrder, queue
<1>13. AnswersInPlace'
  <2>1. ASSUME NEW s \in Slots, ring[s] \in Answers, index <= s, s < Here', ppe # "result"
        PROVE  answer[ring[s]] = ring[s]
    <3>1. s \in Nat /\ (s < Here \/ s = Here)
      BY <1>4, <2>1 DEF Slots
    <3>2. CASE s < Here
      BY <1>2, <2>1, <3>2 DEF AnswersInPlace
    <3>3. CASE s = Here
      BY <1>1, <1>2, <1>5, <2>1, <3>3, OpcodesAssumption DEF ResultsInPlace
    <3> QED BY <3>1, <3>2, <3>3
  <2> QED BY <1>1, <1>2, <2>1 DEF AnswersInPlace, queue
<1>14. Undisturbed
  BY <1>1, <1>5, <1>6 DEF Undisturbed, queue, clients
<1> QED BY <1>8, <1>9, <1>10, <1>11, <1>12, <1>13, <1>14 DEF Machine, SPEInPlace

LEMMA ReadMailSafe ==
  ASSUME IInv, ReadMail
  PROVE  Machine' /\ Undisturbed
<1>1. /\ ppe = "event" /\ mail # None /\ mail' = None
      /\ ppe' = IF mail = "finished" THEN "finish" ELSE "result"
      /\ UNCHANGED <<kernel, queue, loader, loaded, spu, signal, outbox, answer, executed, finished, clients>>
  BY DEF ReadMail
<1>2. TypeOK /\ RingInOrder /\ SPEInPlace /\ ThreadsInPlace /\ ResultsInPlace /\ ExecutedInOrder /\ AnswersInPlace
  BY DEF IInv, TypeInv
<1>3. Here' = Here /\ End' = End
  <2>1. Here' = Here
    BY <1>1, <1>2, PlaceFacts, OpcodesAssumption DEF Here, queue
  <2> QED BY <1>1, <2>1 DEF End, queue
<1>4. Progress /\ ~Calm
  BY <1>1, <1>2 DEF SPEInPlace, Untouched, Calm
<1>5. Progress'
  BY <1>1, <1>3, <1>4 DEF Progress, queue
<1>6. SignalsAreForNews'
  BY <1>5 DEF Progress, SignalsAreForNews
<1>7. ThreadsInPlace'
  BY <1>1, <1>2, <1>3 DEF ThreadsInPlace, queue
<1>8. ResultsInPlace'
  <2>1. mail \in {"result", "finished"}
    BY <1>1, <1>2 DEF TypeOK
  <2> QED BY <1>1, <1>2, <2>1, OpcodesAssumption DEF ResultsInPlace, queue
<1>9. ExecutedInOrder' /\ AnswersInPlace'
  BY <1>1, <1>2, <1>3 DEF ExecutedInOrder, AnswersInPlace, Executed, queue
<1>10. Undisturbed
  BY <1>1, <1>4 DEF Undisturbed, queue, clients
<1> QED BY <1>5, <1>6, <1>7, <1>8, <1>9, <1>10 DEF Machine, SPEInPlace

(* The result that the kernel thread waits for is that of the instruction  *)
(* at index.                                                               *)
LEMMA ResultSafe ==
  ASSUME IInv, Prompt, Result
  PROVE  Machine' /\ Undisturbed
<1>1. /\ ppe = "result" /\ ppe' = "event" /\ outbox # None /\ outbox' = None
      /\ UNCHANGED <<kernel, queue, loader, loaded, spu, signal, mail, executed, finished, clients>>
  BY DEF Result
<1>2. TypeOK /\ RingInOrder /\ SPEInPlace /\ ThreadsInPlace /\ ResultsInPlace /\ ExecutedInOrder /\ AnswersInPlace
  BY DEF IInv, TypeInv
<1>3. Here' = Here /\ End' = End
  BY <1>1 DEF Here, End, queue
<1>4. Progress /\ ~Calm
  BY <1>1, <1>2 DEF SPEInPlace, Untouched, Calm
<1>5. \/ mail = None /\ spu.at = "mail" /\ outbox = spu.task /\ Here = index
      \/ mail = "finished" /\ spu.at # "answer"
  <2>1. mail = None => Here = index
    BY <1>1, <1>2, PlaceFacts, OpcodesAssumption DEF Here
  <2> QED BY <1>1, <1>2, <2>1, OpcodesAssumption DEF ResultsInPlace
<1>6. index \in Slots /\ ring[index] \in Answers /\ outbox = ring[index]
  <2>1. CASE mail = None
    <3>1. spu.at \in Working /\ spu.task \in Answers /\ outbox = spu.task /\ Here = index
      BY <1>1, <1>2, <1>5, <2>1, OpcodesAssumption DEF Working, ResultsInPlace
    <3> QED BY <1>2, <3>1, WorkingFacts DEF TypeOK
  <2>2. CASE mail # None
    BY <1>1, <1>2, <1>5, <2>2 DEF ResultsInPlace, TypeOK
  <2> QED BY <2>1, <2>2
<1>7. \A i \in Answers : answer'[i] = IF i = ring[index] THEN i ELSE answer[i]
  BY <1>1, <1>2, <1>6 DEF Result, TypeOK
<1>8. Progress'
  BY <1>1, <1>3, <1>4 DEF Progress, queue
<1>9. SignalsAreForNews'
  BY <1>8 DEF Progress, SignalsAreForNews
<1>10. ThreadsInPlace'
  BY <1>1, <1>2, <1>3 DEF ThreadsInPlace, queue
<1>11. ResultsInPlace'
  <2>1. mail # "result"
    BY <1>5, OpcodesAssumption
  <2>2. spu.at # "answer"
    BY <1>5
  <2>3. spu.at = "mail" /\ spu.task \in Answers => answer'[spu.task] = spu.task
    BY <1>2, <1>5, <1>6, <1>7, <2>1, OpcodesAssumption DEF ResultsInPlace
  <2> QED BY <1>1, <2>1, <2>2, <2>3 DEF ResultsInPlace
<1>12. ExecutedInOrder'
  BY <1>1, <1>2, <1>3 DEF ExecutedInOrder, Executed, queue
<1>13. AnswersInPlace'
  <2>1. ASSUME NEW s \in Slots, ring[s] \in Answers, index <= s, s < Here
        PROVE  s = index
    <3>1. Here <= index + 1 /\ s \in Nat /\ index \in Nat
      BY <1>1, <1>2, PlaceFacts DEF Here, Slots
    <3> QED BY <1>2, <2>1, <3>1, PlaceFacts
  <2>2. \A i \in Answers \cap finished : answer'[i] = i
    BY <1>2, <1>7 DEF AnswersInPlace
  <2> QED BY <1>1, <1>3, <1>6, <1>7, <2>1, <2>2 DEF AnswersInPlace, queue
<1>14. Undisturbed
  BY <1>1, <1>4 DEF Undisturbed, queue, clients
<1> QED BY <1>8, <1>9, <1>10, <1>11, <1>12, <1>13, <1>14 DEF Machine, SPEInPlace

(* The kernel thread may see that the SPE has stopped before its last mail.*)
LEMMA StoppedSafe ==
  ASSUME IInv, Stopped
  PROVE  Machine' /\ Undisturbed
<1>1. /\ ppe = "event" /\ spu.at = "stopped" /\ ppe' = "gone"
      /\ finished' = finished \cup ({posted[s] : s \in Slots} \ {None})
      /\ UNCHANGED <<kernel, queue, loader, loaded, spu, lines, answer, executed, clients>>
  BY DEF Stopped
<1>2. TypeOK /\ RingInOrder /\ SPEInPlace /\ SignalsAreForNews /\ ThreadsInPlace /\ ResultsInPlace
      /\ ExecutedInOrder /\ AnswersInPlace
  BY DEF IInv, TypeInv
<1>3. Here' = Here /\ End' = End /\ Load' = Load
  BY <1>1 DEF Here, End, Load, queue, lines
<1>4. finished \subseteq finished' /\ finished' \subseteq finished \cup {Halt}
  <2>1. \A s \in Slots : posted[s] \in {None, Halt}
    BY <1>1, <1>2 DEF ThreadsInPlace, RingInOrder
  <2> QED BY <1>1, <2>1
<1>5. (Untouched => Untouched') /\ (Progress => Progress')
  BY <1>1, <1>3 DEF Untouched, Progress, queue, lines
<1>6. SPEInPlace' /\ SignalsAreForNews' /\ ThreadsInPlace' /\ ResultsInPlace'
  BY <1>1, <1>2, <1>3, <1>5
     DEF SPEInPlace, SignalsAreForNews, ThreadsInPlace, ResultsInPlace, queue, lines
<1>7. ExecutedInOrder' /\ AnswersInPlace'
  <2>1. \A i \in Answers : i \in finished' <=> i \in finished
    BY <1>4, InstrsAssumption
  <2> QED BY <1>1, <1>2, <1>3, <1>4, <2>1 DEF ExecutedInOrder, AnswersInPlace, Executed, queue, lines
<1>8. Undisturbed
  BY <1>1, <1>4 DEF Undisturbed, Calm, queue, clients
<1> QED BY <1>6, <1>7, <1>8 DEF Machine

(* The kernel thread frees the place at index, and tells the instruction   *)
(* that was there; the SPE is past it.                                     *)
LEMMA FinishedSafe ==
  ASSUME IInv, TypeOK', Finished
  PROVE  IInv'
<1> PICK i : i = ring[index]
  OBVIOUS
<1>1. /\ ppe = "finish" /\ ppe' = "event"
      /\ ring' = [ring EXCEPT ![index] = Noop] /\ posted' = [posted EXCEPT ![index] = None]
      /\ finished' = Told /\ index' = (index + 1) % Ring
      /\ UNCHANGED <<kernel, free, initial, loader, loaded, spu, lines, answer, executed, clients>>
  BY DEF Finished
<1>2. TypeOK /\ RingInOrder /\ HaltIsAlone /\ SPEInPlace /\ SignalsAreForNews /\ ThreadsInPlace
      /\ ResultsInPlace /\ ExecutedInOrder /\ AnswersInPlace /\ InstructionsAreNew
  BY DEF IInv, TypeInv
<1>3. Progress /\ ~Calm /\ ~Untouched
  BY <1>1, <1>2 DEF SPEInPlace, Untouched, Calm
<1>4. /\ index \in Slots /\ index \in Nat /\ index < Ring /\ Ring \in Nat /\ free \in Nat /\ free < Ring
      /\ End \in Nat /\ End <= Ring /\ Here \in Nat /\ Here <= End /\ index < Here
      /\ Here = index + 1 + (IF mail = "finished" THEN 1 ELSE 0)
      /\ Load # 0
  <2>1. Here = index + 1 + (IF mail = "finished" THEN 1 ELSE 0)
    BY <1>1, <1>2, PlaceFacts DEF Here
  <2>2. index < Here
    BY <1>2, <2>1, PlaceFacts
  <2> QED BY <1>2, <1>3, <2>1, <2>2, PlaceFacts DEF Progress, TypeOK
<1>5. /\ i \in Instrs \cup {Halt} /\ i # Noop /\ finished' = finished \cup {i}
      /\ \A s \in Slots : /\ ring'[s] = IF s = index THEN Noop ELSE ring[s]
                          /\ posted'[s] = IF s = index THEN None ELSE posted[s]
  <2>1. i # Noop
    BY <1>2, <1>4 DEF RingInOrder
  <2>2. i \in Instrs \cup {Halt} /\ posted[index] = i
    BY <1>2, <1>4, <2>1 DEF TypeOK, RingInOrder
  <2>3. posted[index] # None
    BY <2>2, InstrsAssumption, OpcodesAssumption
  <2> QED BY <1>1, <1>2, <2>1, <2>2, <2>3 DEF Told, TypeOK
<1>6. \/ /\ index + 1 < Ring /\ index' = index + 1 /\ End' = End /\ Here' = Here
         /\ free < index' => free = 0
      \/ /\ index + 1 = Ring /\ index' = 0 /\ free = 0 /\ End' = 0 /\ Here' = 0
         /\ Here = Ring /\ End = Ring /\ mail # "finished"
  <2>1. free < index => free = 0
    BY <1>2 DEF RingInOrder
  <2>2. CASE index + 1 < Ring
    <3>1. index' = index + 1
      BY <1>1, <1>4, <2>2, NextPlace
    <3>2. Here' = Here
      BY <1>1, <1>4, <3>1 DEF Here, lines
    <3>3. free # index
      BY <1>4 DEF End
    <3> QED BY <1>1, <1>4, <2>1, <2>2, <3>1, <3>2, <3>3 DEF End
  <2>3. CASE index + 1 = Ring
    <3>1. index' = 0
      BY <1>1, <1>4, <2>3, NextPlace
    <3>2. Here = Ring /\ mail # "finished" /\ End = Ring
      BY <1>4, <2>3
    <3>3. Here' = 0
      BY <1>1, <3>1, <3>2 DEF Here, lines
    <3>4. free = 0
      BY <1>4, <2>1, <3>2 DEF End
    <3> QED BY <1>1, <2>3, <3>1, <3>2, <3>3, <3>4 DEF End
  <2> QED BY <1>4, <2>2, <2>3
<1>7. \A s \in Slots : s \in Nat /\ s < Ring
  BY <1>4 DEF Slots
<1>8. RingInOrder'
  <2>1. \A s \in Slots : ring'[s] # Noop <=> index' <= s /\ s < End'
    BY <1>2, <1>4, <1>5, <1>6, <1>7 DEF RingInOrder
  <2>2. \A s \in Slots : posted'[s] = IF ring'[s] = Noop THEN None ELSE ring'[s]
    BY <1>2, <1>5 DEF RingInOrder
  <2>3. free' < index' => free' = 0
    BY <1>1, <1>6
  <2> QED BY <2>1, <2>2, <2>3 DEF RingInOrder
<1>9. (\A s \in Slots : ring'[s] # Halt) /\ HaltIsAlone'
  BY <1>2, <1>5, OpcodesAssumption DEF HaltIsAlone
<1>10. Progress'
  <2>1. ASSUME NEW s \in Slots
        PROVE spu.copy[s] = IF Here' <= s /\ ~(spu.at \in Working /\ s = Here') THEN ring'[s] ELSE Noop
    <3>1. spu.copy[s] = IF Here <= s /\ ~(spu.at \in Working /\ s = Here) THEN ring[s] ELSE Noop
      BY <1>3 DEF Progress
    <3>2. CASE index + 1 < Ring
      BY <1>4, <1>5, <1>6, <1>7, <3>1, <3>2
    <3>3. CASE index + 1 = Ring
      <4>1. ~(Here <= s) /\ ring'[s] = Noop
        BY <1>4, <1>6, <1>7, <1>8, <3>3 DEF RingInOrder
      <4> QED BY <3>1, <4>1
    <3> QED BY <1>4, <1>6, <3>2, <3>3
  <2>2. spu.at \in Working => Here' = Here /\ Here < End /\ Here \in Slots /\ spu.task = ring'[Here]
    <3> SUFFICES ASSUME spu.at \in Working PROVE Here' = Here /\ Here < End /\ Here \in Slots /\ spu.task = ring'[Here]
      OBVIOUS
    <3>1. Here < End /\ Here \in Slots /\ spu.task = ring[Here]
      BY WorkingFacts
    <3> QED BY <1>4, <1>5, <1>6, <3>1
  <2>3. Here' <= End' /\ (Here = End => Here' = End') /\ (Here < End => End' = End)
    BY <1>4, <1>6
  <2> QED BY <1>1, <1>3, <2>1, <2>2, <2>3 DEF Progress, lines
<1>11. SignalsAreForNews'
  BY <1>10 DEF Progress, SignalsAreForNews
<1>12. i = Halt => spu.at = "stopped"
  BY <1>2, <1>4 DEF ThreadsInPlace
<1>13. ThreadsInPlace'
  <2>1. spu.at = "stopped" => \A s \in Slots : ring'[s] \in {Noop, Halt}
    BY <1>2, <1>5 DEF ThreadsInPlace
  <2>2. Halt \in finished' => spu.at = "stopped"
    BY <1>2, <1>5, <1>12 DEF ThreadsInPlace
  <2> QED BY <1>1, <1>2, <1>9, <2>1, <2>2 DEF ThreadsInPlace
<1>14. ResultsInPlace'
  BY <1>1, <1>2, OpcodesAssumption DEF ResultsInPlace, lines
<1>15. \A s \in Slots : ring'[s] # Noop => s # index /\ ring'[s] = ring[s] /\ Here' = Here /\ index' <= s
  BY <1>5, <1>6, <1>7, <1>8 DEF RingInOrder
<1>16. ExecutedInOrder'
  <2>1. i \in Instrs => i \in executed
    BY <1>2, <1>4 DEF ExecutedInOrder, Executed
  <2>2. finished' \subseteq executed \cup {Halt}
    BY <1>2, <1>5, <2>1 DEF ExecutedInOrder
  <2>3. \A j \in executed : j \in finished' \/ \E s \in Slots : ring'[s] = j
    <3> SUFFICES ASSUME NEW j \in executed, j \notin finished' PROVE \E s \in Slots : ring'[s] = j
      OBVIOUS
    <3>1. PICK s \in Slots : ring[s] = j
      BY <1>2, <1>5 DEF ExecutedInOrder
    <3>2. s # index
      BY <1>5, <3>1
    <3> QED BY <1>5, <3>1, <3>2
  <2>4. \A s \in Slots : ring'[s] \in Instrs => (ring'[s] \in executed <=> Executed(s)')
    <3> SUFFICES ASSUME NEW s \in Slots, ring'[s] \in Instrs PROVE ring'[s] \in executed <=> Executed(s)'
      OBVIOUS
    <3>1. ring'[s] = ring[s] /\ Here' = Here
      BY <1>15, InstrsAssumption
    <3> QED BY <1>1, <1>2, <3>1 DEF ExecutedInOrder, Executed
  <2> QED BY <1>1, <2>2, <2>3, <2>4 DEF ExecutedInOrder
<1>17. AnswersInPlace'
  <2>1. i \in Answers => answer[i] = i
    BY <1>1, <1>2, <1>4 DEF AnswersInPlace
  <2>2. \A s \in Slots : ring'[s] \in Answers /\ index' <= s /\ s < Here' => answer[ring'[s]] = ring'[s]
    <3> SUFFICES ASSUME NEW s \in Slots, ring'[s] \in Answers, index' <= s, s < Here' PROVE answer[ring'[s]] = ring'[s]
      OBVIOUS
    <3>1. ring'[s] = ring[s] /\ Here' = Here /\ index <= s
      BY <1>2, <1>4, <1>7, <1>15, InstrsAssumption DEF RingInOrder
    <3> QED BY <1>1, <1>2, <3>1 DEF AnswersInPlace
  <2> QED BY <1>1, <1>2, <1>5, <2>1, <2>2 DEF AnswersInPlace
<1>18. InstructionsAreNew'
  <2>1. ASSUME NEW j, j \in Instrs => j # i, Pending(j) PROVE Pending(j)'
    BY <1>1, <1>5, <2>1 DEF Pending, clients
  <2>2. \A s \in Slots : Pending(ring[s])'
    <3> SUFFICES ASSUME NEW s \in Slots, ring'[s] \in Instrs PROVE Pending(ring[s])'
      BY DEF Pending
    <3>1. ring'[s] = ring[s] /\ s # index
      BY <1>15, InstrsAssumption
    <3>2. ring[s] # i /\ Pending(ring[s])
      BY <1>2, <1>4, <3>1 DEF InstructionsAreNew
    <3> QED BY <2>1, <3>1, <3>2
  <2>3. \A s, r \in Slots : ring'[s] = ring'[r] /\ ring'[s] \in Instrs => s = r
    BY <1>2, <1>15, InstrsAssumption DEF InstructionsAreNew
  <2>4. ASSUME NEW c \in Clients, NEW n \in Remaining(c)
        PROVE  /\ Pending(client[c].todo[n])'
               /\ client[c].todo[n] \in Instrs => \A s \in Slots : ring'[s] # client[c].todo[n]
    <3> PICK j : j = client[c].todo[n]
      OBVIOUS
    <3>1. Pending(j) /\ (j \in Instrs => \A s \in Slots : ring[s] # j)
      BY <1>2 DEF InstructionsAreNew
    <3>2. Pending(j)'
      BY <1>4, <2>1, <3>1
    <3>3. j \in Instrs => \A s \in Slots : ring'[s] # j
      BY <1>5, <3>1, InstrsAssumption
    <3> QED BY <1>1, <3>2, <3>3 DEF clients
  <2>5. \A c \in Clients : Remaining(c)' = Remaining(c)
    BY <1>1 DEF Remaining, clients
  <2> QED BY <1>1, <1>2, <2>2, <2>3, <2>4, <2>5 DEF InstructionsAreNew, clients
<1>19. OneAtATime'
  BY <1>1 DEF IInv, OneAtATime, Idle, clients
<1>20. HaltsAreOurs'
  <2>1. NoHalt => NoHalt'
    BY <1>1, <1>5, <1>9, <1>12 DEF NoHalt
  <2>2. \A c \in Clients : Halts(c) => Halts(c)'
    BY <1>1 DEF Halts, clients
  <2> QED BY <2>1, <2>2 DEF IInv, HaltsAreOurs
<1>21. CallsInOrder'
  <2> SUFFICES ASSUME NEW c \in Clients PROVE CallInOrder(c)'
    BY DEF CallsInOrder
  <2>1. CallInOrder(c)
    BY DEF IInv, CallsInOrder
  <2>2. client[c].at \notin {"kernel", "enqueue", "signal"}
    BY <1>3, <2>1 DEF CallInOrder, Puts, Signals
  <2>3. client[c].at = "prepare" => Prepares(c)'
    BY <1>1, <1>4, <2>1 DEF CallInOrder, Prepares, clients
  <2>4. Halt \in finished => Halt \in finished'
    BY <1>5
  <2> QED BY <1>1, <2>1, <2>2, <2>3, <2>4 DEF CallInOrder, IsTodo, clients
<1>22. TypeInv'
  BY NextTypeInv DEF IInv, Next, PPEStep
<1> QED BY <1>8, <1>9, <1>10, <1>11, <1>13, <1>14, <1>16, <1>17, <1>18, <1>19, <1>20, <1>21, <1>22
        DEF IInv, SPEInPlace

-----------------------------------------------------------------------------
(* Clients. *)

(* Whoever is in the manager, or enters it, is there alone.                *)
LEMMA Alone ==
  ASSUME IInv, NEW c \in Clients, ~Idle(c) \/ MayCall(c)
  PROVE  /\ \A d \in Clients : d # c => client[d] = Free
         /\ NoHalt \/ Halts(c)
<1>1. ASSUME NEW d \in Clients, d # c PROVE client[d].at = "free"
  <2>1. Idle(d)
    BY <1>1 DEF IInv, OneAtATime, MayCall, Quiet
  <2>2. client[d].at # "left"
    BY DEF IInv, OneAtATime, MayCall
  <2> QED BY <2>1, <2>2 DEF Idle
<1>2. ASSUME NEW d \in Clients, d # c PROVE client[d] = Free /\ ~Halts(d)
  BY <1>1, <1>2 DEF IInv, CallsInOrder, CallInOrder, Halts
<1> QED BY <1>2 DEF IInv, HaltsAreOurs

LEMMA OursIsInOrder ==
  ASSUME IInv, NEW c \in Clients, \A d \in Clients : d # c => client[d] = Free,
         NEW cl, client' = [client EXCEPT ![c] = cl], CallInOrder(c)'
  PROVE  OneAtATime' /\ CallsInOrder'
<1>1. client'[c] = cl /\ \A d \in Clients : d # c => client'[d] = Free
  BY DEF IInv, TypeInv, TypeOK
<1>2. \A d \in Clients : d # c => CallInOrder(d)'
  BY <1>1 DEF CallInOrder, Free
<1>3. \A d \in Clients : d # c => Idle(d)' /\ client'[d].at # "left"
  BY <1>1 DEF Idle, Free
<1>4. client'[c].at = "left" => Idle(c)'
  BY DEF Idle
<1> QED BY <1>2, <1>3, <1>4 DEF OneAtATime, CallsInOrder

(* A client's todo is in order if what it has yet to put there is.         *)
ToBePut(c) ==
    /\ \A n \in Remaining(c) : /\ Pending(client[c].todo[n])
                               /\ client[c].todo[n] \in Instrs => \A s \in Slots : ring[s] # client[c].todo[n]
    /\ \A m, n \in 1..Len(client[c].todo) : client[c].todo[m] = client[c].todo[n] => m = n

LEMMA OursAreNew ==
  ASSUME IInv, NEW c \in Clients, \A d \in Clients : d # c => client[d] = Free,
         NEW cl, client' = [client EXCEPT ![c] = cl],
         \A s \in Slots : Pending(ring[s])',
         \A s, r \in Slots : ring'[s] = ring'[r] /\ ring'[s] \in Instrs => s = r,
         ToBePut(c)'
  PROVE  InstructionsAreNew'
<1>1. \A d \in Clients : d # c => client'[d] = Free
  BY DEF IInv, TypeInv, TypeOK
<1>2. Len(<<>>) = 0 /\ 1..0 = {}
  OBVIOUS
<1>3. ASSUME NEW d \in Clients, d # c PROVE Len(client'[d].todo) = 0 /\ Remaining(d)' = {}
  BY <1>1, <1>2, <1>3 DEF Remaining, Free
<1> QED BY <1>2, <1>3 DEF InstructionsAreNew, ToBePut

(* Steps that only change what a client is about to do.                    *)
Elsewhere == UNCHANGED <<kernel, queue, threads, spu, lines, answer, executed, finished>>

LEMMA ElsewhereFrame ==
  ASSUME IInv, Elsewhere
  PROVE  /\ RingInOrder' /\ HaltIsAlone' /\ Machine'
         /\ End' = End /\ Load' = Load /\ Here' = Here
         /\ (Calm' <=> Calm) /\ (NoHalt' <=> NoHalt)
<1>1. End' = End /\ Load' = Load /\ Here' = Here
  BY DEF Elsewhere, End, Load, Here, queue, threads, lines
<1>2. (Untouched' <=> Untouched) /\ (Progress' <=> Progress)
  BY <1>1 DEF Elsewhere, Untouched, Progress, queue, threads, lines
<1>3. (Calm' <=> Calm) /\ (NoHalt' <=> NoHalt)
  BY <1>2 DEF Elsewhere, Calm, NoHalt, queue, lines
<1>4. RingInOrder' /\ HaltIsAlone'
  BY <1>1 DEF IInv, Elsewhere, RingInOrder, HaltIsAlone, queue
<1>5. SPEInPlace' /\ SignalsAreForNews' /\ ThreadsInPlace'
  BY <1>1, <1>2 DEF IInv, Elsewhere, SPEInPlace, SignalsAreForNews, ThreadsInPlace, queue, threads, lines
<1>6. ResultsInPlace' /\ ExecutedInOrder' /\ AnswersInPlace'
  BY <1>1 DEF IInv, Elsewhere, ResultsInPlace, ExecutedInOrder, AnswersInPlace, Executed, queue, threads, lines
<1> QED BY <1>1, <1>3, <1>4, <1>5, <1>6 DEF Machine

(* A step of a client alone in the manager that adds nothing to the ring.  *)
LEMMA OursIsSafe ==
  ASSUME IInv, TypeInv', NEW c \in Clients, \A d \in Clients : d # c => client[d] = Free,
         NEW cl, client' = [client EXCEPT ![c] = cl], ring' = ring, finished' = finished,
         \A d \in Clients : outstanding[d] \subseteq outstanding'[d],
         RingInOrder', HaltIsAlone', Machine',
         CallInOrder(c)', ToBePut(c)', NoHalt' \/ Halts(c)'
  PROVE  IInv'
<1>1. OneAtATime' /\ CallsInOrder'
  BY OursIsInOrder
<1>2. \A i : Pending(i) => Pending(i)'
  BY DEF Pending
<1>3. InstructionsAreNew'
  <2>1. \A s \in Slots : Pending(ring[s])'
    BY <1>2 DEF IInv, InstructionsAreNew
  <2>2. \A s, r \in Slots : ring'[s] = ring'[r] /\ ring'[s] \in Instrs => s = r
    BY DEF IInv, InstructionsAreNew
  <2> QED BY <2>1, <2>2, OursAreNew
<1>4. HaltsAreOurs'
  BY DEF HaltsAreOurs
<1> QED BY <1>1, <1>3, <1>4 DEF IInv, Machine

LEMMA ElsewhereSafe ==
  ASSUME IInv, TypeInv', NEW c \in Clients, \A d \in Clients : d # c => client[d] = Free,
         NEW cl, client' = [client EXCEPT ![c] = cl], Elsewhere,
         \A d \in Clients : outstanding[d] \subseteq outstanding'[d],
         CallInOrder(c)', ToBePut(c)', NoHalt \/ Halts(c)'
  PROVE  IInv'
<1>1. RingInOrder' /\ HaltIsAlone' /\ Machine' /\ (NoHalt' <=> NoHalt)
  BY ElsewhereFrame
<1>2. ring' = ring /\ finished' = finished
  BY DEF Elsewhere, queue
<1> QED BY <1>1, <1>2, OursIsSafe

(* The SPE is idle and has no signal: what a client finds in prepare_spe().*)
LEMMA IdleIsCalm == IInv /\ Load = 0 /\ NoHalt => Calm /\ free = index /\ End = index
  BY IdleFacts DEF IInv, SignalsAreForNews, Calm, NoHalt

LEMMA DispatchSafe ==
  ASSUME IInv, TypeInv', NEW c \in Clients, NEW i \in Instrs, Dispatch(c, i)
  PROVE  IInv'
<1>1. /\ MayCall(c) /\ New(i)
      /\ client' = [client EXCEPT ![c] = [at |-> "prepare", todo |-> <<i>>, call |-> "single"]]
      /\ outstanding' = [outstanding EXCEPT ![c] = @ \cup {i}]
      /\ Elsewhere
  BY DEF Dispatch, Elsewhere
<1>2. /\ client'[c] = [at |-> "prepare", todo |-> <<i>>, call |-> "single"]
      /\ i \in outstanding'[c]
      /\ \A d \in Clients : outstanding[d] \subseteq outstanding'[d]
  BY <1>1 DEF IInv, TypeInv, TypeOK
<1>3. (\A d \in Clients : d # c => client[d] = Free) /\ NoHalt
  BY <1>1, Alone DEF MayCall, Free, Halts
<1>4. Len(<<i>>) = 1 /\ <<i>>[1] = i /\ <<i>> # <<>> /\ <<i>> \in Seq(Instrs)
  OBVIOUS
<1>5. CallInOrder(c)'
  BY <1>2, <1>4 DEF CallInOrder, Prepares
<1>6. ToBePut(c)'
  <2>1. \A s \in Slots : ring[s] # i
    BY <1>1 DEF IInv, InstructionsAreNew, Pending, New
  <2>2. Pending(i)'
    BY <1>1, <1>2 DEF Pending, New, Elsewhere
  <2>3. \A n \in Remaining(c)' : client'[c].todo[n] = i
    BY <1>2, <1>4 DEF Remaining
  <2>4. \A m, n \in 1..Len(client'[c].todo) : m = n
    BY <1>2, <1>4
  <2> QED BY <1>1, <2>1, <2>2, <2>3, <2>4 DEF ToBePut, Elsewhere, queue, Pending
<1> QED BY <1>1, <1>2, <1>3, <1>5, <1>6, ElsewhereSafe

LEMMA DispatchBatchSafe ==
  ASSUME IInv, TypeInv', Straight, NEW c \in Clients, NEW b \in Batches, DispatchBatch(c, b)
  PROVE  IInv'
<1>1. /\ MayCall(c) /\ MayBatch(b) /\ \A n \in 1..Len(b) : New(b[n])
      /\ client' = [client EXCEPT ![c] = [at |-> "prepare", todo |-> b, call |-> "batch"]]
      /\ outstanding' = [outstanding EXCEPT ![c] = @ \cup {b[n] : n \in 1..Len(b)}]
      /\ Elsewhere
  BY DEF DispatchBatch, Elsewhere
<1>2. /\ client'[c] = [at |-> "prepare", todo |-> b, call |-> "batch"]
      /\ \A n \in 1..Len(b) : b[n] \in outstanding'[c]
      /\ \A d \in Clients : outstanding[d] \subseteq outstanding'[d]
  BY <1>1 DEF IInv, TypeInv, TypeOK
<1>3. (\A d \in Clients : d # c => client[d] = Free) /\ NoHalt
  BY <1>1, Alone DEF MayCall, Free, Halts
<1>4. /\ b \in Seq(Instrs) /\ b # <<>>
      /\ \A m, n \in 1..Len(b) : b[m] = b[n] => m = n
      /\ \A n \in 1..Len(b) : b[n] \in Instrs
  BY BatchesAssumption, ElementOfSeq
<1>5. CallInOrder(c)'
  <2>1. loader = "run" /\ Load = 0 /\ b[1] \in Knows[kernel] /\ free + Len(b) <= Ring
    BY <1>1 DEF MayBatch
  <2>2. Load' = 0
    BY <1>1, <2>1, ElsewhereFrame
  <2>3. loader' = "run" /\ b[1] \in Knows[kernel'] /\ free' + Len(b) <= Ring
    BY <1>1, <2>1 DEF Elsewhere, queue, threads
  <2> QED BY <1>2, <1>4, <2>2, <2>3 DEF CallInOrder, Prepares
<1>6. ToBePut(c)'
  <2>1. ASSUME NEW n \in 1..Len(b) PROVE Pending(b[n])' /\ \A s \in Slots : ring[s] # b[n]
    <3>1. New(b[n]) /\ b[n] \in Instrs
      BY <1>1, <1>4
    <3> QED BY <1>1, <1>2, <3>1 DEF IInv, InstructionsAreNew, Pending, New, Elsewhere
  <2>2. client'[c].todo = b /\ \A n \in Remaining(c)' : n \in 1..Len(b)
    BY <1>2 DEF Remaining
  <2>3. \A n \in 1..Len(b) : Pending(client[c].todo[n])'
    BY <2>1, <2>2 DEF Pending
  <2>4. ring' = ring
    BY <1>1 DEF Elsewhere, queue
  <2> QED BY <1>4, <2>1, <2>2, <2>3, <2>4 DEF ToBePut
<1> QED BY <1>1, <1>2, <1>3, <1>5, <1>6, ElsewhereSafe

(* When nobody waits for anything, nothing is on the ring.                 *)
LEMMA DestroySafe ==
  ASSUME IInv, TypeInv', NEW c \in Clients, Destroy(c)
  PROVE  IInv'
<1>1. /\ MayCall(c) /\ \A d \in Clients : outstanding[d] = {}
      /\ client' = [client EXCEPT ![c] = [at |-> "kernel", todo |-> <<Halt>>, call |-> "destroy"]]
      /\ Elsewhere /\ outstanding' = outstanding
  BY DEF Destroy, Elsewhere
<1>2. client'[c] = [at |-> "kernel", todo |-> <<Halt>>, call |-> "destroy"]
  BY <1>1 DEF IInv, TypeInv, TypeOK
<1>3. (\A d \in Clients : d # c => client[d] = Free) /\ NoHalt
  BY <1>1, Alone DEF MayCall, Free, Halts
<1>4. Load = 0
  <2>1. TypeOK /\ RingInOrder /\ InstructionsAreNew
    BY DEF IInv, TypeInv
  <2>2. \A s \in Slots : ring[s] = Noop
    BY <1>1, <1>3, <2>1 DEF TypeOK, NoHalt, InstructionsAreNew, Pending
  <2>3. index \in Slots /\ ~(index < End)
    BY <2>1, <2>2, PlaceFacts DEF RingInOrder, TypeOK
  <2> QED BY <2>1, <2>3, PlaceFacts
<1>5. CallInOrder(c)'
  <2>1. Calm' /\ Load' = 0
    BY <1>1, <1>3, <1>4, IdleIsCalm, ElsewhereFrame
  <2> QED BY <1>2, <2>1 DEF CallInOrder, Puts, IsTodo
<1>6. ToBePut(c)'
  <2>1. Len(<<Halt>>) = 1 /\ <<Halt>>[1] = Halt /\ Halt \notin Instrs
    BY InstrsAssumption
  <2>2. \A n \in Remaining(c)' : client'[c].todo[n] = Halt
    BY <1>2, <2>1 DEF Remaining
  <2>3. \A m, n \in 1..Len(client'[c].todo) : m = n
    BY <1>2, <2>1
  <2> QED BY <2>1, <2>2, <2>3 DEF ToBePut, Pending
<1> QED BY <1>1, <1>3, <1>5, <1>6, ElsewhereSafe

(* One instruction, or a halt and one.                                     *)
LEMMA PairFacts ==
  ASSUME NEW S, NEW a \in S, NEW b \in S
  PROVE  /\ <<a>> \o <<b>> = <<a, b>> /\ Tail(<<a, b>>) = <<b>>
         /\ Len(<<a, b>>) = 2 /\ <<a, b>>[1] = a /\ <<a, b>>[2] = b /\ <<a, b>> # <<>>
<1>1. /\ <<a>> \in Seq(S) /\ <<b>> \in Seq(S) /\ <<a, b>> \in Seq(S)
      /\ Len(<<a>>) = 1 /\ Len(<<b>>) = 1 /\ Len(<<a, b>>) = 2
  OBVIOUS
<1>2. <<a>> \o <<b>> \in Seq(S) /\ Len(<<a>> \o <<b>>) = 2
  BY <1>1, ConcatProperties
<1>3. \A n \in 1..2 : (<<a>> \o <<b>>)[n] = <<a, b>>[n]
  BY <1>1, ConcatProperties
<1>4. /\ Tail(<<a, b>>) \in Seq(S) /\ Len(Tail(<<a, b>>)) = 1
      /\ \A n \in 1..1 : Tail(<<a, b>>)[n] = <<b>>[n]
  BY <1>1, HeadTailProperties
<1>5. <<a>> \o <<b>> = <<a, b>>
  BY <1>1, <1>2, <1>3, SeqEqual
<1>6. Tail(<<a, b>>) = <<b>>
  BY <1>1, <1>4, SeqEqual
<1> QED BY <1>1, <1>5, <1>6

LEMMA TodoFacts ==
  ASSUME NEW cl, IsTodo(cl)
  PROVE  /\ cl.todo # <<>> /\ cl.call \in {"destroy", "single"}
         /\ \/ Len(cl.todo) = 1 /\ (cl.call = "destroy" <=> cl.todo[1] = Halt)
            \/ /\ Len(cl.todo) = 2 /\ cl.call = "single" /\ cl.todo[1] = Halt /\ cl.todo[2] \in Instrs
               /\ Tail(cl.todo) = <<cl.todo[2]>>
<1> PICK t : t = cl.todo
  OBVIOUS
<1>1. \A x : Len(<<x>>) = 1 /\ <<x>>[1] = x /\ <<x>> # <<>>
  OBVIOUS
<1>2. CASE cl.call = "destroy"
  <2>1. t = <<Halt>>
    BY <1>2 DEF IsTodo
  <2> QED BY <1>1, <1>2, <2>1
<1>3. CASE cl.call # "destroy"
  <2>1. PICK i \in Instrs : cl.call = "single" /\ t \in {<<i>>, <<Halt, i>>}
    BY <1>3 DEF IsTodo
  <2>2. i # Halt
    BY InstrsAssumption
  <2>3. CASE t = <<i>>
    BY <1>1, <2>1, <2>2, <2>3
  <2>4. CASE t = <<Halt, i>>
    <3>1. Tail(t) = <<i>> /\ Len(t) = 2 /\ t[1] = Halt /\ t[2] = i /\ t # <<>>
      BY <2>4, PairFacts
    <3> QED BY <2>1, <3>1
  <2> QED BY <2>1, <2>3, <2>4
<1> QED BY <1>2, <1>3

LEMMA PrepareSafe ==
  ASSUME IInv, TypeInv', NEW c \in Clients, Prepare(c)
  PROVE  IInv'
<1>1. PICK cl : /\ client' = [client EXCEPT ![c] = cl]
                /\ cl = [client[c] EXCEPT !.at = "kernel",
                           !.todo = IF client[c].todo[1] \in Knows[kernel] THEN client[c].todo
                                    ELSE <<Halt>> \o client[c].todo]
  BY DEF Prepare
<1>2. client[c].at = "prepare" /\ Load = 0 /\ Elsewhere /\ outstanding' = outstanding
  BY DEF Prepare, Elsewhere
<1>3. client[c] \in ClientStates /\ client'[c] = cl
  BY <1>1, StateSets DEF IInv, TypeInv, TypeOK
<1>4. /\ cl.at = "kernel" /\ cl.call = client[c].call
      /\ cl.todo = IF client[c].todo[1] \in Knows[kernel] THEN client[c].todo
                   ELSE <<Halt>> \o client[c].todo
  BY <1>1, <1>3 DEF ClientStates
<1>5. Prepares(c)
  BY <1>2 DEF IInv, CallsInOrder, CallInOrder
<1>6. (\A d \in Clients : d # c => client[d] = Free) /\ NoHalt
  BY <1>2, Alone DEF Idle, Halts
<1>7. Calm /\ free = index /\ End = index /\ Calm' /\ Load' = 0 /\ End' = End
  BY <1>2, <1>6, IdleIsCalm, ElsewhereFrame
<1>8. ASSUME client[c].call = "single"
      PROVE  /\ client[c].todo = <<client[c].todo[1]>> /\ client[c].todo[1] \in Instrs
             /\ cl.todo \in {<<client[c].todo[1]>>, <<Halt, client[c].todo[1]>>}
  <2>1. PICK t : t = client[c].todo
    OBVIOUS
  <2>2. t \in Seq(Instrs) /\ Len(t) = 1 /\ t # <<>>
    BY <1>5, <1>8, <2>1 DEF Prepares
  <2>3. t = <<t[1]>> /\ t[1] \in Instrs
    BY <2>2
  <2>4. Halt \in Instrs \cup {Halt} /\ t[1] \in Instrs \cup {Halt}
    BY <2>3
  <2>5. <<Halt>> \o <<t[1]>> = <<Halt, t[1]>>
    BY <2>4, PairFacts
  <2> QED BY <1>4, <2>1, <2>3, <2>5
<1>9. ASSUME client[c].call = "batch" PROVE cl.todo = client[c].todo
  BY <1>4, <1>5, <1>9 DEF Prepares
<1>10. client[c].call \in {"single", "batch"}
  BY <1>5 DEF Prepares
<1>11. CallInOrder(c)'
  <2>1. CASE client[c].call = "single"
    <3>1. IsTodo(cl)
      BY <1>4, <1>8, <2>1 DEF IsTodo
    <3> QED BY <1>3, <1>4, <1>7, <3>1 DEF CallInOrder, Puts, IsTodo
  <2>2. CASE client[c].call = "batch"
    <3>1. loader' = "run" /\ End' + Len(cl.todo) <= Ring /\ cl.todo \in Seq(Instrs) /\ cl.todo # <<>>
      BY <1>2, <1>5, <1>7, <1>9, <2>2 DEF Prepares, Elsewhere, threads
    <3> QED BY <1>3, <1>4, <1>7, <2>2, <3>1 DEF CallInOrder, Puts
  <2> QED BY <1>10, <2>1, <2>2
<1>12. ToBePut(c)'
  <2>1. \A i : Pending(i) => Pending(i)'
    BY <1>2 DEF Elsewhere, Pending
  <2>2. ring' = ring
    BY <1>2 DEF Elsewhere, queue
  <2>3. \A n \in 1..Len(client[c].todo) : n \in Remaining(c)
    BY <1>2 DEF Remaining
  <2>4. ToBePut(c)
    BY DEF IInv, InstructionsAreNew, ToBePut
  <2>5. Remaining(c)' = 1..Len(cl.todo)
    BY <1>3, <1>4 DEF Remaining
  <2>6. CASE cl.todo = client[c].todo
    <3>1. ASSUME NEW n \in Remaining(c)'
          PROVE Pending(client[c].todo[n])' /\ (cl.todo[n] \in Instrs => \A s \in Slots : ring'[s] # cl.todo[n])
      <4>1. n \in Remaining(c)
        BY <2>3, <2>5, <2>6
      <4>2. Pending(client[c].todo[n])
        BY <2>4, <4>1 DEF ToBePut
      <4> QED BY <1>3, <2>1, <2>2, <2>4, <2>6, <4>1, <4>2 DEF ToBePut, Pending
    <3>2. \A m, n \in 1..Len(client'[c].todo) : client'[c].todo[m] = client'[c].todo[n] => m = n
      BY <1>3, <2>4, <2>6 DEF ToBePut
    <3> QED BY <1>3, <3>1, <3>2 DEF ToBePut
  <2>7. CASE cl.todo # client[c].todo
    <3>1. PICK i \in Instrs : client[c].todo = <<i>> /\ cl.todo = <<Halt, i>>
      BY <1>8, <1>9, <1>10, <2>7
    <3>2. 1 \in Remaining(c) /\ client[c].todo[1] = i
      BY <2>3, <3>1
    <3>3. Pending(i) /\ \A s \in Slots : ring[s] # i
      BY <2>4, <3>2 DEF ToBePut
    <3>4. Halt \notin Instrs /\ Len(cl.todo) = 2 /\ cl.todo[1] = Halt /\ cl.todo[2] = i
      BY <3>1, InstrsAssumption
    <3>5. client'[c].todo[1] = Halt /\ client'[c].todo[2] = i /\ Len(client'[c].todo) = 2
      BY <1>3, <3>4
    <3>6. \A n \in Remaining(c)' : n \in {1, 2}
      BY <2>5, <3>4
    <3>7. ASSUME NEW n \in Remaining(c)'
          PROVE  /\ Pending(client[c].todo[n])'
                 /\ client'[c].todo[n] \in Instrs => \A s \in Slots : ring'[s] # client'[c].todo[n]
      <4>1. client'[c].todo[n] \in {Halt, i}
        BY <3>5, <3>6
      <4>2. Pending(i)'
        BY <2>1, <3>3
      <4> QED BY <2>2, <3>3, <3>4, <4>1, <4>2 DEF Pending
    <3>8. \A m, n \in 1..Len(client'[c].todo) : client'[c].todo[m] = client'[c].todo[n] => m = n
      BY <3>4, <3>5
    <3> QED BY <3>7, <3>8 DEF ToBePut
  <2> QED BY <2>6, <2>7
<1> QED BY <1>1, <1>2, <1>6, <1>11, <1>12, ElsewhereSafe

LEMMA GetKernelSafe ==
  ASSUME IInv, TypeInv', NEW c \in Clients, GetKernel(c)
  PROVE  IInv'
<1>1. PICK cl : client' = [client EXCEPT ![c] = cl] /\ cl = [client[c] EXCEPT !.at = "enqueue"]
  BY DEF GetKernel
<1>2. client[c].at = "kernel" /\ Elsewhere /\ outstanding' = outstanding
  BY DEF GetKernel, Elsewhere
<1>3. client[c] \in ClientStates /\ client'[c] = cl
  BY <1>1, StateSets DEF IInv, TypeInv, TypeOK
<1>4. cl.at = "enqueue" /\ cl.todo = client[c].todo /\ cl.call = client[c].call
  BY <1>1, <1>3 DEF ClientStates
<1>5. Puts(c)
  BY <1>2 DEF IInv, CallsInOrder, CallInOrder
<1>6. (\A d \in Clients : d # c => client[d] = Free) /\ NoHalt
  BY <1>2, Alone DEF Idle, Halts
<1>7. CallInOrder(c)'
  <2>1. (Calm' <=> Calm) /\ Load' = Load /\ End' = End /\ loader' = loader
    BY <1>2, ElsewhereFrame DEF Elsewhere, threads
  <2>2. Puts(c)'
    BY <1>3, <1>4, <1>5, <2>1 DEF Puts, IsTodo
  <2> QED BY <1>3, <1>4, <2>2 DEF CallInOrder
<1>8. ToBePut(c)'
  <2>1. \A i : Pending(i) => Pending(i)'
    BY <1>2 DEF Elsewhere, Pending
  <2>2. ring' = ring
    BY <1>2 DEF Elsewhere, queue
  <2>3. ToBePut(c)
    BY DEF IInv, InstructionsAreNew, ToBePut
  <2>4. client'[c].todo = client[c].todo /\ Remaining(c)' = Remaining(c)
    BY <1>2, <1>3, <1>4 DEF Remaining
  <2>5. \A n \in Remaining(c) : Pending(client[c].todo[n])'
    BY <2>1, <2>3, <2>4 DEF ToBePut, Pending
  <2> QED BY <2>2, <2>3, <2>4, <2>5 DEF ToBePut
<1> QED BY <1>1, <1>2, <1>6, <1>7, <1>8, ElsewhereSafe

(* The kernel's mutex is given back, or run_queue() ends.                  *)
LEMMA SignalledFrame ==
  ASSUME IInv, Calm, Load # 0, spu.at # "off", signal' = TRUE,
         UNCHANGED <<kernel, queue, threads, spu, mail, outbox, answer, executed, finished>>
  PROVE  RingInOrder' /\ HaltIsAlone' /\ Machine' /\ (NoHalt' <=> NoHalt)
<1>1. End' = End /\ Load' = Load /\ Here' = Here
  BY DEF End, Load, Here, queue, threads
<1>2. RingInOrder' /\ HaltIsAlone' /\ (NoHalt' <=> NoHalt)
  BY <1>1 DEF IInv, RingInOrder, HaltIsAlone, NoHalt, queue
<1>3. Untouched'
  BY DEF Calm, Untouched, threads
<1>4. SPEInPlace' /\ SignalsAreForNews' /\ ThreadsInPlace'
  BY <1>1, <1>3 DEF IInv, SPEInPlace, SignalsAreForNews, ThreadsInPlace, Calm, queue, threads
<1>5. ResultsInPlace' /\ ExecutedInOrder' /\ AnswersInPlace'
  BY <1>1 DEF IInv, ResultsInPlace, ExecutedInOrder, AnswersInPlace, Executed, queue, threads
<1> QED BY <1>2, <1>4, <1>5 DEF Machine

LEMMA FreeIsInOrder ==
  ASSUME NEW c \in Clients, client'[c].todo = <<>>
  PROVE  /\ ToBePut(c)'
         /\ client'[c] = Free \/ client'[c].at = "left" => CallInOrder(c)'
<1>1. Len(<<>>) = 0 /\ 1..0 = {}
  OBVIOUS
<1>2. Remaining(c)' = {}
  BY <1>1 DEF Remaining
<1> QED BY <1>1, <1>2 DEF ToBePut, CallInOrder, Free

LEMMA RunQueueSafe ==
  ASSUME IInv, TypeInv', NEW c \in Clients, RunQueue(c)
  PROVE  IInv'
<1>1. /\ client[c].at = "enqueue" /\ client[c].todo = <<>>
      /\ signal' = (signal \/ loaded)
      /\ client' = [client EXCEPT ![c] = Free] /\ outstanding' = outstanding
      /\ UNCHANGED <<kernel, queue, threads, spu, mail, outbox, answer, executed, finished>>
  BY DEF RunQueue
<1>2. Puts(c) /\ (\A d \in Clients : d # c => client[d] = Free) /\ NoHalt
  BY <1>1, Alone DEF IInv, CallsInOrder, CallInOrder, Idle, Halts
<1>3. Calm /\ loader = "run" /\ Load # 0
  <2>1. ~IsTodo(client[c])
    BY <1>1, TodoFacts
  <2> QED BY <1>1, <1>2, <2>1 DEF Puts
<1>4. loaded /\ spu.at # "off"
  BY <1>3 DEF IInv, ThreadsInPlace
<1>5. RingInOrder' /\ HaltIsAlone' /\ Machine' /\ NoHalt'
  BY <1>1, <1>2, <1>3, <1>4, SignalledFrame
<1>6. client'[c] = Free /\ client'[c].todo = <<>> /\ ring' = ring /\ finished' = finished
  BY <1>1 DEF IInv, TypeInv, TypeOK, Free, queue
<1>7. CallInOrder(c)' /\ ToBePut(c)'
  BY <1>6, FreeIsInOrder
<1> QED BY <1>1, <1>2, <1>5, <1>6, <1>7, OursIsSafe

LEMMA EnqueuedFacts ==
  ASSUME NEW cl \in ClientStates
  PROVE  IF cl.todo[1] = Halt
         THEN /\ Enqueued(cl).at = "halting" /\ Enqueued(cl).todo = cl.todo
              /\ Enqueued(cl).call = cl.call
         ELSE Enqueued(cl) = Free
  BY DEF Enqueued, ClientStates

LEMMA SignalSafe ==
  ASSUME IInv, TypeInv', NEW c \in Clients, Signal(c)
  PROVE  IInv'
<1>1. PICK cl : client' = [client EXCEPT ![c] = cl] /\ cl = Enqueued(client[c])
  BY DEF Signal
<1>2. /\ client[c].at = "signal" /\ signal' = TRUE /\ outstanding' = outstanding
      /\ UNCHANGED <<kernel, queue, threads, spu, mail, outbox, answer, executed, finished>>
      /\ ring' = ring /\ finished' = finished /\ SPEIsFree
  BY DEF Signal, queue
<1>3. client[c] \in ClientStates /\ client'[c] = cl
  BY <1>1, StateSets DEF IInv, TypeInv, TypeOK
<1>4. /\ Signals(c) /\ (\A d \in Clients : d # c => client[d] = Free)
      /\ NoHalt \/ client[c].todo[1] = Halt
  BY <1>2, Alone DEF IInv, CallsInOrder, CallInOrder, Idle, Halts
<1>5. Calm /\ Load # 0 /\ spu.at # "off" /\ IsTodo(client[c])
  <2>1. loader # "start" /\ loader # "sync"
    BY <1>2, <1>4 DEF Signals, IInv, ThreadsInPlace, SPEIsFree
  <2>2. Load # 0
    BY <1>4, PlaceFacts DEF Signals, IInv, TypeInv
  <2> QED BY <1>4, <2>1, <2>2 DEF Signals, IInv, ThreadsInPlace
<1>6. RingInOrder' /\ HaltIsAlone' /\ Machine' /\ (NoHalt' <=> NoHalt)
  BY <1>2, <1>5, SignalledFrame
<1>7. CASE client[c].todo[1] = Halt
  <2>1. cl.at = "halting" /\ cl.todo = client[c].todo /\ cl.call = client[c].call
    BY <1>1, <1>3, <1>7, EnqueuedFacts
  <2>2. CallInOrder(c)' /\ Halts(c)'
    BY <1>3, <1>5, <1>7, <2>1 DEF CallInOrder, IsTodo, Halts
  <2>3. ToBePut(c)'
    <3>1. \A i : Pending(i) => Pending(i)'
      BY <1>2 DEF Pending
    <3>2. ToBePut(c)
      BY DEF IInv, InstructionsAreNew, ToBePut
    <3>3. client'[c].todo = client[c].todo
      BY <1>3, <2>1
    <3>4. Halt \notin Instrs
      BY InstrsAssumption
    <3>5. \A n \in Remaining(c)' : n = 1 \/ n \in Remaining(c)
      BY <3>3 DEF Remaining
    <3>6. ASSUME NEW n \in Remaining(c)'
          PROVE  /\ Pending(client[c].todo[n])
                 /\ client[c].todo[n] \in Instrs => \A s \in Slots : ring[s] # client[c].todo[n]
      BY <1>7, <3>2, <3>4, <3>5 DEF ToBePut, Pending
    <3>7. \A n \in Remaining(c)' : Pending(client[c].todo[n])'
      BY <3>1, <3>3, <3>6 DEF Pending
    <3> QED BY <1>2, <3>2, <3>3, <3>6, <3>7 DEF ToBePut
  <2> QED BY <1>1, <1>2, <1>4, <1>6, <2>2, <2>3, OursIsSafe
<1>8. CASE client[c].todo[1] # Halt
  <2>1. client'[c] = Free /\ client'[c].todo = <<>>
    BY <1>1, <1>3, <1>8, EnqueuedFacts DEF Free
  <2>2. CallInOrder(c)' /\ ToBePut(c)'
    BY <2>1, FreeIsInOrder
  <2> QED BY <1>1, <1>2, <1>4, <1>6, <1>8, <2>2, OursIsSafe
<1> QED BY <1>7, <1>8

LEMMA HaltedSafe ==
  ASSUME IInv, TypeInv', NEW c \in Clients, Halted(c)
  PROVE  IInv'
<1>1. PICK cl : /\ client' = [client EXCEPT ![c] = cl]
                /\ cl = IF client[c].call = "destroy" THEN [Free EXCEPT !.at = "left"]
                        ELSE [client[c] EXCEPT !.at = "run", !.todo = Tail(client[c].todo)]
  BY DEF Halted
<1>2. client[c].at = "halting" /\ Halt \in finished /\ Elsewhere /\ outstanding' = outstanding
  BY DEF Halted, Elsewhere
<1>3. client[c] \in ClientStates /\ client'[c] = cl
  BY <1>1, StateSets DEF IInv, TypeInv, TypeOK
<1>4. /\ IsTodo(client[c]) /\ client[c].todo[1] = Halt
      /\ \A d \in Clients : d # c => client[d] = Free
  BY <1>2, Alone DEF IInv, CallsInOrder, CallInOrder, Idle
<1>5. CASE client[c].call = "destroy"
  <2>1. cl.at = "left" /\ cl.todo = <<>>
    BY <1>1, <1>5 DEF Free
  <2>2. CallInOrder(c)' /\ ToBePut(c)' /\ Halts(c)'
    BY <1>3, <2>1, FreeIsInOrder DEF Halts
  <2> QED BY <1>1, <1>2, <1>4, <2>2, ElsewhereSafe
<1>6. CASE client[c].call # "destroy"
  <2>1. cl.at = "run" /\ cl.todo = Tail(client[c].todo) /\ cl.call = client[c].call
    BY <1>1, <1>3, <1>6 DEF ClientStates
  <2>2. PICK i \in Instrs : /\ i = client[c].todo[2] /\ Len(client[c].todo) = 2
                            /\ cl.todo = <<i>> /\ cl.call = "single"
    BY <1>4, <1>6, <2>1, TodoFacts
  <2>3. cl.todo[1] = i /\ Len(cl.todo) = 1 /\ i # Halt
    BY <2>2, InstrsAssumption
  <2>4. CallInOrder(c)' /\ Halts(c)'
    <3>1. IsTodo(cl)
      BY <2>2 DEF IsTodo
    <3>2. Halt \in finished'
      BY <1>2 DEF Elsewhere
    <3> QED BY <1>3, <2>1, <2>2, <2>3, <3>1, <3>2 DEF CallInOrder, IsTodo, Halts
  <2>5. ToBePut(c)'
    <3>1. 2 \in Remaining(c)
      BY <2>2 DEF Remaining
    <3>2. Pending(i) /\ \A s \in Slots : ring[s] # i
      BY <2>2, <3>1 DEF IInv, InstructionsAreNew
    <3>3. Pending(i)' /\ ring' = ring
      BY <1>2, <3>2 DEF Pending, Elsewhere, queue
    <3>4. Remaining(c)' \subseteq {1} /\ client'[c].todo[1] = i /\ Len(client'[c].todo) = 1
      BY <1>3, <2>3 DEF Remaining
    <3>5. Pending(client[c].todo[1])'
      BY <3>3, <3>4 DEF Pending
    <3> QED BY <3>2, <3>3, <3>4, <3>5 DEF ToBePut
  <2> QED BY <1>1, <1>2, <1>4, <2>4, <2>5, ElsewhereSafe
<1> QED BY <1>5, <1>6

LEMMA WaitSafe ==
  ASSUME IInv, TypeInv', NEW c \in Clients, NEW i \in Instrs, Wait(c, i)
  PROVE  IInv'
<1>1. /\ i \in finished /\ client' = client /\ Elsewhere
      /\ outstanding' = [outstanding EXCEPT ![c] = @ \ {i}]
  BY DEF Wait, Elsewhere
<1>2. /\ RingInOrder' /\ HaltIsAlone' /\ Machine' /\ End' = End /\ Load' = Load
      /\ (Calm' <=> Calm) /\ (NoHalt' <=> NoHalt)
  BY <1>1, ElsewhereFrame
<1>3. InstructionsAreNew'
  <2>1. \A j : \A d \in Clients : j # i /\ j \in outstanding[d] => j \in outstanding'[d]
    BY <1>1 DEF IInv, TypeInv, TypeOK
  <2>2. \A j : Pending(j) => Pending(j)'
    BY <1>1, <2>1 DEF Pending, Elsewhere
  <2> QED BY <1>1, <2>2 DEF IInv, InstructionsAreNew, Remaining, Elsewhere, queue
<1>4. OneAtATime' /\ HaltsAreOurs'
  BY <1>1, <1>2 DEF IInv, OneAtATime, Idle, HaltsAreOurs, Halts
<1>5. CallsInOrder'
  <2> SUFFICES ASSUME NEW d \in Clients PROVE CallInOrder(d)'
    BY DEF CallsInOrder
  <2>1. CallInOrder(d)
    BY DEF IInv, CallsInOrder
  <2>2. UNCHANGED <<kernel, ring, index, free, loaded, loader, finished>>
    BY <1>1 DEF Elsewhere, queue, threads
  <2>3. (Prepares(d) => Prepares(d)') /\ (Puts(d) => Puts(d)') /\ (Signals(d) => Signals(d)')
    BY <1>1, <1>2, <2>2 DEF Prepares, Puts, Signals, IsTodo
  <2> QED BY <1>1, <2>1, <2>2, <2>3 DEF CallInOrder, IsTodo
<1> QED BY <1>2, <1>3, <1>4, <1>5 DEF IInv, Machine

(* What is put on the ring goes behind what is there.                      *)
LEMMA PutFacts ==
  ASSUME IInv, TypeInv', NoHalt, Calm, NEW x \in Instrs \cup {Halt}, Put(x), End < Ring, ~Full,
         x = Halt => Load = 0, Pending(x), x \in Instrs => \A s \in Slots : ring[s] # x,
         UNCHANGED <<kernel, threads, spu, lines, answer, executed, finished, outstanding>>
  PROVE  /\ RingInOrder' /\ HaltIsAlone' /\ Machine' /\ Untouched'
         /\ \A s \in Slots : Pending(ring[s])'
         /\ \A s, r \in Slots : ring'[s] = ring'[r] /\ ring'[s] \in Instrs => s = r
         /\ End' = End + 1 /\ index' = index /\ Load' # 0
         /\ free = End /\ ring'[End] = x /\ End \in Slots
         /\ \A s \in Slots : s # End => ring'[s] = ring[s]
         /\ x \in Instrs => NoHalt'
<1>1. TypeOK /\ RingInOrder /\ TypeOK' /\ initial \in BOOLEAN
  BY DEF IInv, TypeInv, TypeOK
<1>2. /\ index \in Nat /\ End \in Nat /\ index < Ring /\ index <= End /\ Ring \in Nat
      /\ free = End /\ End \in Slots /\ (End + 1) % Ring = IF End + 1 = Ring THEN 0 ELSE End + 1
      /\ Load = 0 <=> index = End
  <2>1. free = End /\ free \in Slots
    BY <1>1, PlaceFacts DEF TypeOK
  <2> QED BY <1>1, <2>1, PlaceFacts, NextPlace
<1>3. /\ ring' = [ring EXCEPT ![End] = x] /\ posted' = [posted EXCEPT ![End] = x]
      /\ index' = index /\ free' = (End + 1) % Ring /\ initial' = (initial \/ ~loaded)
  BY <1>2 DEF Put
<1>4. index # free'
  BY <1>2, <1>3 DEF Full
<1>5. End' = End + 1
  BY <1>2, <1>3, <1>4 DEF End
<1>6. Load' # 0
  <2>1. (TypeOK => (Load = 0 <=> index = free))'
    BY LoadFacts, PTL
  <2> QED BY <1>1, <1>3, <1>4, <2>1
<1>7. /\ ring'[End] = x /\ posted'[End] = x
      /\ \A s \in Slots : s # End => ring'[s] = ring[s] /\ posted'[s] = posted[s]
  BY <1>1, <1>2, <1>3 DEF TypeOK
<1>8. x # Noop /\ Halt \notin Instrs /\ Noop \notin Instrs /\ Noop # Halt
  BY InstrsAssumption, OpcodesAssumption
<1>9. \A s \in Slots : s \in Nat
  BY DEF Slots
<1>10. ring[End] = Noop
  BY <1>1, <1>2 DEF RingInOrder
<1>11. RingInOrder'
  <2>1. free' < index' => free' = 0
    BY <1>2, <1>3
  <2>2. ASSUME NEW s \in Slots
        PROVE  /\ ring'[s] # Noop <=> index' <= s /\ s < End'
               /\ posted'[s] = IF ring'[s] = Noop THEN None ELSE ring'[s]
    BY <1>1, <1>2, <1>3, <1>5, <1>7, <1>8, <1>9 DEF RingInOrder
  <2> QED BY <2>1, <2>2 DEF RingInOrder
<1>12. HaltIsAlone'
  BY <1>2, <1>3, <1>5, <1>7 DEF HaltIsAlone, NoHalt
<1>13. Untouched' /\ Here' = index /\ Here = index
  <2>1. Here = index /\ Here' = Here
    BY <1>1, <1>3, UntouchedHere DEF Calm, Here, threads, lines
  <2> QED BY <2>1 DEF Calm, Untouched, threads, lines
<1>14. SPEInPlace' /\ SignalsAreForNews'
  <2>1. initial' => spu'.at = "off"
    BY <1>1, <1>3 DEF Calm, IInv, ThreadsInPlace, threads
  <2>2. ~signal' /\ spu'.at # "fetch"
    BY DEF Calm, lines
  <2> QED BY <1>6, <1>13, <2>1, <2>2 DEF SPEInPlace, SignalsAreForNews
<1>15. ThreadsInPlace'
  <2>1. \A s \in Slots : s < Here' => ring'[s] # Halt
    <3>1. ASSUME NEW s \in Slots, s < index PROVE s # End
      BY <1>2, <1>9, <3>1
    <3> QED BY <1>7, <1>13, <3>1 DEF NoHalt
  <2> QED BY <2>1 DEF NoHalt, IInv, ThreadsInPlace, threads, lines
<1>16. ResultsInPlace'
  BY <1>13, OpcodesAssumption DEF Untouched, Working, ResultsInPlace
<1>17. x \notin executed /\ executed \subseteq Instrs
  <2>1. executed \subseteq Instrs
    BY <1>1 DEF TypeOK
  <2> QED BY <2>1 DEF IInv, ExecutedInOrder, Pending
<1>18. ExecutedInOrder'
  <2>1. \A s \in Slots : Executed(s)' <=> s < index
    BY <1>13 DEF Executed, Untouched, Working
  <2>2. \A s \in Slots : Executed(s) <=> s < index
    BY <1>13 DEF Executed, Calm, Untouched, Working
  <2>3. \A i \in executed : i \in finished \/ \E s \in Slots : ring'[s] = i
    <3>1. ASSUME NEW i \in executed, i \notin finished PROVE \E s \in Slots : ring'[s] = i
      <4>1. PICK s \in Slots : ring[s] = i
        BY <3>1 DEF IInv, ExecutedInOrder
      <4>2. s # End
        BY <1>8, <1>10, <1>17, <4>1
      <4> QED BY <1>7, <4>1, <4>2
    <3> QED BY <3>1
  <2>4. ASSUME NEW s \in Slots, ring'[s] \in Instrs PROVE ring'[s] \in executed <=> s < index
    BY <1>2, <1>7, <1>9, <1>17, <2>2, <2>4 DEF IInv, ExecutedInOrder
  <2> QED BY <2>1, <2>3, <2>4 DEF IInv, ExecutedInOrder
<1>19. AnswersInPlace'
  BY <1>2, <1>3, <1>9, <1>13 DEF IInv, AnswersInPlace
<1>20. \A s \in Slots : Pending(ring[s])'
  BY <1>7 DEF IInv, InstructionsAreNew, Pending
<1>21. \A s, r \in Slots : ring'[s] = ring'[r] /\ ring'[s] \in Instrs => s = r
  BY <1>7 DEF IInv, InstructionsAreNew
<1>22. x \in Instrs => NoHalt'
  BY <1>7, <1>8 DEF NoHalt
<1> QED BY <1>2, <1>3, <1>5, <1>6, <1>7, <1>11, <1>12, <1>13, <1>14, <1>15, <1>16, <1>18, <1>19,
           <1>20, <1>21, <1>22 DEF Machine

LEMMA PutSafe ==
  ASSUME IInv, TypeInv', NEW c \in Clients, \A d \in Clients : d # c => client[d] = Free,
         NEW cl, client' = [client EXCEPT ![c] = cl],
         RingInOrder', HaltIsAlone', Machine',
         \A s \in Slots : Pending(ring[s])',
         \A s, r \in Slots : ring'[s] = ring'[r] /\ ring'[s] \in Instrs => s = r,
         CallInOrder(c)', ToBePut(c)', NoHalt' \/ Halts(c)'
  PROVE  IInv'
<1>1. OneAtATime' /\ CallsInOrder'
  BY OursIsInOrder
<1>2. InstructionsAreNew'
  BY OursAreNew
<1>3. HaltsAreOurs'
  BY DEF HaltsAreOurs
<1> QED BY <1>1, <1>2, <1>3 DEF IInv, Machine

LEMMA EnqueueElementSafe ==
  ASSUME IInv, TypeInv', NEW c \in Clients, EnqueueElement(c)
  PROVE  IInv'
<1>1. PICK cl : /\ client' = [client EXCEPT ![c] = cl]
                /\ cl = [client[c] EXCEPT !.at = "kernel", !.todo = Tail(client[c].todo)]
  BY DEF EnqueueElement
<1>2. PICK t : t = client[c].todo
  OBVIOUS
<1>3. /\ client[c].at = "enqueue" /\ t # <<>> /\ client[c].call = "batch" /\ ~Full /\ Put(t[1])
      /\ UNCHANGED <<kernel, threads, spu, lines, answer, executed, finished, outstanding>>
  BY <1>2 DEF EnqueueElement, InBatch
<1>4. client[c] \in ClientStates /\ client'[c] = cl
  BY <1>1, StateSets DEF IInv, TypeInv, TypeOK
<1>5. cl.at = "kernel" /\ cl.call = "batch" /\ cl.todo = Tail(t)
  BY <1>1, <1>2, <1>3, <1>4 DEF ClientStates
<1>6. Puts(c) /\ (\A d \in Clients : d # c => client[d] = Free) /\ NoHalt
  BY <1>3, Alone DEF IInv, CallsInOrder, CallInOrder, Idle, Halts
<1>7. Calm /\ loader = "run" /\ loaded /\ t \in Seq(Instrs) /\ End + Len(t) <= Ring
  <2>1. ~IsTodo(client[c])
    BY <1>3, TodoFacts
  <2> QED BY <1>2, <1>6, <2>1 DEF Puts, IInv, ThreadsInPlace
<1>8. /\ t[1] \in Instrs /\ Len(t) \in Nat /\ Len(t) > 0 /\ Tail(t) \in Seq(Instrs)
      /\ Len(Tail(t)) = Len(t) - 1 /\ \A n \in 1..Len(Tail(t)) : Tail(t)[n] = t[n + 1]
  BY <1>3, <1>7, HeadTailProperties
<1>9. End \in Nat /\ Ring \in Nat
  BY PlaceFacts DEF IInv, TypeInv
<1>10. End < Ring
  BY <1>7, <1>8, <1>9
<1>11. ToBePut(c) /\ \A n \in 1..Len(t) : n \in Remaining(c)
  BY <1>2, <1>3 DEF IInv, InstructionsAreNew, ToBePut, Remaining
<1>12. Pending(t[1]) /\ \A s \in Slots : ring[s] # t[1]
  BY <1>2, <1>8, <1>11 DEF ToBePut
<1>13. t[1] \in Instrs \cup {Halt} /\ t[1] # Halt
  BY <1>8, InstrsAssumption
<1>14. /\ RingInOrder' /\ HaltIsAlone' /\ Machine' /\ Untouched'
       /\ \A s \in Slots : Pending(ring[s])'
       /\ \A s, r \in Slots : ring'[s] = ring'[r] /\ ring'[s] \in Instrs => s = r
       /\ End' = End + 1 /\ Load' # 0 /\ ring'[End] = t[1] /\ NoHalt'
       /\ \A s \in Slots : s # End => ring'[s] = ring[s]
  BY <1>3, <1>6, <1>7, <1>8, <1>10, <1>12, <1>13, PutFacts
<1>15. CallInOrder(c)'
  <2>1. Calm'
    BY <1>3, <1>7, <1>14 DEF Calm, Put, lines
  <2>2. Puts(c)'
    BY <1>3, <1>4, <1>5, <1>7, <1>8, <1>9, <1>14, <2>1 DEF Puts, threads
  <2> QED BY <1>4, <1>5, <2>2 DEF CallInOrder
<1>16. ToBePut(c)'
  <2>1. \A n \in 1..(Len(t) - 1) : n \in 1..Len(t) /\ n + 1 \in 1..Len(t) /\ n + 1 # 1
    BY <1>8
  <2>2. client'[c].todo = Tail(t)
    BY <1>4, <1>5
  <2>3. ASSUME NEW n \in 1..(Len(t) - 1)
        PROVE  /\ Pending(t[n + 1]) /\ Tail(t)[n] = t[n + 1]
               /\ t[n + 1] \in Instrs => \A s \in Slots : ring'[s] # t[n + 1]
    <3>1. n + 1 \in 1..Len(t) /\ n + 1 # 1 /\ 1 \in 1..Len(t) /\ n \in 1..Len(Tail(t))
      BY <1>8, <2>1
    <3>2. t[n + 1] # t[1]
      BY <1>2, <1>11, <3>1 DEF ToBePut
    <3>3. Pending(t[n + 1]) /\ (t[n + 1] \in Instrs => \A s \in Slots : ring[s] # t[n + 1])
      BY <1>2, <1>11, <3>1 DEF ToBePut
    <3> QED BY <1>8, <1>14, <3>1, <3>2, <3>3
  <2>4. \A n \in Remaining(c)' : n \in 1..(Len(t) - 1)
    BY <1>8, <2>2 DEF Remaining
  <2>5. \A n \in Remaining(c)' : Pending(client[c].todo[n])'
    BY <1>3, <2>2, <2>3, <2>4 DEF Pending
  <2>6. ASSUME NEW m \in 1..(Len(t) - 1), NEW n \in 1..(Len(t) - 1), Tail(t)[m] = Tail(t)[n]
        PROVE  m = n
    <3>1. t[m + 1] = t[n + 1] /\ m + 1 \in 1..Len(t) /\ n + 1 \in 1..Len(t)
      BY <2>1, <2>3, <2>6
    <3>2. m + 1 = n + 1
      BY <1>2, <1>11, <3>1 DEF ToBePut
    <3> QED BY <3>2
  <2> QED BY <1>8, <2>2, <2>3, <2>4, <2>5, <2>6 DEF ToBePut
<1> QED BY <1>1, <1>6, <1>14, <1>15, <1>16, PutSafe

LEMMA EnqueueSafe ==
  ASSUME IInv, TypeInv', NEW c \in Clients, Enqueue(c)
  PROVE  IInv'
<1>1. PICK cl : /\ client' = [client EXCEPT ![c] = cl]
                /\ cl = IF loaded THEN [client[c] EXCEPT !.at = "signal"] ELSE Enqueued(client[c])
  BY DEF Enqueue
<1>2. PICK t : t = client[c].todo
  OBVIOUS
<1>3. /\ client[c].at = "enqueue" /\ t # <<>> /\ ~Full /\ Put(t[1])
      /\ client[c].call = "batch" => t[1] = Halt
      /\ UNCHANGED <<kernel, threads, spu, lines, answer, executed, finished, outstanding>>
  BY <1>2 DEF Enqueue, InBatch
<1>4. client[c] \in ClientStates /\ client'[c] = cl /\ loaded \in BOOLEAN
  BY <1>1, StateSets DEF IInv, TypeInv, TypeOK
<1>5. Puts(c) /\ (\A d \in Clients : d # c => client[d] = Free) /\ NoHalt
  BY <1>3, Alone DEF IInv, CallsInOrder, CallInOrder, Idle, Halts
<1>6. t \in Seq(Instrs \cup {Halt}) /\ Len(t) \in Nat /\ Len(t) > 0 /\ t[1] \in Instrs \cup {Halt}
  BY <1>2, <1>3, <1>4 DEF ClientStates
<1>7. Calm /\ IsTodo(client[c]) /\ Load = 0
  <2>1. t \in Seq(Instrs) => t[1] # Halt
    BY <1>6, InstrsAssumption
  <2> QED BY <1>2, <1>3, <1>5, <2>1 DEF Puts
<1>8. End = index /\ End < Ring /\ Ring \in Nat /\ End \in Nat
  BY <1>7, PlaceFacts DEF IInv, TypeInv
<1>9. ToBePut(c) /\ \A n \in 1..Len(t) : n \in Remaining(c)
  BY <1>2, <1>3 DEF IInv, InstructionsAreNew, ToBePut, Remaining
<1>10. Pending(t[1]) /\ (t[1] \in Instrs => \A s \in Slots : ring[s] # t[1])
  BY <1>2, <1>6, <1>9 DEF ToBePut
<1>11. /\ RingInOrder' /\ HaltIsAlone' /\ Machine' /\ Untouched'
       /\ \A s \in Slots : Pending(ring[s])'
       /\ \A s, r \in Slots : ring'[s] = ring'[r] /\ ring'[s] \in Instrs => s = r
       /\ End' = End + 1 /\ index' = index /\ ring'[End] = t[1]
       /\ \A s \in Slots : s # End => ring'[s] = ring[s]
       /\ t[1] \in Instrs => NoHalt'
  BY <1>3, <1>5, <1>6, <1>7, <1>8, <1>10, PutFacts
<1>12. Halt \notin Instrs
  BY InstrsAssumption
(* What is left to be put is not what has been put.                        *)
<1>13. ASSUME cl.todo = t PROVE
          /\ \A n \in 1..Len(t) : n # 1 =>
                /\ Pending(client[c].todo[n])'
                /\ client'[c].todo[n] \in Instrs => \A s \in Slots : ring'[s] # client'[c].todo[n]
          /\ \A m, n \in 1..Len(client'[c].todo) : client'[c].todo[m] = client'[c].todo[n] => m = n
          /\ Remaining(c)' \subseteq 1..Len(t)
          /\ cl.at = "signal" => 1 \notin Remaining(c)'
  <2>1. client'[c].todo = t
    BY <1>4, <1>13
  <2>2. ASSUME NEW n \in 1..Len(t), n # 1
        PROVE  Pending(t[n]) /\ (t[n] \in Instrs => \A s \in Slots : ring'[s] # t[n])
    <3>1. t[n] # t[1]
      BY <1>2, <1>6, <1>9, <2>2 DEF ToBePut
    <3>2. Pending(t[n]) /\ (t[n] \in Instrs => \A s \in Slots : ring[s] # t[n])
      BY <1>2, <1>9, <2>2 DEF ToBePut
    <3> QED BY <1>11, <3>1, <3>2
  <2>3. \A n \in 1..Len(t) : n # 1 => Pending(client[c].todo[n])'
    BY <1>3, <2>1, <2>2 DEF Pending
  <2>4. \A m, n \in 1..Len(t) : t[m] = t[n] => m = n
    BY <1>2, <1>9 DEF ToBePut
  <2>5. Remaining(c)' \subseteq 1..Len(t) /\ (cl.at = "signal" => 1 \notin Remaining(c)')
    BY <1>4, <2>1 DEF Remaining
  <2> QED BY <2>1, <2>2, <2>3, <2>4, <2>5
<1>14. CASE loaded
  <2>1. cl.at = "signal" /\ cl.todo = t /\ cl.call = client[c].call
    BY <1>1, <1>2, <1>4, <1>14 DEF ClientStates
  <2>2. Calm' /\ loaded'
    BY <1>3, <1>7, <1>11, <1>14 DEF Calm, Put, lines, threads
  <2>3. CallInOrder(c)'
    <3>1. IsTodo(cl)
      BY <1>2, <1>7, <2>1 DEF IsTodo
    <3>2. Signals(c)'
      BY <1>4, <1>8, <1>11, <2>1, <2>2, <3>1 DEF Signals, IsTodo
    <3> QED BY <1>4, <2>1, <3>2 DEF CallInOrder
  <2>4. ToBePut(c)'
    BY <1>13, <2>1 DEF ToBePut
  <2>5. NoHalt' \/ Halts(c)'
    BY <1>4, <1>6, <1>11, <2>1 DEF Halts
  <2> QED BY <1>1, <1>5, <1>11, <2>3, <2>4, <2>5, PutSafe
<1>15. CASE ~loaded /\ t[1] = Halt
  <2>1. cl.at = "halting" /\ cl.todo = t /\ cl.call = client[c].call
    BY <1>1, <1>2, <1>4, <1>15, EnqueuedFacts
  <2>2. CallInOrder(c)' /\ Halts(c)'
    BY <1>2, <1>4, <1>7, <1>15, <2>1 DEF CallInOrder, IsTodo, Halts
  <2>3. ToBePut(c)'
    <3>1. client'[c].todo[1] = Halt
      BY <1>4, <1>15, <2>1
    <3>2. Pending(client[c].todo[1])'
      BY <1>12, <3>1 DEF Pending
    <3> QED BY <1>12, <1>13, <2>1, <3>1, <3>2 DEF ToBePut
  <2> QED BY <1>1, <1>5, <1>11, <2>2, <2>3, PutSafe
<1>16. CASE ~loaded /\ t[1] # Halt
  <2>1. client'[c] = Free /\ client'[c].todo = <<>>
    BY <1>1, <1>2, <1>4, <1>16, EnqueuedFacts DEF Free
  <2>2. CallInOrder(c)' /\ ToBePut(c)'
    BY <2>1, FreeIsInOrder
  <2> QED BY <1>1, <1>5, <1>6, <1>11, <1>16, <2>2, PutSafe
<1> QED BY <1>4, <1>14, <1>15, <1>16

(* The new kernel finds nothing on its ring.                               *)
LEMMA RunSafe ==
  ASSUME IInv, TypeInv', NEW c \in Clients, Run(c)
  PROVE  IInv'
<1>1. PICK k \in Kernels : Started(k)
  BY DEF Run
<1>2. PICK cl : client' = [client EXCEPT ![c] = cl] /\ cl = [client[c] EXCEPT !.at = "kernel"]
  BY DEF Run
<1>3. client[c].at = "run" /\ loader = "gone" /\ UNCHANGED <<answer, executed, outstanding>>
  BY DEF Run
<1>4. client[c] \in ClientStates /\ client'[c] = cl /\ executed \subseteq Instrs /\ TypeOK /\ RingInOrder
  BY <1>2, StateSets DEF IInv, TypeInv, TypeOK
<1>5. cl.at = "kernel" /\ cl.todo = client[c].todo /\ cl.call = client[c].call
  BY <1>2, <1>4 DEF ClientStates
<1>6. /\ client[c].call = "single" /\ IsTodo(client[c]) /\ client[c].todo[1] # Halt
      /\ \A d \in Clients : d # c => client[d] = Free
  BY <1>3, Alone DEF IInv, CallsInOrder, CallInOrder, Idle
<1>7. spu.at = "stopped" /\ \A s \in Slots : ring[s] \in {Noop, Halt}
  BY <1>3 DEF IInv, ThreadsInPlace
<1>8. /\ \A s \in Slots : ring'[s] = Noop /\ posted'[s] = None /\ s \in Nat
      /\ index' = 0 /\ free' = 0 /\ ~initial' /\ ~loaded' /\ ppe' = "start" /\ loader' = "start"
      /\ spu'.at = "off" /\ spu'.copy = EmptyRing
      /\ ~signal' /\ mail' = None /\ outbox' = None /\ finished' = finished \ {Halt}
  BY <1>1 DEF Started, EmptyRing, Off, Slots
<1>9. Noop \notin Instrs /\ Halt \notin Instrs /\ Noop # Halt /\ None \notin Instrs /\ Answers \subseteq Instrs
  BY InstrsAssumption, OpcodesAssumption
<1>10. End' = 0 /\ Load' = 0 /\ Here' = 0
  BY <1>8, RingAssumption, OpcodesAssumption DEF End, Load, Here
<1>11. Untouched' /\ Calm' /\ NoHalt'
  BY <1>8, <1>9 DEF Untouched, Calm, NoHalt, Working
<1>12. RingInOrder' /\ HaltIsAlone'
  BY <1>8, <1>9, <1>10 DEF RingInOrder, HaltIsAlone
<1>13. SPEInPlace' /\ SignalsAreForNews' /\ ThreadsInPlace'
  BY <1>8, <1>9, <1>11 DEF SPEInPlace, SignalsAreForNews, ThreadsInPlace
<1>14. ResultsInPlace'
  BY <1>8, OpcodesAssumption DEF ResultsInPlace
<1>15. ExecutedInOrder' /\ AnswersInPlace'
  <2>1. \A i \in executed : i \in finished /\ i # Halt
    BY <1>4, <1>7, <1>9 DEF IInv, ExecutedInOrder
  <2>2. ExecutedInOrder'
    BY <1>3, <1>8, <1>9, <2>1 DEF IInv, ExecutedInOrder
  <2>3. AnswersInPlace'
    BY <1>3, <1>8, <1>9 DEF IInv, AnswersInPlace
  <2> QED BY <2>2, <2>3
<1>16. CallInOrder(c)'
  <2>1. IsTodo(client[c])'
    BY <1>4, <1>5, <1>6 DEF IsTodo
  <2> QED BY <1>4, <1>5, <1>10, <1>11, <2>1 DEF CallInOrder, Puts
<1>17. ToBePut(c)'
  <2>1. ToBePut(c)
    BY DEF IInv, InstructionsAreNew, ToBePut
  <2>2. client'[c].todo = client[c].todo /\ Remaining(c)' = Remaining(c)
    BY <1>3, <1>4, <1>5 DEF Remaining
  <2>3. \A n \in Remaining(c) : Pending(client[c].todo[n])'
    BY <1>3, <1>8, <2>1, <2>2 DEF ToBePut, Pending
  <2>4. \A s \in Slots : ring'[s] \notin Instrs
    BY <1>8, <1>9
  <2> QED BY <2>1, <2>2, <2>3, <2>4 DEF ToBePut
<1>18. \A s \in Slots : ring'[s] \notin Instrs /\ Pending(ring[s])'
  BY <1>8, <1>9 DEF Pending
<1> QED BY <1>2, <1>6, <1>11, <1>12, <1>13, <1>14, <1>15, <1>16, <1>17, <1>18, PutSafe DEF Machine

-----------------------------------------------------------------------------
(* The invariant, and what follows from it. *)

LEMMA InitIInv == Init => IInv
<1> SUFFICES ASSUME Init PROVE IInv
  OBVIOUS
<1>1. /\ \A s \in Slots : ring[s] = Noop /\ posted[s] = None /\ s \in Nat
      /\ index = 0 /\ free = 0 /\ ~initial /\ ~loaded /\ ppe = "start" /\ loader = "start"
      /\ spu.at = "off" /\ spu.copy = EmptyRing
      /\ ~signal /\ mail = None /\ outbox = None /\ executed = {} /\ finished = {}
  BY DEF Init, EmptyRing, Off, Slots
<1>2. \A c \in Clients : client[c] = Free /\ client[c].at = "free" /\ client[c].todo = <<>>
  BY DEF Init, Free
<1>3. Noop \notin Instrs /\ Halt \notin Instrs /\ Noop # Halt /\ Answers \subseteq Instrs
  BY InstrsAssumption, OpcodesAssumption
<1>4. End = 0 /\ Here = 0
  BY <1>1, OpcodesAssumption DEF End, Here
<1>5. Untouched
  BY <1>1 DEF Untouched, Working
<1>6. RingInOrder /\ HaltIsAlone /\ SPEInPlace /\ SignalsAreForNews /\ ThreadsInPlace
  BY <1>1, <1>3, <1>4, <1>5 DEF RingInOrder, HaltIsAlone, SPEInPlace, SignalsAreForNews, ThreadsInPlace
<1>7. ResultsInPlace /\ ExecutedInOrder /\ AnswersInPlace
  BY <1>1, <1>3, OpcodesAssumption DEF ResultsInPlace, ExecutedInOrder, AnswersInPlace
<1>8. InstructionsAreNew
  <2>1. \A c \in Clients : Len(client[c].todo) = 0 /\ 1..0 = {}
    BY <1>2
  <2>2. \A c \in Clients : Remaining(c) = {} /\ 1..Len(client[c].todo) = {}
    BY <2>1 DEF Remaining
  <2> QED BY <1>1, <1>3, <2>2 DEF InstructionsAreNew, Pending
<1>9. OneAtATime /\ HaltsAreOurs /\ CallsInOrder
  BY <1>1, <1>2, <1>3 DEF OneAtATime, Idle, HaltsAreOurs, NoHalt, CallsInOrder, CallInOrder
<1> QED BY <1>6, <1>7, <1>8, <1>9, InitTypeInv DEF IInv

LEMMA NextIInv ==
  ASSUME Straight, Prompt, IInv, [Next]_vars
  PROVE  IInv'
<1>1. TypeInv' /\ TypeOK'
  BY NextTypeInv DEF IInv, TypeInv
<1>2. ASSUME Machine', Undisturbed PROVE IInv'
  BY <1>1, <1>2, MachineFrame DEF IInv, Machine
<1>3. CASE LoaderStep
  BY <1>2, <1>3, LoaderSafe
<1>4. CASE SPUStep
  BY <1>2, <1>4, FetchSafe, FetchedSafe, WalkSafe, ExecuteSafe, MailResultSafe, WriteResultSafe,
     MailFinishedSafe DEF SPUStep
<1>5. CASE PPEStep
  BY <1>1, <1>2, <1>5, StartSafe, ReadMailSafe, ResultSafe, FinishedSafe, StoppedSafe DEF PPEStep
<1>6. ASSUME NEW c \in Clients, ClientStep(c) PROVE IInv'
  BY <1>1, <1>6, PrepareSafe, GetKernelSafe, EnqueueSafe, SignalSafe, EnqueueElementSafe, RunQueueSafe,
     HaltedSafe, RunSafe DEF ClientStep
<1>7. ASSUME NEW c \in Clients, ClientCall(c) PROVE IInv'
  BY <1>1, <1>7, DispatchSafe, WaitSafe, DispatchBatchSafe, DestroySafe DEF ClientCall
<1>8. CASE UNCHANGED vars
  <2>1. Undisturbed /\ Machine'
    BY <1>8 DEF vars, queue, threads, lines, clients, Undisturbed, IInv, Machine, SPEInPlace, Untouched,
          Progress, Here, End, Load, SignalsAreForNews, ThreadsInPlace, ResultsInPlace, ExecutedInOrder,
          Executed, AnswersInPlace, Calm
  <2> QED BY <1>2, <2>1
<1> QED BY <1>3, <1>4, <1>5, <1>6, <1>7, <1>8 DEF Next

(* A client that finds a load of 0 may take the SPE for idle               *)
(* (spe_manager.cc, prepare_spe): nothing is on the ring, nothing is under *)
(* way.  Batches are used as Straight says, results are Prompt.            *)
THEOREM SPEIdleMeansIdle == Straight /\ Prompt /\ Spec => []IdleMeansIdle
<1> SUFFICES ASSUME Straight, Prompt PROVE Spec => []IdleMeansIdle
  OBVIOUS
<1>1. IInv => IdleMeansIdle
  <2> SUFFICES ASSUME IInv, Load = 0
               PROVE  /\ ring = EmptyRing /\ spu.copy = EmptyRing
                      /\ spu.at \in {"off", "ready", "fetch", "walk", "stopped"}
                      /\ mail = None /\ outbox = None /\ ppe \notin {"finish", "result"}
    BY DEF IdleMeansIdle
  <2>1. ring = EmptyRing /\ Untouched
    BY IdleFacts
  <2> QED BY <2>1 DEF Untouched, Working, IInv, TypeInv, TypeOK
<1>2. IInv /\ [Next]_vars => IInv'
  BY NextIInv
<1> QED BY <1>1, <1>2, InitIInv, PTL DEF Spec

(* What wait() promises (spe_instruction.hh): an instruction that is told  *)
(* to have finished was executed, and its result has been stored.          *)
THEOREM SPEFinishedWasExecuted == Straight /\ Prompt /\ Spec => []FinishedWasExecuted
<1> SUFFICES ASSUME Straight, Prompt PROVE Spec => []FinishedWasExecuted
  OBVIOUS
<1>1. IInv => FinishedWasExecuted
  BY DEF IInv, ExecutedInOrder, AnswersInPlace, FinishedWasExecuted
<1>2. IInv /\ [Next]_vars => IInv'
  BY NextIInv
<1> QED BY <1>1, <1>2, InitIInv, PTL DEF Spec

-----------------------------------------------------------------------------
(* The SPE implements Executor. *)

Runs(i) == spu.at = "execute" /\ spu.task = i

StatusMap == [i \in Instrs |-> Status(i)]
AwaitedSet == {i \in Instrs : i \in finished /\ ~Outstanding(i)}

LEMMA StatusValue ==
  ASSUME NEW i
  PROVE  Status(i) = IF Runs(i) THEN "running" ELSE IF i \in finished THEN "done"
                     ELSE IF i \in executed THEN "executed" ELSE IF Posted(i) THEN "queued" ELSE "new"
<1>1. CASE Runs(i)
  BY <1>1 DEF Status, Runs
<1>2. CASE ~Runs(i)
  BY <1>2 DEF Status, Runs
<1> QED BY <1>1, <1>2

(* Everything that the status of an instruction depends on.                *)
SameMarks(i) == /\ Runs(i)' <=> Runs(i)
                /\ i \in finished' <=> i \in finished
                /\ i \in executed' <=> i \in executed
                /\ Posted(i)' <=> Posted(i)

SameWaits == \A i \in Instrs : (i \in finished /\ ~Outstanding(i))' <=> i \in finished /\ ~Outstanding(i)

Simulated == \/ \E i \in Instrs : \/ Exec!Enqueue(i) \/ Exec!Take(i) \/ Exec!Finish(i)
                                  \/ Exec!Throw(i)   \/ Exec!Mark(i) \/ Exec!Return(i)
             \/ StatusMap' = StatusMap /\ AwaitedSet' = AwaitedSet

LEMMA StatusKept ==
  ASSUME NEW i, SameMarks(i)
  PROVE  Status(i)' = Status(i)
  BY DEF SameMarks, Status, Runs

LEMMA Stutters ==
  ASSUME \A i \in Instrs : SameMarks(i), SameWaits
  PROVE  Simulated
  BY StatusKept DEF StatusMap, AwaitedSet, SameWaits, Simulated

LEMMA Moves ==
  ASSUME NEW u \in Instrs, NEW from, NEW to, Status(u) = from, Status(u)' = to,
         \A i \in Instrs : i # u => SameMarks(i), SameWaits
  PROVE  Exec!Move(u, from, to)
<1>1. \A i \in Instrs : i # u => Status(i)' = Status(i)
  BY StatusKept
<1>2. StatusMap[u] = from /\ StatusMap' = [StatusMap EXCEPT ![u] = to] /\ AwaitedSet' = AwaitedSet
  BY <1>1 DEF StatusMap, AwaitedSet, SameWaits
<1> QED BY <1>2 DEF Exec!Move, StatusMap, AwaitedSet

(* An instruction that is being executed is on the ring, and is not yet    *)
(* marked in any way.                                                      *)
LEMMA RunsFacts ==
  ASSUME IInv, NEW i \in Instrs, Runs(i)
  PROVE  i \notin finished /\ i \notin executed /\ Posted(i) /\ Here \in Slots /\ ring[Here] = i
<1>1. Here \in Slots /\ ring[Here] = i
  BY WorkingFacts DEF Runs, Working
<1>2. i \notin finished
  BY <1>1 DEF IInv, InstructionsAreNew, Pending
<1>3. i \notin executed
  <2>1. ~Executed(Here)
    BY <1>1 DEF Executed, Runs, Slots
  <2> QED BY <1>1, <2>1 DEF IInv, ExecutedInOrder
<1>4. i # Noop
  BY InstrsAssumption
<1> QED BY <1>1, <1>2, <1>3, <1>4 DEF IInv, RingInOrder, Posted

RunsUnmarked == \A i \in Instrs : Runs(i) => i \notin finished /\ i \notin executed /\ Posted(i)

LEMMA RunsAreUnmarked == IInv => RunsUnmarked
  BY RunsFacts DEF RunsUnmarked

LEMMA RunsAreUnmarkedNext == IInv' => RunsUnmarked'
  BY RunsAreUnmarked, PTL

(* Steps that touch neither marks nor waits: most of them.                 *)
LEMMA PlainStep ==
  ASSUME UNCHANGED <<posted, finished, executed, outstanding>>,
         \A i \in Instrs : Runs(i)' <=> Runs(i)
  PROVE  Simulated
<1>1. \A i \in Instrs : SameMarks(i)
  BY DEF SameMarks, Posted
<1>2. SameWaits
  BY DEF SameWaits, Outstanding
<1> QED BY <1>1, <1>2, Stutters

LEMMA SimulateLoader ==
  ASSUME IInv, LoaderStep
  PROVE  Simulated
<1>1. spu.at = "off" /\ spu \in SPUStates
  BY StateSets DEF IInv, TypeInv, ThreadsInPlace, LoaderStep, LoadKernel, Synchronised
<1>2. spu' = spu \/ spu' = [spu EXCEPT !.at = "ready"]
  BY DEF LoaderStep, LoadKernel, Synchronised, GoOn
<1>3. spu'.at \in {"off", "ready"}
  BY <1>1, <1>2 DEF SPUStates
<1> QED BY <1>1, <1>3, PlainStep DEF Runs, LoaderStep, LoadKernel, Synchronised, clients

LEMMA SimulateSPU ==
  ASSUME IInv, IInv', SPUStep
  PROVE  Simulated
<1>1. spu \in SPUStates
  BY StateSets DEF IInv, TypeInv
<1>2. CASE \/ Fetch \/ Fetched \/ MailResult \/ WriteResult \/ MailFinished
  <2>1. UNCHANGED <<posted, finished, executed, outstanding>> /\ spu.at # "execute"
    BY <1>2 DEF Fetch, Fetched, MailResult, WriteResult, MailFinished, queue, clients
  <2>2. spu'.at # "execute"
    BY <1>1, <1>2 DEF Fetch, Fetched, MailResult, WriteResult, MailFinished, SPUStates, Off
  <2> QED BY <2>1, <2>2, PlainStep DEF Runs
<1>3. CASE Walk
  <2>1. UNCHANGED <<posted, finished, executed, outstanding>> /\ spu.at # "execute"
    BY <1>3 DEF Walk, queue, clients
  <2>2. CASE spu'.at # "execute"
    BY <2>1, <2>2, PlainStep DEF Runs
  <2>3. CASE spu'.at = "execute"
    <3>1. PICK u \in Instrs : u = spu'.task
      BY <2>3 DEF IInv, TypeInv
    <3>2. Runs(u)' /\ \A i \in Instrs : i # u => ~Runs(i)'
      BY <2>3, <3>1 DEF Runs
    <3>3. u \notin finished /\ u \notin executed /\ Posted(u)
      BY <2>1, <3>2, RunsAreUnmarkedNext DEF RunsUnmarked, Posted
    <3>4. Status(u) = "queued" /\ Status(u)' = "running"
      BY <2>1, <2>3, <3>1, <3>3 DEF Status
    <3>5. \A i \in Instrs : i # u => SameMarks(i)
      BY <2>1, <3>2 DEF SameMarks, Runs, Posted
    <3>6. SameWaits
      BY <2>1 DEF SameWaits, Outstanding
    <3>7. Exec!Move(u, "queued", "running")
      BY <3>4, <3>5, <3>6, Moves
    <3> QED BY <3>7 DEF Exec!Take, Simulated
  <2> QED BY <2>2, <2>3
<1>4. CASE Execute
  <2>1. /\ UNCHANGED <<posted, finished, outstanding>> /\ executed' = executed \cup {spu.task}
        /\ spu.at = "execute"
    BY <1>4 DEF Execute, queue, clients
  <2>2. spu'.at # "execute"
    BY <1>1, <1>4 DEF Execute, SPUStates
  <2>3. PICK u \in Instrs : u = spu.task
    BY <2>1 DEF IInv, TypeInv
  <2>4. Runs(u) /\ \A i \in Instrs : ~Runs(i)' /\ (i # u => ~Runs(i))
    BY <2>1, <2>2, <2>3 DEF Runs
  <2>5. u \notin finished
    BY <2>4, RunsFacts
  <2>6. Status(u) = "running" /\ Status(u)' = "executed"
    BY <2>1, <2>2, <2>3, <2>5 DEF Status
  <2>7. \A i \in Instrs : i # u => SameMarks(i)
    BY <2>1, <2>3, <2>4 DEF SameMarks, Posted
  <2>8. SameWaits
    BY <2>1 DEF SameWaits, Outstanding
  <2>9. Exec!Move(u, "running", "executed")
    BY <2>6, <2>7, <2>8, Moves
  <2> QED BY <2>9 DEF Exec!Finish, Simulated
<1> QED BY <1>2, <1>3, <1>4 DEF SPUStep

LEMMA SimulateFinished ==
  ASSUME IInv, Finished
  PROVE  Simulated
<1>1. /\ ppe = "finish" /\ posted' = [posted EXCEPT ![index] = None] /\ finished' = Told
      /\ UNCHANGED <<spu, executed, outstanding>>
  BY DEF Finished, clients
<1>2. /\ TypeOK /\ index \in Slots /\ posted \in [Slots -> Instrs \cup {Halt, None}]
      /\ Halt \notin Instrs /\ None \notin Instrs
  BY InstrsAssumption DEF IInv, TypeInv, TypeOK
<1>3. PICK u : u = posted[index]
  OBVIOUS
<1>4. /\ finished' = finished \cup ({u} \ {None}) /\ posted'[index] = None
      /\ \A s \in Slots : s # index => posted'[s] = posted[s]
  BY <1>1, <1>2, <1>3 DEF Told
<1>5. \A i \in Instrs : i # u => SameMarks(i)
  BY <1>1, <1>2, <1>3, <1>4 DEF SameMarks, Runs, Posted
<1>6. CASE u \notin Instrs
  <2>1. \A i \in Instrs : i \in finished' <=> i \in finished
    BY <1>4, <1>6
  <2>2. SameWaits
    BY <1>1, <2>1 DEF SameWaits, Outstanding
  <2> QED BY <1>5, <1>6, <2>2, Stutters
<1>7. CASE u \in Instrs
  <2>1. ring[index] = u
    BY <1>2, <1>3, <1>7 DEF IInv, RingInOrder
  <2>2. u \notin finished /\ Outstanding(u)
    BY <1>2, <1>7, <2>1 DEF IInv, InstructionsAreNew, Pending, Outstanding
  <2>3. index < Here /\ Here # index
    BY <1>1, <1>2, RingAssumption DEF Here, Slots
  <2>4. u \in executed
    BY <1>2, <1>7, <2>1, <2>3 DEF IInv, ExecutedInOrder, Executed
  <2>5. ~Runs(u) /\ ~Runs(u)'
    BY <1>1, <1>7, <2>4, RunsFacts DEF Runs
  <2>6. Status(u) = "executed" /\ Status(u)' = "done"
    BY <1>1, <1>2, <1>4, <1>7, <2>2, <2>4, <2>5 DEF Status, Runs
  <2>7. SameWaits
    <3>1. \A i : Outstanding(i)' <=> Outstanding(i)
      BY <1>1 DEF Outstanding
    <3> QED BY <1>4, <2>2, <3>1 DEF SameWaits
  <2>8. Exec!Move(u, "executed", "done")
    BY <1>5, <1>7, <2>6, <2>7, Moves
  <2> QED BY <1>7, <2>8 DEF Exec!Mark, Simulated
<1> QED BY <1>6, <1>7

LEMMA SimulatePPE ==
  ASSUME IInv, PPEStep
  PROVE  Simulated
<1>1. CASE StartThread \/ KernelLoaded \/ ReadMail \/ Result
  <2>1. UNCHANGED <<posted, finished, executed, outstanding, spu>>
    BY <1>1 DEF StartThread, KernelLoaded, ReadMail, Result, queue, clients
  <2> QED BY <2>1, PlainStep DEF Runs
<1>2. CASE Finished
  BY <1>2, SimulateFinished
<1>3. CASE Stopped
  <2>1. /\ spu.at = "stopped" /\ UNCHANGED <<posted, executed, outstanding, spu>>
        /\ finished' = finished \cup ({posted[s] : s \in Slots} \ {None})
    BY <1>3 DEF Stopped, queue, clients
  <2>2. Halt \notin Instrs /\ None \notin Instrs
    BY InstrsAssumption
  <2>3. \A s \in Slots : posted[s] \in {None, Halt}
    BY <2>1 DEF IInv, RingInOrder, ThreadsInPlace
  <2>4. \A i \in Instrs : i \in finished' <=> i \in finished
    BY <2>1, <2>2, <2>3
  <2>5. \A i \in Instrs : SameMarks(i)
    BY <2>1, <2>4 DEF SameMarks, Runs, Posted
  <2>6. SameWaits
    BY <2>1, <2>4 DEF SameWaits, Outstanding
  <2> QED BY <2>5, <2>6, Stutters
<1> QED BY <1>1, <1>2, <1>3 DEF PPEStep

(* An instruction that is put on the ring was not known to the SPE.        *)
LEMMA SimulatePut ==
  ASSUME IInv, NEW c \in Clients, Enqueue(c) \/ EnqueueElement(c)
  PROVE  Simulated
<1>1. PICK u : u = client[c].todo[1]
  OBVIOUS
<1>2. /\ client[c].at = "enqueue" /\ client[c].todo # <<>>
      /\ posted' = [posted EXCEPT ![free] = u] /\ UNCHANGED <<spu, executed, finished, outstanding>>
  BY <1>1 DEF Enqueue, EnqueueElement, Put
<1>3. /\ TypeOK /\ RingInOrder /\ free \in Slots /\ posted \in [Slots -> Instrs \cup {Halt, None}]
      /\ client[c] \in ClientStates /\ executed \subseteq Instrs
  BY StateSets DEF IInv, TypeInv, TypeOK
<1>4. u \in Instrs \cup {Halt} /\ 1 \in Remaining(c)
  <2>1. client[c].todo \in Seq(Instrs \cup {Halt})
    BY <1>3 DEF ClientStates
  <2>2. 1 \in 1..Len(client[c].todo)
    BY <1>2, <2>1
  <2> QED BY <1>1, <1>2, <2>1, <2>2 DEF Remaining
<1>5. Pending(u) /\ (u \in Instrs => \A s \in Slots : ring[s] # u)
  BY <1>1, <1>4 DEF IInv, InstructionsAreNew
<1>6. posted[free] = None
  <2>1. ~(index <= free /\ free < End)
    BY <1>3, PlaceFacts DEF End
  <2> QED BY <1>3, <2>1 DEF RingInOrder
<1>7. spu.at # "execute"
  BY <1>2 DEF IInv, CallsInOrder, CallInOrder, Puts, Calm, Untouched, Working
<1>8. Halt \notin Instrs /\ None \notin Instrs /\ Noop \notin Instrs
  BY InstrsAssumption
<1>9. posted'[free] = u /\ \A s \in Slots : s # free => posted'[s] = posted[s]
  BY <1>2, <1>3
<1>10. \A i \in Instrs : i # u => SameMarks(i)
  <2>1. \A i \in Instrs : i # u => (Posted(i)' <=> Posted(i))
    BY <1>3, <1>6, <1>8, <1>9 DEF Posted
  <2> QED BY <1>2, <2>1 DEF SameMarks, Runs
<1>11. SameWaits
  BY <1>2 DEF SameWaits, Outstanding
<1>12. CASE u \notin Instrs
  BY <1>10, <1>11, <1>12, Stutters
<1>13. CASE u \in Instrs
  <2>1. u \notin finished
    BY <1>5, <1>13 DEF Pending
  <2>2. u \notin executed
    BY <1>5, <1>13, <2>1 DEF IInv, ExecutedInOrder
  <2>3. ~Posted(u)
    <3>1. \A s \in Slots : posted[s] # u
      BY <1>3, <1>5, <1>8, <1>13 DEF RingInOrder
    <3> QED BY <3>1 DEF Posted
  <2>4. Posted(u)'
    BY <1>3, <1>9 DEF Posted
  <2>5. Status(u) = "new" /\ Status(u)' = "queued"
    BY <1>2, <1>7, <2>1, <2>2, <2>3, <2>4 DEF Status
  <2>6. Exec!Move(u, "new", "queued")
    BY <1>10, <1>11, <1>13, <2>5, Moves
  <2> QED BY <1>13, <2>6 DEF Exec!Enqueue, Simulated
<1> QED BY <1>12, <1>13

LEMMA SimulateWait ==
  ASSUME IInv, NEW c \in Clients, NEW u \in Instrs, Wait(c, u)
  PROVE  Simulated
<1>1. /\ u \in finished /\ outstanding' = [outstanding EXCEPT ![c] = @ \ {u}]
      /\ UNCHANGED <<posted, spu, executed, finished>>
  BY DEF Wait, queue
<1>2. \A i \in Instrs : SameMarks(i)
  BY <1>1 DEF SameMarks, Runs, Posted
<1>3. \A i : i # u => (Outstanding(i)' <=> Outstanding(i))
  <2>1. \A i : \A d \in Clients : i # u => (i \in outstanding'[d] <=> i \in outstanding[d])
    BY <1>1 DEF IInv, TypeInv, TypeOK
  <2> QED BY <2>1 DEF Outstanding
<1>4. ~Outstanding(u) => ~Outstanding(u)'
  <2>1. \A d \in Clients : u \in outstanding'[d] => u \in outstanding[d]
    BY <1>1 DEF IInv, TypeInv, TypeOK
  <2> QED BY <2>1 DEF Outstanding
<1>5. CASE Outstanding(u)' <=> Outstanding(u)
  <2>1. SameWaits
    BY <1>1, <1>3, <1>5 DEF SameWaits
  <2> QED BY <1>2, <2>1, Stutters
<1>6. CASE ~Outstanding(u)'
  <2>1. AwaitedSet' = AwaitedSet \cup {u}
    BY <1>1, <1>3, <1>6 DEF AwaitedSet
  <2>2. Status(u) = "done"
    BY <1>1, StatusValue, RunsFacts
  <2>3. StatusMap[u] = "done" /\ StatusMap' = StatusMap
    BY <1>2, <2>2, StatusKept DEF StatusMap
  <2>4. Exec!Return(u)
    BY <2>1, <2>3 DEF Exec!Return, StatusMap, AwaitedSet
  <2> QED BY <2>4 DEF Simulated
<1>7. Outstanding(u)' \in BOOLEAN /\ Outstanding(u) \in BOOLEAN
  BY DEF Outstanding
<1> QED BY <1>4, <1>5, <1>6, <1>7

LEMMA SimulateClient ==
  ASSUME IInv, NEW c \in Clients, ClientStep(c) \/ ClientCall(c)
  PROVE  Simulated
<1>1. CASE Prepare(c) \/ GetKernel(c) \/ Signal(c) \/ RunQueue(c) \/ Halted(c) \/ Destroy(c)
  <2>1. UNCHANGED <<posted, finished, executed, outstanding, spu>>
    BY <1>1 DEF Prepare, GetKernel, Signal, RunQueue, Halted, Destroy, queue
  <2> QED BY <2>1, PlainStep DEF Runs
<1>2. ASSUME NEW S \in SUBSET Instrs, \A i \in S : New(i),
             outstanding' = [outstanding EXCEPT ![c] = @ \cup S],
             UNCHANGED <<posted, finished, executed, spu>>
      PROVE  Simulated
  <2>1. \A i \in finished : \A d \in Clients : i \in outstanding'[d] <=> i \in outstanding[d]
    BY <1>2 DEF IInv, TypeInv, TypeOK, New
  <2>2. SameWaits
    BY <1>2, <2>1 DEF SameWaits, Outstanding
  <2>3. \A i \in Instrs : SameMarks(i)
    BY <1>2 DEF SameMarks, Runs, Posted
  <2> QED BY <2>2, <2>3, Stutters
<1>3. ASSUME NEW i \in Instrs, Dispatch(c, i) PROVE Simulated
  <2>1. PICK S : S = {i}
    OBVIOUS
  <2>2. /\ \A j \in S : New(j)
        /\ outstanding' = [outstanding EXCEPT ![c] = @ \cup S]
        /\ UNCHANGED <<posted, finished, executed, spu>> /\ S \in SUBSET Instrs
    BY <1>3, <2>1 DEF Dispatch, queue
  <2> QED BY <1>2, <2>2
<1>4. ASSUME NEW b \in Batches, DispatchBatch(c, b) PROVE Simulated
  <2>1. b \in Seq(Instrs)
    BY BatchesAssumption
  <2>2. PICK S : S = {b[n] : n \in 1..Len(b)}
    OBVIOUS
  <2>3. /\ \A i \in S : New(i)
        /\ outstanding' = [outstanding EXCEPT ![c] = @ \cup S]
        /\ UNCHANGED <<posted, finished, executed, spu>>
    BY <1>4, <2>2 DEF DispatchBatch, queue
  <2>4. S \in SUBSET Instrs
    BY <2>1, <2>2
  <2> QED BY <1>2, <2>3, <2>4
<1>5. CASE Run(c)
  <2>1. PICK k \in Kernels : Started(k)
    BY <1>5 DEF Run
  <2>2. /\ finished' = finished \ {Halt} /\ spu'.at = "off" /\ \A s \in Slots : posted'[s] = None
        /\ UNCHANGED <<executed, outstanding>> /\ loader = "gone"
    BY <1>5, <2>1 DEF Run, Started, Off
  <2>3. Halt \notin Instrs /\ None \notin Instrs
    BY InstrsAssumption
  <2>4. spu.at = "stopped" /\ \A s \in Slots : posted[s] \in {None, Halt}
    BY <2>2 DEF IInv, RingInOrder, ThreadsInPlace
  <2>5. \A i \in Instrs : i \in finished' <=> i \in finished
    BY <2>2, <2>3
  <2>6. \A i \in Instrs : ~Posted(i) /\ ~Posted(i)'
    BY <2>2, <2>3, <2>4 DEF Posted
  <2>7. \A i \in Instrs : SameMarks(i)
    BY <2>2, <2>4, <2>5, <2>6 DEF SameMarks, Runs
  <2>8. SameWaits
    BY <2>2, <2>5 DEF SameWaits, Outstanding
  <2> QED BY <2>7, <2>8, Stutters
<1> QED BY <1>1, <1>3, <1>4, <1>5, SimulatePut, SimulateWait DEF ClientStep, ClientCall

LEMMA Simulation == IInv /\ IInv' /\ [Next]_vars => [Exec!Next]_Exec!vars
<1> SUFFICES ASSUME IInv, IInv', [Next]_vars PROVE Simulated
  BY DEF Simulated, Exec!Next, Exec!vars, StatusMap, AwaitedSet
<1>1. CASE UNCHANGED vars
  BY <1>1, PlainStep DEF vars, queue, clients, Runs
<1>2. CASE LoaderStep \/ SPUStep \/ PPEStep
  BY <1>2, SimulateLoader, SimulateSPU, SimulatePPE
<1>3. CASE \E c \in Clients : ClientStep(c) \/ ClientCall(c)
  BY <1>3, SimulateClient
<1> QED BY <1>1, <1>2, <1>3 DEF Next

(* Clients may rely on an SPE as on any executor: each instruction is      *)
(* executed once, whatever is halted and loaded in between, then told so,  *)
(* and waits return after that (spe_kernel.cc, spe_manager.cc).            *)
THEOREM SPEImplementsExecutor == Straight /\ Prompt /\ Spec => ImplementsExecutor
<1> SUFFICES ASSUME Straight, Prompt PROVE Spec => ImplementsExecutor
  OBVIOUS
<1>1. Init => Exec!Init
  <2> SUFFICES ASSUME Init PROVE Exec!Init
    OBVIOUS
  <2>1. executed = {} /\ finished = {} /\ spu.at = "off" /\ \A s \in Slots : posted[s] = None
    BY DEF Init, Off
  <2>2. \A i \in Instrs : ~Posted(i)
    BY <2>1, InstrsAssumption DEF Posted
  <2>3. \A i \in Instrs : Status(i) = "new"
    BY <2>1, <2>2 DEF Status
  <2> QED BY <2>1, <2>3 DEF Exec!Init
<1>2. IInv /\ [Next]_vars => IInv'
  BY NextIInv
<1> QED BY <1>1, <1>2, InitIInv, Simulation, PTL DEF Spec, ImplementsExecutor, Exec!Spec
=============================================================================
