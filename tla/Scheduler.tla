----------------------------- MODULE Scheduler -----------------------------
(***************************************************************************)
(* Processes and their round-robin scheduler: create_process (pcb.c), the  *)
(* circular ready list (scheduler.c) and context_switch (switch.asm).      *)
(*                                                                         *)
(* add_to_ready_queue walks the list one step per node; the other calls    *)
(* are one step.  A process is queued at most once.  context_switch does   *)
(* not return to schedule; whatever runs next calls the scheduler again.   *)
(***************************************************************************)
EXTENDS Integers, FiniteSets, Pointers

CONSTANTS
  Pcbs,    \* the addresses kmalloc may return for a pcb_t
  Entries  \* entry points of processes

ASSUME SchedulerAssumption ==
  /\ Pcbs \subseteq Nat \ {NULL} /\ IsFiniteSet(Pcbs)
  /\ Entries \subseteq Nat \ {0}

VARIABLES
  pcb,              \* address -> pcb_t, for the processes created
  next_pid,
  ready_queue_head,
  current_process,
  phase,            \* "idle", or "add" inside add_to_ready_queue
  arg,              \* its argument
  temp,             \* its cursor
  cpu_eip,          \* where context_switch made the CPU continue
  queued,           \* history: the processes queued so far
  waited            \* history: process -> schedule calls since it was queued
                    \* or last ran, counted up to MaxWait

schedVars == <<pcb, next_pid, ready_queue_head, current_process, phase, arg,
               temp, cpu_eip, queued, waited>>

MaxWait == Cardinality(Pcbs)

SchedInit ==
  /\ pcb = [p \in {} |-> NULL]
  /\ next_pid = 1
  /\ ready_queue_head = NULL
  /\ current_process = NULL
  /\ phase = "idle" /\ arg = NULL /\ temp = NULL
  /\ cpu_eip = 0
  /\ queued = {}
  /\ waited = [p \in Pcbs |-> 0]

-----------------------------------------------------------------------------
\* create_process when kmalloc returns p.  The registers eax to edi keep what
\* the heap held there, which no property tells apart.
create_process(p, entry_point) ==
  /\ phase = "idle"
  /\ p \notin DOMAIN pcb
  /\ pcb' = [q \in DOMAIN pcb \cup {p} |->
               IF q = p THEN [pid |-> next_pid, state |-> "READY", esp |-> 0,
                              eip |-> entry_point, next |-> NULL]
                        ELSE pcb[q]]
  /\ next_pid' = next_pid + 1
  /\ UNCHANGED <<ready_queue_head, current_process, phase, arg, temp, cpu_eip,
                 queued, waited>>

\* create_process when kmalloc returns NULL.
CreateFails ==
  /\ phase = "idle"
  /\ UNCHANGED schedVars

-----------------------------------------------------------------------------
\* add_to_ready_queue, on an empty list.
AddFirst(p) ==
  /\ phase = "idle" /\ ready_queue_head = NULL
  /\ ready_queue_head' = p
  /\ pcb' = [pcb EXCEPT ![p].next = p]
  /\ queued' = queued \cup {p}
  /\ waited' = [waited EXCEPT ![p] = 0]
  /\ UNCHANGED <<next_pid, current_process, phase, arg, temp, cpu_eip>>

AddWalk(p) ==
  /\ phase = "idle" /\ ready_queue_head # NULL
  /\ phase' = "add" /\ arg' = p /\ temp' = ready_queue_head
  /\ UNCHANGED <<pcb, next_pid, ready_queue_head, current_process, cpu_eip,
                 queued, waited>>

AddNext ==
  /\ phase = "add" /\ pcb[temp].next # ready_queue_head
  /\ temp' = pcb[temp].next
  /\ UNCHANGED <<pcb, next_pid, ready_queue_head, current_process, phase, arg,
                 cpu_eip, queued, waited>>

LinkedSelf(end, p) == [pcb EXCEPT ![end].next = p, ![p].next = p]
LinkedSecond(end, p) ==
  [pcb EXCEPT ![ready_queue_head].next = p, ![p].next = ready_queue_head]

\* The list after p is inserted between its last node and its head.
Linked(end, p) ==
  [pcb EXCEPT ![end].next = p, ![p].next = ready_queue_head]

AddLast ==
  /\ phase = "add" /\ pcb[temp].next = ready_queue_head
  /\ pcb' = Linked(temp, arg)
  /\ queued' = queued \cup {arg}
  /\ waited' = [waited EXCEPT ![arg] = 0]
  /\ phase' = "idle" /\ arg' = NULL /\ temp' = NULL
  /\ UNCHANGED <<next_pid, ready_queue_head, current_process, cpu_eip>>

-----------------------------------------------------------------------------
ChosenAlwaysHead == ready_queue_head

\* The process schedule gives the CPU to.
Chosen ==
  IF current_process = NULL THEN ready_queue_head ELSE pcb[current_process].next

StatesNotReset(p) ==
  [q \in DOMAIN pcb |->
     IF q = p THEN [pcb[q] EXCEPT !.state = "RUNNING"] ELSE pcb[q]]

\* The process table after schedule takes the CPU from current_process and
\* gives it to p.
States(p) ==
  [q \in DOMAIN pcb |->
     IF q = p THEN [pcb[q] EXCEPT !.state = "RUNNING"]
     ELSE IF q = current_process THEN [pcb[q] EXCEPT !.state = "READY"] ELSE pcb[q]]

\* context_switch pushes the word at offset 32 of the pcb_t, its esp, and
\* returns to it.
context_switch(p) == cpu_eip' = pcb[p].esp

schedule ==
  /\ phase = "idle" /\ Chosen # NULL
  /\ current_process' = Chosen
  /\ pcb' = States(Chosen)
  /\ context_switch(Chosen)
  /\ waited' = [q \in Pcbs |->
                  IF q \notin queued \ {Chosen} THEN 0
                  ELSE IF waited[q] < MaxWait THEN waited[q] + 1 ELSE waited[q]]
  /\ UNCHANGED <<next_pid, ready_queue_head, phase, arg, temp, queued>>

\* schedule with nothing to run.
ScheduleNothing ==
  /\ phase = "idle" /\ Chosen = NULL
  /\ UNCHANGED schedVars

-----------------------------------------------------------------------------
SchedNext ==
  \/ \E p \in Pcbs, e \in Entries : create_process(p, e)
  \/ CreateFails
  \/ \E p \in DOMAIN pcb \ queued : AddFirst(p) \/ AddWalk(p)
  \/ AddNext \/ AddLast
  \/ schedule \/ ScheduleNothing

SchedSpec == SchedInit /\ [][SchedNext]_schedVars

\* A walk that has started goes on, and the scheduler keeps being called.
SchedFairSpec == SchedSpec /\ WF_schedVars(AddNext \/ AddLast) /\ WF_schedVars(schedule)

-----------------------------------------------------------------------------
(* Properties                                                              *)

\* Every variable holds a value of its type; next pointers lead to processes.
SchedTypeOK ==
  /\ DOMAIN pcb \subseteq Pcbs
  /\ pcb \in [DOMAIN pcb ->
                [pid : Nat \ {0}, state : {"READY", "RUNNING"}, esp : Nat,
                 eip : Entries, next : DOMAIN pcb \cup {NULL}]]
  /\ next_pid \in Nat \ {0}
  /\ {ready_queue_head, current_process, arg, temp} \subseteq DOMAIN pcb \cup {NULL}
  /\ phase \in {"idle", "add"}
  /\ queued \subseteq DOMAIN pcb
  /\ waited \in [Pcbs -> 0 .. MaxWait]

\* The nodes reached from p in at most n steps along next.
Reached(p, n) ==
  LET within[i \in 0 .. n] ==
        IF i = 0 THEN {p} ELSE within[i - 1] \cup {pcb[q].next : q \in within[i - 1]}
  IN  within[n]

\* The ready list stays one ring through exactly the queued processes, also
\* between the steps of an insertion: no two nodes share a successor and the
\* walk from any of them meets all of them.
RingIntact ==
  /\ SchedTypeOK
  /\ ready_queue_head = NULL <=> queued = {}
  /\ \A p \in queued : Reached(p, Cardinality(queued)) = queued
  /\ \A p, q \in queued : pcb[p].next = pcb[q].next => p = q

\* Exactly the current process is RUNNING, it is in the ring, and pids are
\* never shared.
OneRunning ==
  /\ {p \in DOMAIN pcb : pcb[p].state = "RUNNING"} = {current_process} \ {NULL}
  /\ current_process # NULL => current_process \in queued
  /\ \A p, q \in DOMAIN pcb : pcb[p].pid = pcb[q].pid => p = q

\* Round robin is fair whatever is inserted when: a queued process is passed
\* over at most once for each other process in the ring.
BoundedWait == \A p \in queued : waited[p] < Cardinality(queued)

\* Every queued process gets the CPU again and again.
EveryoneRuns == \A p \in Pcbs : p \in queued ~> current_process = p

\* pcb.c:15 "Set the instruction pointer so the CPU knows where to start":
\* a process that gets the CPU continues at the instruction pointer of its pcb.
StartsAtEntry ==
  [][schedule => cpu_eip' = pcb[current_process'].eip]_schedVars
=============================================================================
