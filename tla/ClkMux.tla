------------------------------- MODULE ClkMux -------------------------------
(***************************************************************************)
(* The clock multiplexer of the FSM library (fsminst/fsmlib/clk): sources  *)
(* emit edges and raise level bits, one cycle thread (clk_cycle) blocks in *)
(* clk_mux_point and calls the process callback.  The pthread mutex and    *)
(* condition variable of porting/linux.c are modelled by their POSIX       *)
(* meaning: waiting releases the mutex atomically, a broadcast only        *)
(* reaches the threads that wait, and a wake-up may be spurious.           *)
(***************************************************************************)
EXTENDS Naturals, FiniteSets

CONSTANTS Srcs,      \* the clock sources registered in the mux
          Cycle,     \* the thread that runs clk_cycle
          NoOne,     \* holder of the mutex while it is free
          MaxEmits   \* bound: how many edges are emitted in a behaviour

ASSUME ClkAssumption ==
    /\ Cycle \notin Srcs
    /\ NoOne \notin Srcs \cup {Cycle}
    /\ MaxEmits \in Nat

VARIABLES status,    \* clk_mux_t.status_reg: the set of raised bits
          mutex,     \* holder of clk_driver_dh_linux_t.mutex
          cpc,       \* where the cycle thread is
          signalled, \* the waiting cycle thread has been woken
          spc,       \* where each source's emitting thread is
          level,     \* argument set_status_bit of the call in progress
          emits,     \* edges emitted so far
          late       \* history: bits raised after status_reg was last read
                     \* and before the cycle thread started to wait

muxVars == <<status, mutex, cpc, signalled, spc, level, emits, late>>

CyclePC == {"check", "lock", "wait", "waiting", "woken", "process"}
SrcPC == {"idle", "broadcast", "set", "unlock"}

MuxTypeOK ==
    /\ status \subseteq Srcs
    /\ mutex \in Srcs \cup {Cycle, NoOne}
    /\ cpc \in CyclePC
    /\ signalled \in BOOLEAN
    /\ spc \in [Srcs -> SrcPC]
    /\ level \in [Srcs -> BOOLEAN]
    /\ emits \in Nat
    /\ late \subseteq Srcs

MuxInit ==
    /\ status = {}
    /\ mutex = NoOne
    /\ cpc = "check"
    /\ signalled = FALSE
    /\ spc = [s \in Srcs |-> "idle"]
    /\ level = [s \in Srcs |-> FALSE]
    /\ emits = 0
    /\ late = {}

-----------------------------------------------------------------------------
(* A source's thread inside clk_mux_emit_edge / clk_drv_linux_emit_edge.   *)

EmitLock(s) ==
    /\ spc[s] = "idle"
    /\ emits < MaxEmits
    /\ mutex = NoOne
    /\ mutex' = s
    /\ spc' = [spc EXCEPT ![s] = "broadcast"]
    /\ level' \in {[level EXCEPT ![s] = b] : b \in BOOLEAN}
    /\ emits' = emits + 1
    /\ UNCHANGED <<status, cpc, signalled, late>>

\* As if the level path relied on the register alone.
SilentLevelBroadcast(s) ==
    /\ spc[s] = "broadcast"
    /\ signalled' = (signalled \/ (cpc = "waiting" /\ ~level[s]))
    /\ spc' = [spc EXCEPT ![s] = "set"]
    /\ UNCHANGED <<status, mutex, cpc, level, emits, late>>

EmitBroadcast(s) ==
    /\ spc[s] = "broadcast"
    /\ signalled' = (signalled \/ cpc = "waiting")
    /\ spc' = [spc EXCEPT ![s] = "set"]
    /\ UNCHANGED <<status, mutex, cpc, level, emits, late>>

EmitSet(s) ==
    /\ spc[s] = "set"
    /\ IF level[s]
       THEN /\ status' = status \cup {s}
            /\ late' = IF cpc = "waiting" THEN late ELSE late \cup {s}
       ELSE UNCHANGED <<status, late>>
    /\ spc' = [spc EXCEPT ![s] = "unlock"]
    /\ UNCHANGED <<mutex, cpc, signalled, level, emits>>

EmitUnlock(s) ==
    /\ spc[s] = "unlock"
    /\ mutex' = NoOne
    /\ spc' = [spc EXCEPT ![s] = "idle"]
    /\ UNCHANGED <<status, cpc, signalled, level, emits, late>>

\* clk_drv_linux_clear_status: one critical section.
ClearStatus(s) ==
    /\ spc[s] = "idle"
    /\ mutex = NoOne
    /\ s \in status
    /\ status' = status \ {s}
    /\ late' = late \ {s}
    /\ UNCHANGED <<mutex, cpc, signalled, spc, level, emits>>

-----------------------------------------------------------------------------
(* The cycle thread: clk_cycle around clk_mux_point.                       *)

\* clk_mux_point reads status_reg without the driver's mutex.
CheckStatus ==
    /\ cpc = "check"
    /\ late' = {}
    /\ cpc' = IF status # {} THEN "process" ELSE "lock"
    /\ UNCHANGED <<status, mutex, signalled, spc, level, emits>>

WaitLock ==
    /\ cpc = "lock"
    /\ mutex = NoOne
    /\ mutex' = Cycle
    /\ cpc' = "wait"
    /\ UNCHANGED <<status, signalled, spc, level, emits, late>>

\* pthread_cond_wait: release the mutex and start waiting in one step.
CondWait ==
    /\ cpc = "wait"
    /\ mutex' = NoOne
    /\ cpc' = "waiting"
    /\ signalled' = FALSE
    /\ UNCHANGED <<status, spc, level, emits, late>>

SpuriousWakeup ==
    /\ cpc = "waiting"
    /\ ~signalled
    /\ signalled' = TRUE
    /\ UNCHANGED <<status, mutex, cpc, spc, level, emits, late>>

\* pthread_cond_wait returns only after it holds the mutex again.
Reacquire ==
    /\ cpc = "waiting"
    /\ signalled
    /\ mutex = NoOne
    /\ mutex' = Cycle
    /\ signalled' = FALSE
    /\ cpc' = "woken"
    /\ UNCHANGED <<status, spc, level, emits, late>>

\* As if a wake-up only made the thread look at the register again.
RecheckingWaitUnlock ==
    /\ cpc = "woken"
    /\ mutex' = NoOne
    /\ cpc' = "check"
    /\ UNCHANGED <<status, signalled, spc, level, emits, late>>

WaitUnlock ==
    /\ cpc = "woken"
    /\ mutex' = NoOne
    /\ cpc' = "process"
    /\ UNCHANGED <<status, signalled, spc, level, emits, late>>

Process ==
    /\ cpc = "process"
    /\ cpc' = "check"
    /\ UNCHANGED <<status, mutex, signalled, spc, level, emits, late>>

-----------------------------------------------------------------------------
EmitStep(s) == EmitBroadcast(s) \/ EmitSet(s) \/ EmitUnlock(s)

CycleStep == CheckStatus \/ WaitLock \/ CondWait \/ Reacquire \/ WaitUnlock \/ Process

MuxNext ==
    \/ \E s \in Srcs : EmitLock(s) \/ EmitStep(s) \/ ClearStatus(s)
    \/ CycleStep
    \/ SpuriousWakeup

MuxSpec == MuxInit /\ [][MuxNext]_muxVars

\* Threads keep running; the mutex is handed over fairly.  Nothing obliges a
\* source to emit or to clear, nor the system to wake a thread spuriously.
MuxFairSpec ==
    /\ MuxSpec
    /\ \A s \in Srcs : WF_muxVars(EmitStep(s))
    /\ WF_muxVars(CheckStatus) /\ WF_muxVars(CondWait)
    /\ WF_muxVars(WaitUnlock) /\ WF_muxVars(Process)
    /\ SF_muxVars(WaitLock) /\ SF_muxVars(Reacquire)

-----------------------------------------------------------------------------
(* Properties.                                                             *)

\* A thread past lock and before unlock holds the mutex.
Inside(t) == IF t = Cycle THEN cpc \in {"wait", "woken"} ELSE spc[t] # "idle"

\* The emitter's broadcast and bit, and the cycle thread's decision to wait,
\* are mutually exclusive: no thread is inside the driver's critical section
\* (clk_drv_linux_emit_edge, clk_drv_linux_mux_point) beside another.
DriverExclusion ==
    \A t, u \in Srcs \cup {Cycle} : Inside(t) /\ Inside(u) => t = u

\* The only level a sleeping cycle thread can miss is one raised after
\* clk_mux_point read status_reg for the call it sleeps in: a level raised
\* before that is seen by the check, one raised while it sleeps comes with a
\* broadcast.  (That remaining window is the lost wake-up of LevelServed.)
MissedOnlyAfterCheck ==
    cpc = "waiting" /\ ~signalled => status \subseteq late

\* An edge emitted while the cycle thread waits is never lost: the process
\* callback runs, whatever other sources do in the meantime.
WokenIsProcessed == (cpc = "waiting" /\ signalled) ~> (cpc = "process")

\* "Trigger by level" (clk_doc.md): while a source's status bit stays raised
\* the process callback is called sooner or later.
LevelServed == \A s \in Srcs : (s \in status) ~> (cpc = "process" \/ s \notin status)
=============================================================================
