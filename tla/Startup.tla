------------------------------- MODULE Startup -------------------------------
(***************************************************************************)
(* main() around its loop, for several processes that are started on one   *)
(* machine at any time: the options, the test of the configuration before  *)
(* fork(), the PID file, and the ways a process ends.  All use one fan.    *)
(*                                                                         *)
(* The loop itself is the phase "run" here; Daemon has its steps.  After   *)
(* fork() only the child is of interest: the parent returns 0 at once.     *)
(***************************************************************************)

CONSTANTS
  Procs,        \* the times thinkfan is started
  Options       \* the command lines that are valid

\* What the rest depends on: daemonize (no -n), and chk_sanity (no -D).
Option == [daemonize : BOOLEAN, sane : BOOLEAN]

ASSUME OptionsAssumption ==
  /\ Options \subseteq Option
  /\ {"none", "empty"} \intersect Procs = {}

VARIABLES
  pc,           \* where each process is
  opts,         \* its options
  pidfile,      \* what is in PID_FILE: "none" if there is no such file,
                \* "empty" or the process that has written its number
  stream,       \* pid_file_ of each process: "closed", open and "linked" to
                \* that name, or an "orphan", whose file was deleted
  owns,         \* the PidFileHolder has been made, and instance_ is set
  undeleted,    \* the processes whose unlink() has failed; no step depends on it
  fan,          \* who controls the fan: "firmware" or "thinkfan"
  held,         \* init() of its fan driver has succeeded
  saved,        \* initial_state_ of that driver
  blame         \* what has happened so far of the things that excuse a
                \* process; no step depends on it

vars == <<pc, opts, pidfile, stream, owns, undeleted, fan, held, saved, blame>>

fans == <<fan, held, saved>>
files == <<pidfile, stream, owns, undeleted>>

\* What can be to blame: two processes between looking for the PID file and
\* making it, -D, two processes with the fan, a fan that was not given back.
Blames == {"race", "danger", "mix", "lost"}

Goto(p, phase) == pc' = [pc EXCEPT ![p] = phase]
Blame(b, reason) == blame' = IF b THEN blame \union {reason} ELSE blame

Ended == {"over", "aborted", "killed"}

-----------------------------------------------------------------------------
(* The PID file *)

\* PidFileHolder::remove_file, in which unlink() may fail: that is only logged,
\* and the file stays as it is.
RemoveFile(p) ==
  /\ owns' = [owns EXCEPT ![p] = FALSE]
  /\ \/ stream[p] = "closed" /\ UNCHANGED <<pidfile, stream, undeleted>>
     \/ /\ stream[p] # "closed"
        /\ pidfile' = "none"
        /\ stream' = [q \in Procs |-> IF q = p THEN "closed"
                                     ELSE IF stream[q] = "linked" THEN "orphan"
                                     ELSE stream[q]]
        /\ UNCHANGED undeleted
     \/ /\ stream[p] # "closed"
        /\ stream' = [stream EXCEPT ![p] = "closed"]
        /\ undeleted' = undeleted \union {p}
        /\ UNCHANGED pidfile

\* PidFileHolder::file_exists; error<SystemError>
Look(p) ==
  /\ pc[p] = "look"
  /\ Goto(p, IF pidfile # "none" /\ opts[p].sane THEN "over"
             ELSE IF opts[p].daemonize THEN "test" ELSE "claim")
  /\ UNCHANGED <<opts, files, fans, blame>>

\* A mutant: the constructor does not look again.
ClaimBlindly(p) ==
  /\ pc[p] = "claim"
  /\ Goto(p, "open")
  /\ Blame(\E q \in Procs \ {p} : pc[q] = "open", "race")
  /\ UNCHANGED <<opts, files, fans>>

\* PidFileHolder::PidFileHolder: it is looked for once more.
Claim(p) ==
  /\ pc[p] = "claim"
  /\ IF pidfile # "none" /\ opts[p].sane
     THEN Goto(p, "over") /\ UNCHANGED blame
     ELSE /\ Goto(p, "open")
          /\ blame' = blame
               \union (IF \E q \in Procs \ {p} : pc[q] = "open" THEN {"race"} ELSE {})
               \union (IF pidfile # "none" THEN {"danger"} ELSE {})
  /\ UNCHANGED <<opts, files, fans>>

\* pid_file_.open; that it fails is noticed when it is written to.
Open(p) ==
  /\ pc[p] = "open"
  /\ Goto(p, "write")
  /\ \/ pidfile' = "empty" /\ stream' = [stream EXCEPT ![p] = "linked"]
     \/ UNCHANGED <<pidfile, stream>>
  /\ UNCHANGED <<opts, owns, undeleted, fans, blame>>

Write(p) ==
  /\ pc[p] = "write" /\ stream[p] # "closed"
  /\ pidfile' = IF stream[p] = "linked" THEN p ELSE pidfile
  /\ owns' = [owns EXCEPT ![p] = TRUE]
  /\ Goto(p, "load")
  /\ UNCHANGED <<opts, stream, undeleted, fans, blame>>

\* error<IOerror>: the stream is closed, but no destructor deletes the file.
WriteFails(p) ==
  /\ pc[p] = "write"
  /\ IF opts[p].sane
     THEN /\ Goto(p, "over")
          /\ stream' = [stream EXCEPT ![p] = "closed"]
          /\ UNCHANGED <<owns, blame>>
     ELSE /\ Goto(p, "load")
          /\ owns' = [owns EXCEPT ![p] = TRUE]
          /\ Blame(TRUE, "danger")
          /\ UNCHANGED stream
  /\ UNCHANGED <<opts, pidfile, undeleted, fans>>

-----------------------------------------------------------------------------
(* The fan *)

\* A mutant: the initial state is read when the fan has been taken.
GrabFirst(p) ==
  /\ saved' = [saved EXCEPT ![p] = "thinkfan"]
  /\ held' = [held EXCEPT ![p] = TRUE]
  /\ fan' = "thinkfan"
  /\ Blame(\E q \in Procs : held[q], "mix")

\* Config::init with a fan driver that is there.
Grab(p) ==
  /\ saved' = [saved EXCEPT ![p] = fan]
  /\ held' = [held EXCEPT ![p] = TRUE]
  /\ fan' = "thinkfan"
  /\ Blame(\E q \in Procs : held[q], "mix")

\* The destructor of the fan driver; it may fail to write.
GiveBack(p) ==
  /\ held' = [held EXCEPT ![p] = FALSE]
  /\ UNCHANGED saved
  /\ IF held[p]
     THEN \/ fan' = saved[p] /\ UNCHANGED blame
          \/ UNCHANGED fan /\ Blame(TRUE, "lost")
     ELSE UNCHANGED <<fan, blame>>

-----------------------------------------------------------------------------
(* main() *)

\* set_options: the command line is valid, or it asks for help only, or
\* InvocationError is caught; both make main() return 0.
SetOptions(p) ==
  /\ pc[p] = "options"
  /\ \/ \E o \in Options : opts' = [opts EXCEPT ![p] = o] /\ Goto(p, "look")
     \/ Goto(p, "over") /\ UNCHANGED opts
  /\ UNCHANGED <<files, fans, blame>>

\* test_cfg->init: the whole configuration is made use of.
TestInit(p) ==
  /\ pc[p] = "test" /\ Goto(p, "tested")
  /\ Grab(p)
  /\ UNCHANGED <<opts, files>>

\* The sensors have been read, and the scope of test_cfg ends.
TestDone(p) ==
  /\ pc[p] = "tested" /\ Goto(p, "fork")
  /\ GiveBack(p)
  /\ UNCHANGED <<opts, files>>

Fork(p) ==
  /\ pc[p] = "fork" /\ Goto(p, "claim")
  /\ UNCHANGED <<opts, files, fans, blame>>

\* error<SystemError>, after which there is no other branch.
ForkFails(p) ==
  /\ pc[p] = "fork"
  /\ Goto(p, IF opts[p].sane THEN "over" ELSE "load")
  /\ Blame(~opts[p].sane, "danger")
  /\ UNCHANGED <<opts, files, fans>>

Load(p) ==
  /\ pc[p] = "load" /\ Goto(p, "run")
  /\ Grab(p)
  /\ UNCHANGED <<opts, files>>

\* FanDriver::set_speed in run()
Drive(p) ==
  /\ pc[p] = "run" /\ fan' = "thinkfan"
  /\ UNCHANGED <<pc, opts, files, held, saved, blame>>

\* The phases in which a configuration is read or used.
Testing == {"test", "tested"}
Working == Testing \union {"load", "run"}

\* SIGHUP, with a configuration that read_config accepts.
Reload(p) ==
  /\ pc[p] = "run" /\ Goto(p, "load")
  /\ GiveBack(p)
  /\ UNCHANGED <<opts, files>>

\* The end of run() at a signal, or an Error: the configuration goes, then what
\* main() has declared before the try block.
Leave(p) ==
  /\ pc[p] \in Working
  /\ Goto(p, IF pc[p] \in Testing THEN "untest" ELSE "leave")
  /\ UNCHANGED <<opts, files, fans, blame>>

Destroy(p) ==
  /\ pc[p] \in {"untest", "leave"}
  /\ Goto(p, IF pc[p] = "untest" THEN "over" ELSE "unlink")
  /\ GiveBack(p)
  /\ UNCHANGED <<opts, files>>

\* A mutant: the PidFileHolder is never destroyed.
ReturnLeaks(p) ==
  /\ pc[p] = "unlink" /\ Goto(p, "over")
  /\ UNCHANGED <<opts, files, fans, blame>>

\* ~PidFileHolder
Return(p) ==
  /\ pc[p] = "unlink" /\ Goto(p, "over")
  /\ RemoveFile(p)
  /\ UNCHANGED <<opts, fans, blame>>

\* A mutant: the handler does not clean up.
AbortUnclean(p) ==
  /\ pc[p] \in Working \union {"options"} /\ Goto(p, "aborted")
  /\ stream' = [stream EXCEPT ![p] = "closed"]
  /\ owns' = [owns EXCEPT ![p] = FALSE]
  /\ held' = [held EXCEPT ![p] = FALSE]
  /\ Blame(held[p], "lost")
  /\ UNCHANGED <<opts, pidfile, undeleted, fan, saved>>

\* An exception that main() has no handler for, or, from the options, that
\* std::stof throws: handle_uncaught, and nothing else is destroyed.
Abort(p) ==
  /\ pc[p] \in Working \union {"options"} /\ Goto(p, "aborted")
  /\ IF owns[p] THEN RemoveFile(p) ELSE UNCHANGED files
  /\ held' = [held EXCEPT ![p] = FALSE]
  /\ Blame(held[p], "lost")
  /\ UNCHANGED <<opts, fan, saved>>

Main(p) ==
  \/ SetOptions(p) \/ Look(p)
  \/ TestInit(p) \/ TestDone(p) \/ Fork(p) \/ ForkFails(p)
  \/ Claim(p) \/ Open(p) \/ Write(p) \/ WriteFails(p)
  \/ Load(p) \/ Drive(p) \/ Reload(p) \/ Leave(p) \/ Destroy(p) \/ Return(p) \/ Abort(p)

-----------------------------------------------------------------------------
(* The environment *)

\* SIGKILL, or the machine has no memory left.
Kill(p) ==
  /\ pc[p] \notin Ended /\ Goto(p, "killed")
  /\ stream' = [stream EXCEPT ![p] = "closed"]
  /\ owns' = [owns EXCEPT ![p] = FALSE]
  /\ held' = [held EXCEPT ![p] = FALSE]
  /\ Blame(held[p], "lost")
  /\ UNCHANGED <<opts, pidfile, undeleted, fan, saved>>

\* MSG_RUNNING: "If you're sure thinkfan is not running, delete" the file.
Delete ==
  /\ pidfile # "none" /\ \A p \in Procs : pc[p] \in Ended \union {"options"}
  /\ pidfile' = "none"
  /\ UNCHANGED <<pc, opts, stream, owns, undeleted, fans, blame>>

Init ==
  /\ pc = [p \in Procs |-> "options"]
  /\ opts = [p \in Procs |-> [daemonize |-> TRUE, sane |-> TRUE]]
  /\ pidfile = "none" /\ stream = [p \in Procs |-> "closed"]
  /\ owns = [p \in Procs |-> FALSE] /\ undeleted = {}
  /\ fan = "firmware" /\ held = [p \in Procs |-> FALSE]
  /\ saved = [p \in Procs |-> "firmware"]
  /\ blame = {}

Next == (\E p \in Procs : Main(p) \/ Kill(p)) \/ Delete

Spec == Init /\ [][Next]_vars

-----------------------------------------------------------------------------
(* Properties *)

Phases ==
  {"options", "look", "test", "tested", "fork", "claim", "open", "write",
   "load", "run", "untest", "leave", "unlink"} \union Ended

\* The values of the variables; a process that has ended keeps nothing.
TypeOK ==
  /\ pc \in [Procs -> Phases]
  /\ opts \in [Procs -> Option]
  /\ pidfile \in Procs \union {"none", "empty"}
  /\ stream \in [Procs -> {"closed", "linked", "orphan"}]
  /\ owns \in [Procs -> BOOLEAN]
  /\ undeleted \subseteq Procs
  /\ fan \in {"firmware", "thinkfan"}
  /\ held \in [Procs -> BOOLEAN]
  /\ saved \in [Procs -> {"firmware", "thinkfan"}]
  /\ blame \subseteq Blames
  /\ \A p \in Procs : pc[p] \in Ended => stream[p] = "closed" /\ ~owns[p] /\ ~held[p]

\* Without -D, and unless two processes have been at thinkfan.cpp:82-89 at once,
\* there is one daemon at a time: from its constructor until it has given
\* back the fan the PID file is there and names it, however the others end
\* meanwhile (thinkfan.cpp:84, 105, 115, 431).
SoleDaemon ==
  blame \intersect {"race", "danger"} = {} =>
    \A p \in Procs :
      owns[p] \/ (held[p] /\ pc[p] \notin {"tested", "untest"}) => pidfile = p

\* MSG_RUNNING says what a PID file means: thinkfan is running, or it was
\* killed.  A file with a number in it, with -D and after races too, is that of a
\* process that has it open, of one that was killed, or of one that has tried to
\* delete it and could not (thinkfan.cpp:106): whoever has made it tries, on the
\* way out of main() and when no handler is found (error.cpp:141).
NoStaleFile ==
  pidfile \in Procs =>
    \/ stream[pidfile] = "linked"
    \/ pc[pidfile] = "killed"
    \/ pidfile \in undeleted

\* A fan that is not the firmware's is driven by a process that will give it
\* back, unless one that had it was stopped by force or could not write, or two
\* had it at once.  The configuration that is tested before fork() is part of
\* this (thinkfan.cpp:366-376).
FanGivenBack ==
  blame \intersect {"mix", "lost"} = {} =>
    (fan = "thinkfan" <=> \E p \in Procs : held[p])

=============================================================================
