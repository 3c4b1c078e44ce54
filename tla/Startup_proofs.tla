---------------------------- MODULE Startup_proofs ----------------------------
(***************************************************************************)
(* What holds of the PID file and of the fan for any number of starts, with *)
(* any valid options.                                                      *)
(***************************************************************************)
EXTENDS Startup, TLAPS

-----------------------------------------------------------------------------
(* The inductive invariant *)

\* From the end of the constructor of PidFileHolder to its destructor.
DaemonPhases == {"load", "run", "leave", "unlink"}

\* What a process has is in keeping with where it is.
Possessions ==
  \A p \in Procs :
    /\ stream[p] # "closed" => pc[p] \in {"write"} \union DaemonPhases
    /\ stream[p] # "closed" /\ pc[p] \in DaemonPhases => owns[p]
    /\ owns[p] => pc[p] \in DaemonPhases
    /\ held[p] => pc[p] \in {"tested", "untest", "run", "leave"}
    /\ pc[p] \in {"tested", "run"} => held[p]

\* A number in the PID file is that of the process that has it open, or that
\* could not delete it.
Numbered ==
  \A p \in Procs :
    pidfile = p => \/ stream[p] = "linked" /\ pc[p] \in DaemonPhases
                   \/ pc[p] = "killed"
                   \/ p \in undeleted

\* From looking for the PID file to deleting it.
Inside(p) == pc[p] = "open" \/ stream[p] # "closed"

\* Nobody has to be excused for what he has done to the PID file.
Alone == blame \intersect {"race", "danger"} = {}

\* Then there is one process at most that has to do with it.
AloneInside ==
  Alone =>
    /\ \A p, q \in Procs : Inside(p) /\ Inside(q) => p = q
    /\ \A p \in Procs :
         /\ pc[p] = "open" => pidfile = "none"
         /\ stream[p] # "closed" =>
              stream[p] = "linked" /\ pidfile = IF pc[p] = "write" THEN "empty" ELSE p
         /\ pc[p] \in DaemonPhases => stream[p] # "closed" /\ owns[p]

\* One process at most has the fan, and remembers the firmware.
AloneHeld ==
  blame \intersect {"mix", "lost"} = {} =>
    /\ \A p, q \in Procs : held[p] /\ held[q] => p = q
    /\ fan = "thinkfan" <=> \E p \in Procs : held[p]
    /\ \A p \in Procs : held[p] => saved[p] = "firmware"

IInv == TypeOK /\ Possessions /\ Numbered /\ AloneInside /\ AloneHeld

-----------------------------------------------------------------------------
(* The type invariant *)

\* The values alone, without what TypeOK says of the processes that have ended.
Values ==
  /\ pc \in [Procs -> Phases]
  /\ opts \in [Procs -> Option]
  /\ pidfile \in Procs \union {"none", "empty"}
  /\ stream \in [Procs -> {"closed", "linked", "orphan"}]
  /\ owns \in [Procs -> BOOLEAN]
  /\ undeleted \subseteq Procs
  /\ fan \in {"firmware", "thinkfan"}
  /\ held \in [Procs -> BOOLEAN]
  /\ saved \in [Procs -> {"firmware", "thinkfan"}]
  /\ blame \subseteq Blames

\* What has happened is not forgotten.
LEMMA BlameGrows ==
  ASSUME Values, NEW b \in BOOLEAN, NEW reason \in Blames, Blame(b, reason)
  PROVE  /\ blame \subseteq blame' /\ blame' \subseteq Blames
         /\ b => reason \in blame'
         /\ ~b => blame' = blame
  BY DEF Blame, Values

\* The values of the PID file's variables after remove_file.
LEMMA RemovedValues ==
  ASSUME Values, NEW p \in Procs, RemoveFile(p)
  PROVE  /\ pidfile' \in Procs \union {"none", "empty"}
         /\ stream' \in [Procs -> {"closed", "linked", "orphan"}]
         /\ owns' \in [Procs -> BOOLEAN]
         /\ undeleted' \subseteq Procs
<1>1. \A q \in Procs : stream[q] \in {"closed", "linked", "orphan"}
  BY DEF Values
<1> QED
  BY <1>1 DEF RemoveFile, Values

\* The values after any step of a process.
LEMMA ValuesKept ==
  ASSUME Values, NEW p \in Procs, Main(p) \/ Kill(p)
  PROVE  Values' /\ blame \subseteq blame'
<1> USE DEF Values, Goto, Phases, Ended, files, fans
<1>1. CASE SetOptions(p)
  BY <1>1, OptionsAssumption DEF SetOptions
<1>2. CASE Look(p)
  BY <1>2 DEF Look
<1>3. CASE TestInit(p)
  BY <1>3, BlameGrows DEF TestInit, Grab, Blames
<1>4. CASE TestDone(p)
  BY <1>4, BlameGrows DEF TestDone, GiveBack, Blames
<1>5. CASE Fork(p)
  BY <1>5 DEF Fork
<1>6. CASE ForkFails(p)
  BY <1>6, BlameGrows DEF ForkFails, Option, Blames
<1>7. CASE Claim(p)
  BY <1>7 DEF Claim, Blames
<1>8. CASE Open(p)
  BY <1>8 DEF Open
<1>9. CASE Write(p)
  BY <1>9 DEF Write
<1>10. CASE WriteFails(p)
  BY <1>10, BlameGrows DEF WriteFails, Blames
<1>11. CASE Load(p)
  BY <1>11, BlameGrows DEF Load, Grab, Blames
<1>12. CASE Drive(p)
  BY <1>12 DEF Drive
<1>13. CASE Reload(p)
  BY <1>13, BlameGrows DEF Reload, GiveBack, Blames
<1>14. CASE Leave(p)
  BY <1>14 DEF Leave
<1>15. CASE Destroy(p)
  BY <1>15, BlameGrows DEF Destroy, GiveBack, Blames
<1>16. CASE Return(p)
  BY <1>16, RemovedValues DEF Return
<1>17. CASE Abort(p)
  <2>1. blame \subseteq blame' /\ blame' \subseteq Blames
    BY <1>17, BlameGrows DEF Abort, Blames
  <2>2. /\ pidfile' \in Procs \union {"none", "empty"}
        /\ stream' \in [Procs -> {"closed", "linked", "orphan"}]
        /\ owns' \in [Procs -> BOOLEAN]
        /\ undeleted' \subseteq Procs
    BY <1>17, RemovedValues DEF Abort
  <2>3. pc' \in [Procs -> Phases] /\ UNCHANGED <<opts, fan, saved>>
        /\ held' \in [Procs -> BOOLEAN]
    BY <1>17 DEF Abort
  <2> QED
    BY <2>1, <2>2, <2>3
<1>18. CASE Kill(p)
  BY <1>18, BlameGrows DEF Kill, Blames
<1> QED
  BY <1>1, <1>2, <1>3, <1>4, <1>5, <1>6, <1>7, <1>8, <1>9, <1>10, <1>11, <1>12,
     <1>13, <1>14, <1>15, <1>16, <1>17, <1>18 DEF Main
-----------------------------------------------------------------------------
(* The steps of a process *)

\* What a process has, after one of its steps.
LEMMA PossessionsKept ==
  ASSUME Values, Possessions, NEW p \in Procs, Main(p) \/ Kill(p)
  PROVE  Possessions'
<1> USE DEF Values, Possessions, DaemonPhases, Goto, Ended, files, fans
<1>1. CASE SetOptions(p)
  BY <1>1 DEF SetOptions
<1>2. CASE Look(p)
  BY <1>2 DEF Look
<1>3. CASE TestInit(p)
  BY <1>3 DEF TestInit, Grab
<1>4. CASE TestDone(p)
  BY <1>4 DEF TestDone, GiveBack
<1>5. CASE Fork(p)
  BY <1>5 DEF Fork
<1>6. CASE ForkFails(p)
  BY <1>6 DEF ForkFails
<1>7. CASE Claim(p)
  BY <1>7 DEF Claim
<1>8. CASE Open(p)
  BY <1>8 DEF Open
<1>9. CASE Write(p)
  BY <1>9 DEF Write
<1>10. CASE WriteFails(p)
  <2>1. CASE opts[p].sane
    BY <1>10, <2>1 DEF WriteFails
  <2>2. CASE ~opts[p].sane
    BY <1>10, <2>2 DEF WriteFails
  <2> QED
    BY <2>1, <2>2
<1>11. CASE Load(p)
  BY <1>11 DEF Load, Grab
<1>12. CASE Drive(p)
  BY <1>12 DEF Drive
<1>13. CASE Reload(p)
  BY <1>13 DEF Reload, GiveBack
<1>14. CASE Leave(p)
  BY <1>14 DEF Leave, Working, Testing
<1>15. CASE Destroy(p)
  BY <1>15 DEF Destroy, GiveBack
<1>16. CASE Return(p)
  BY <1>16 DEF Return, RemoveFile
<1>17. CASE Abort(p)
  BY <1>17 DEF Abort, RemoveFile, Working, Testing
<1>18. CASE Kill(p)
  BY <1>18 DEF Kill
<1> QED
  BY <1>1, <1>2, <1>3, <1>4, <1>5, <1>6, <1>7, <1>8, <1>9, <1>10, <1>11, <1>12,
     <1>13, <1>14, <1>15, <1>16, <1>17, <1>18 DEF Main

\* The number in the PID file, after a step of a process.
LEMMA NumberedKept ==
  ASSUME Values, Possessions, Numbered, NEW p \in Procs, Main(p) \/ Kill(p)
  PROVE  Numbered'
<1> USE OptionsAssumption DEF Values, Possessions, Numbered, DaemonPhases, Goto, Ended, files, fans
<1>1. CASE SetOptions(p)
  BY <1>1 DEF SetOptions
<1>2. CASE Look(p)
  BY <1>2 DEF Look
<1>3. CASE TestInit(p)
  BY <1>3 DEF TestInit, Grab
<1>4. CASE TestDone(p)
  BY <1>4 DEF TestDone, GiveBack
<1>5. CASE Fork(p)
  BY <1>5 DEF Fork
<1>6. CASE ForkFails(p)
  BY <1>6 DEF ForkFails
<1>7. CASE Claim(p)
  BY <1>7 DEF Claim
<1>8. CASE Open(p)
  BY <1>8 DEF Open
<1>9. CASE Write(p)
  BY <1>9 DEF Write
<1>10. CASE WriteFails(p)
  <2>1. CASE opts[p].sane
    BY <1>10, <2>1 DEF WriteFails
  <2>2. CASE ~opts[p].sane
    BY <1>10, <2>2 DEF WriteFails
  <2> QED
    BY <2>1, <2>2
<1>11. CASE Load(p)
  BY <1>11 DEF Load, Grab
<1>12. CASE Drive(p)
  BY <1>12 DEF Drive
<1>13. CASE Reload(p)
  BY <1>13 DEF Reload, GiveBack
<1>14. CASE Leave(p)
  BY <1>14 DEF Leave, Working, Testing
<1>15. CASE Destroy(p)
  BY <1>15 DEF Destroy, GiveBack
<1>16. CASE Return(p)
  BY <1>16 DEF Return, RemoveFile
<1>17. CASE Abort(p)
  BY <1>17 DEF Abort, RemoveFile, Working, Testing
<1>18. CASE Kill(p)
  BY <1>18 DEF Kill
<1> QED
  BY <1>1, <1>2, <1>3, <1>4, <1>5, <1>6, <1>7, <1>8, <1>9, <1>10, <1>11, <1>12,
     <1>13, <1>14, <1>15, <1>16, <1>17, <1>18 DEF Main

\* The PID file and who has to do with it.
LEMMA AloneInsideKept ==
  ASSUME Values, Possessions, AloneInside, NEW p \in Procs, Main(p) \/ Kill(p)
  PROVE  AloneInside'
<1>0. Alone' => Alone
  BY ValuesKept DEF Alone
<1> USE <1>0, OptionsAssumption DEF Values, Possessions, AloneInside, Inside, DaemonPhases,
        Goto, Ended, files, fans
<1>1. CASE SetOptions(p)
  BY <1>1 DEF SetOptions
<1>2. CASE Look(p)
  BY <1>2 DEF Look
<1>3. CASE TestInit(p)
  BY <1>3 DEF TestInit, Grab
<1>4. CASE TestDone(p)
  BY <1>4 DEF TestDone, GiveBack
<1>5. CASE Fork(p)
  BY <1>5 DEF Fork
<1>6. CASE ForkFails(p)
  BY <1>6 DEF ForkFails, Alone, Blame
<1>7. CASE Claim(p)
  BY <1>7 DEF Claim, Alone
<1>8. CASE Open(p)
  BY <1>8 DEF Open
<1>9. CASE Write(p)
  BY <1>9 DEF Write
<1>10. CASE WriteFails(p)
  BY <1>10 DEF WriteFails, Alone, Blame
<1>11. CASE Load(p)
  BY <1>11 DEF Load, Grab
<1>12. CASE Drive(p)
  BY <1>12 DEF Drive
<1>13. CASE Reload(p)
  BY <1>13 DEF Reload, GiveBack
<1>14. CASE Leave(p)
  BY <1>14 DEF Leave, Working, Testing
<1>15. CASE Destroy(p)
  BY <1>15 DEF Destroy, GiveBack
<1>16. CASE Return(p)
  BY <1>16 DEF Return, RemoveFile
<1>17. CASE Abort(p)
  BY <1>17 DEF Abort, RemoveFile, Working, Testing
<1>18. CASE Kill(p)
  BY <1>18 DEF Kill
<1> QED
  BY <1>1, <1>2, <1>3, <1>4, <1>5, <1>6, <1>7, <1>8, <1>9, <1>10, <1>11, <1>12,
     <1>13, <1>14, <1>15, <1>16, <1>17, <1>18 DEF Main

\* The fan and who has it.
LEMMA AloneHeldKept ==
  ASSUME Values, Possessions, AloneHeld, NEW p \in Procs, Main(p) \/ Kill(p)
  PROVE  AloneHeld'
<1>0. blame \subseteq blame'
  BY ValuesKept
<1> USE <1>0 DEF Values, Possessions, AloneHeld, Goto, Ended, files, fans, Blame
<1>1. CASE SetOptions(p)
  BY <1>1 DEF SetOptions
<1>2. CASE Look(p)
  BY <1>2 DEF Look
<1>3. CASE TestInit(p)
  BY <1>3 DEF TestInit, Grab
<1>4. CASE TestDone(p)
  BY <1>4 DEF TestDone, GiveBack
<1>5. CASE Fork(p)
  BY <1>5 DEF Fork
<1>6. CASE ForkFails(p)
  BY <1>6 DEF ForkFails
<1>7. CASE Claim(p)
  BY <1>7 DEF Claim
<1>8. CASE Open(p)
  BY <1>8 DEF Open
<1>9. CASE Write(p)
  BY <1>9 DEF Write
<1>10. CASE WriteFails(p)
  <2>1. CASE opts[p].sane
    BY <1>10, <2>1 DEF WriteFails
  <2>2. CASE ~opts[p].sane
    BY <1>10, <2>2 DEF WriteFails
  <2> QED
    BY <2>1, <2>2
<1>11. CASE Load(p)
  BY <1>11 DEF Load, Grab
<1>12. CASE Drive(p)
  BY <1>12 DEF Drive
<1>13. CASE Reload(p)
  BY <1>13 DEF Reload, GiveBack
<1>14. CASE Leave(p)
  BY <1>14 DEF Leave, Working, Testing
<1>15. CASE Destroy(p)
  BY <1>15 DEF Destroy, GiveBack
<1>16. CASE Return(p)
  BY <1>16 DEF Return, RemoveFile
<1>17. CASE Abort(p)
  BY <1>17 DEF Abort, RemoveFile, Working, Testing
<1>18. CASE Kill(p)
  BY <1>18 DEF Kill
<1> QED
  BY <1>1, <1>2, <1>3, <1>4, <1>5, <1>6, <1>7, <1>8, <1>9, <1>10, <1>11, <1>12,
     <1>13, <1>14, <1>15, <1>16, <1>17, <1>18 DEF Main

-----------------------------------------------------------------------------
(* The theorems *)

\* Nothing has happened yet.
LEMMA InitHolds == Init => IInv
  BY OptionsAssumption
     DEF Init, IInv, TypeOK, Phases, Option, Ended, Possessions, Numbered, DaemonPhases,
         AloneInside, Inside, AloneHeld

\* Deleting the PID file while no process is about.
LEMMA DeleteKeeps ==
  ASSUME IInv, Delete
  PROVE  IInv'
<1> USE OptionsAssumption DEF IInv, Delete, TypeOK, fans, Ended
<1>1. TypeOK'
  OBVIOUS
<1>2. Possessions'
  BY DEF Possessions
<1>3. Numbered'
  BY DEF Numbered
<1>4. AloneInside'
  BY DEF AloneInside, Alone, Inside, DaemonPhases, Possessions
<1>5. AloneHeld'
  BY DEF AloneHeld
<1> QED
  BY <1>1, <1>2, <1>3, <1>4, <1>5

\* Each step, of a process or of its surroundings, keeps the invariant.
LEMMA StepKeeps == IInv /\ [Next]_vars => IInv'
<1> SUFFICES ASSUME IInv, [Next]_vars PROVE IInv'
  OBVIOUS
<1>1. CASE \E p \in Procs : Main(p) \/ Kill(p)
  <2>1. PICK p \in Procs : Main(p) \/ Kill(p)
    BY <1>1
  <2>2. Values
    BY DEF IInv, TypeOK, Values
  <2>3. Values' /\ Possessions'
    BY <2>1, <2>2, ValuesKept, PossessionsKept DEF IInv
  <2>4. TypeOK'
    BY <2>3 DEF Values, Possessions, TypeOK, DaemonPhases, Ended
  <2>5. Numbered' /\ AloneInside' /\ AloneHeld'
    BY <2>1, <2>2, NumberedKept, AloneInsideKept, AloneHeldKept DEF IInv
  <2> QED
    BY <2>3, <2>4, <2>5 DEF IInv
<1>2. CASE Delete
  BY <1>2, DeleteKeeps
<1>3. CASE UNCHANGED vars
  BY <1>3 DEF vars, IInv, TypeOK, Possessions, Numbered, AloneInside, Alone, Inside, AloneHeld
<1> QED
  BY <1>1, <1>2, <1>3 DEF Next

\* The inductive invariant is one.
LEMMA Invariance == Spec => []IInv
  BY InitHolds, StepKeeps, PTL DEF Spec

\* The values of the variables, and that a process which has ended keeps nothing
\* open, for any number of starts.
THEOREM TypeCorrect == Spec => []TypeOK
<1>1. IInv => TypeOK
  BY DEF IInv
<1> QED
  BY <1>1, Invariance, PTL

\* Without -D and without two processes between looking for the PID file and
\* making it, there is one daemon at a time and the PID file names it.
THEOREM SoleDaemonTheorem == Spec => []SoleDaemon
<1>1. IInv => SoleDaemon
  BY DEF IInv, Possessions, AloneInside, Alone, SoleDaemon, DaemonPhases
<1> QED
  BY <1>1, Invariance, PTL

\* A number in the PID file is that of a process that has the file open, that was
\* killed, or whose unlink() has failed.
THEOREM NoStaleFileTheorem == Spec => []NoStaleFile
<1>1. IInv => NoStaleFile
  BY DEF IInv, Numbered, NoStaleFile
<1> QED
  BY <1>1, Invariance, PTL

\* While no two processes have the fan, and none was stopped by force with it,
\* the fan is out of the firmware's hands only for a process that will give it
\* back.
THEOREM FanGivenBackTheorem == Spec => []FanGivenBack
<1>1. IInv => FanGivenBack
  BY DEF IInv, AloneHeld, FanGivenBack
<1> QED
  BY <1>1, Invariance, PTL

=============================================================================
