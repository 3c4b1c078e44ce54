----------------------------- MODULE HwmonLookup -----------------------------
(***************************************************************************)
(* hwmon.cpp: how the files of a configuration entry are found in sysfs.   *)
(*                                                                         *)
(* A tree is a record of functions on directories: `sub' has the entries   *)
(* that filter_subdirs lets through, in alphabetical order, `scannable' is *)
(* FALSE for a link to something that is no directory, `name' and `model'  *)
(* are what the file of that name has, `files' are the indices of the temp *)
(* or pwm files that can be opened.  Links may make it a graph, and a      *)
(* cyclic one; all searches have a depth.                                  *)
(***************************************************************************)
EXTENDS Integers, Sequences, FiniteSets, SequencesExt

CONSTANTS
  Dirs,         \* directories
  HwmonDirs,    \* those that are called hwmon* or device: filter_hwmon_dirs
  Absent        \* an optional entry that is not written; no such file

ASSUME DirsAssumption == HwmonDirs \subseteq Dirs

\* What a tree is made of.
IsTree(t) ==
  /\ t.sub \in [Dirs -> Seq(Dirs)]
  /\ t.scannable \in [Dirs -> BOOLEAN]

Found(d) == [is |-> "found", dir |-> d]
None == [is |-> "none"]
Throws(e) == [is |-> e]

-----------------------------------------------------------------------------
(* find_hwmons_by_name and find_hwmons_by_model *)

MaxDepth == 5

\* filter_subdirs
Subdirs(t, d) == IF t.scannable[d] THEN t.sub[d] ELSE <<>>

\* All directories at the least depths at which `label' has the value.
Labelled(t, label, value, root) ==
  LET below[depth \in 1..MaxDepth] ==
        [d \in Dirs |->
           IF t[label][d] = value THEN <<d>>
           ELSE IF depth = MaxDepth THEN <<>>
           ELSE LET subs == Subdirs(t, d)
                IN  FlattenSeq([i \in DOMAIN subs |-> below[depth + 1][subs[i]]])]
  IN  below[1][root]

ByName(t, name, root) == Labelled(t, "name", name, root)
ByModel(t, model, root) == Labelled(t, "model", model, root)

-----------------------------------------------------------------------------
(* find_hwmons_by_indices *)

MaxIndexDepth == 3

\* find_files: all of them are there.
HasFiles(t, d, indices) == t.scannable[d] /\ indices \subseteq t.files[d]

\* Which of the entries of a directory filter_hwmon_dirs lets through.
HwmonSubs(t, d) == {i \in DOMAIN t.sub[d] : t.sub[d][i] \in HwmonDirs}

\* The first directory in which the search ended: it found the files, or threw
\* an exception, which nobody catches on the way up.
FirstHit(results) ==
  LET hits == {i \in DOMAIN results : results[i].is # "none"}
  IN  IF hits = {} THEN None
      ELSE results[CHOOSE i \in hits : \A j \in hits : i <= j]

\* A mutant: the deepest directories count as searched.
SearchShallow(t, indices, root) ==
  LET below[depth \in 0..MaxIndexDepth] ==
        [d \in Dirs |->
           IF HasFiles(t, d, indices) THEN Found(d)
           ELSE IF depth = MaxIndexDepth THEN None
           ELSE IF ~t.scannable[d] THEN Throws("IOerror")
           ELSE FirstHit([i \in HwmonSubs(t, d) |-> below[depth + 1][t.sub[d][i]]])]
  IN  below[0][root]

\* A directory that is too deep makes the whole search fail.
ByIndices(t, indices, root) ==
  LET below[depth \in 0..MaxIndexDepth + 1] ==
        [d \in Dirs |->
           IF HasFiles(t, d, indices) THEN Found(d)
           ELSE IF depth > MaxIndexDepth THEN Throws("DriverInitError")
           ELSE IF ~t.scannable[d] THEN Throws("IOerror")
           ELSE FirstHit([i \in HwmonSubs(t, d) |-> below[depth + 1][t.sub[d][i]]])]
  IN  below[0][root]

-----------------------------------------------------------------------------
(* HwmonInterface::lookup, the part that is done once *)

\* The path so far, when there must be exactly one directory with a label.
Only(matches) ==
  IF Len(matches) = 1 THEN Found(matches[1]) ELSE Throws("DriverInitError")

\* An entry without indices has the path of a file.
Search(t, e) ==
  LET named == IF e.name = Absent THEN Found(e.base)
               ELSE Only(ByName(t, e.name, e.base))
      modelled == IF named.is # "found" \/ e.model = Absent THEN named
                  ELSE Only(ByModel(t, e.model, named.dir))
  IN  IF modelled.is # "found" \/ e.indices = Absent THEN modelled
      ELSE ByIndices(t, ToSet(e.indices), modelled.dir)

-----------------------------------------------------------------------------
(* What a search promises *)

\* The directories to which there is a way of exactly n links that pass the
\* filter.
Steps(t, root) ==
  LET away[n \in 0..MaxIndexDepth + 1] ==
        IF n = 0 THEN {root}
        ELSE UNION {IF t.scannable[d] THEN {t.sub[d][i] : i \in HwmonSubs(t, d)} ELSE {} :
                      d \in away[n - 1]}
  IN  away

Within(t, root, n) == UNION {Steps(t, root)[k] : k \in 0..n}

\* What lookup() finds is a directory that has all the files; that it finds
\* nothing means that there is none within four steps; and it gives up for
\* another reason only when the search has met a directory that is four steps
\* away or cannot be listed (hwmon.cpp:178-214).
SearchRight(t, indices, root) ==
  LET r == ByIndices(t, indices, root)
      candidates == {d \in Within(t, root, MaxIndexDepth + 1) : HasFiles(t, d, indices)}
  IN  CASE r.is = "found" -> r.dir \in candidates
        [] r.is = "none" -> candidates = {}
        [] r.is = "DriverInitError" -> Steps(t, root)[MaxIndexDepth + 1] # {}
        [] r.is = "IOerror" -> \E d \in Within(t, root, MaxIndexDepth) : ~t.scannable[d]

\* The directories to which there is a way of exactly n links that passes no
\* directory with the label.
Ways(t, label, value, root) ==
  LET away[n \in 0..MaxDepth - 1] ==
        IF n = 0 THEN {root}
        ELSE UNION {ToSet(Subdirs(t, d)) : d \in {c \in away[n - 1] : t[label][c] # value}}
  IN  away

\* A search by name or model is right about the directories it could look at:
\* it has each way to one that is labelled so, and it takes one for the only one
\* only if within four steps from the base path, on ways that pass no other,
\* there is no second (hwmon.cpp:89-175).
LabelsRight(t, label, value, root) ==
  LET within == UNION {Ways(t, label, value, root)[n] : n \in 0..MaxDepth - 1}
      all == {d \in within : t[label][d] = value}
      m == Labelled(t, label, value, root)
  IN  /\ ToSet(m) = all
      /\ Only(m).is = "found" => all = {Only(m).dir}
=============================================================================
