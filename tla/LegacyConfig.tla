---------------------------- MODULE LegacyConfig ----------------------------
(***************************************************************************)
(* parser.cpp: the old syntax.  A text is a sequence of statements, with   *)
(* the white space and comments between them; `at' is where `input' points *)
(* to.  A parser that fails leaves `input' where it was (Parser::parse),   *)
(* so each step either takes a statement or leaves everything unchanged.   *)
(***************************************************************************)
EXTENDS ConfigReader

text == fs[queue[1]].legacy

\* What a text is made of.
IsText(t) ==
  IsSeq(t) /\ \A i \in DOMAIN t : t[i].is = "level" => t[i].speed \in Int /\ t[i].upper \in Nat

AtEnd == at > Len(text)
Next1 == IF AtEnd THEN [is |-> "end"] ELSE text[at]

Blanks == {"space", "comment"}

\* CommentParser and space_parser take all the space and comments there are.
PastBlanks(i) ==
  CHOOSE j \in i .. Len(text) + 1 :
    /\ \A k \in i .. j - 1 : text[k].is \in Blanks
    /\ j <= Len(text) => text[j].is \notin Blanks

Took == at' = at + 1 /\ UNCHANGED <<fs, queue, mark, drivers, outcome>>
Left == UNCHANGED <<fs, queue, building, outcome>>

\* KeywordParser
FanKeywords == {"tp_fan", "pwm_fan"}
SensorKeywords == {"tp_thermal", "hwmon", "atasmart", "nv_thermal"}

-----------------------------------------------------------------------------

\* A mutant: some_match keeps its value from the iteration before.
BeginUnreset ==
  /\ pc = "blanks"
  /\ at' = PastBlanks(at)
  /\ pc' = "fan"
  /\ UNCHANGED <<fs, queue, mark, drivers, filling, config, outcome>>

\* do { some_match = comment_parser.match(input) || space_parser.match(input);
BeginIteration ==
  /\ pc = "blanks"
  /\ mark' = at /\ at' = PastBlanks(at)
  /\ pc' = "fan"
  /\ UNCHANGED <<fs, queue, drivers, filling, config, outcome>>

\* FanParser, StepwiseMapping::set_fan.  A second fan replaces the first.
FanStatement ==
  /\ pc = "fan"
  /\ IF Next1.is = "fan" THEN Finish("ConfigError")
     ELSE /\ pc' = "sensor"
          /\ IF Next1.is \in FanKeywords
             THEN /\ filling' = [filling EXCEPT ![1].fan = at]
                  /\ Took /\ UNCHANGED config
             ELSE Left

\* What num_temps() is before init().
TempsSoFar(st) == IF st.is \in {"tp_thermal", "hwmon"} THEN 0 ELSE 1

\* set_correction() checks the length against num_temps() and names the path
\* in its complaint, which no driver has yet.
SensorFaultL(st, lib) == FirstOf(<<
  LibraryFault(st.is = "nv_thermal" => lib),
  <<st.correction \notin {Absent, TempsSoFar(st)}, "bad_optional_access">> >>)

\* SensorParser
SensorStatement ==
  /\ pc = "sensor"
  /\ IF Next1.is = "sensor" THEN Finish("ConfigError")
     ELSE IF Next1.is \notin SensorKeywords THEN pc' = "simple" /\ Left
     ELSE \E lib \in BOOLEAN :
            IF SensorFaultL(Next1, lib) # "none"
            THEN Finish(SensorFaultL(Next1, lib))
            ELSE /\ pc' = "simple"
                 /\ config' = [config EXCEPT !.sensors = Append(@, at)]
                 /\ Took /\ UNCHANGED filling

\* What SimpleLevelParser takes: in one pair of brackets a level and two ints.
IsSimple(st) ==
  st.is = "level" /\ st.matched /\ st.body = "ints" /\ st.lower + st.upper = 2

\* What ComplexLevelParser takes: in one pair of brackets a level and two
\* tuples, neither of them empty.
IsComplex(st) ==
  /\ st.is = "level" /\ st.matched /\ st.body = "tuples"
  /\ st.lower > 0 /\ st.upper > 0

LevelFault(st, dim) == FirstOf(<<
  <<LevelRefused(st.speed, st.limits, st.quoted), "ConfigError">>,
  <<Error(st.quoted /\ st.lower # st.upper), "ConfigError">>,
  <<Misplaced(filling[1].levels, st.speed, st.limits, dim), "ConfigError">> >>)

LevelStatement(st, dim) ==
  IF LevelFault(st, dim) # "none"
  THEN Finish(LevelFault(st, dim))
  ELSE /\ filling' = [filling EXCEPT ![1] = Added(@, st.speed, dim)]
       /\ Took /\ UNCHANGED config

SimpleStatement ==
  /\ pc = "simple"
  /\ IF IsSimple(Next1)
     THEN /\ LevelStatement(Next1, 1)
          /\ LevelFault(Next1, 1) = "none" => pc' = "complex"
     ELSE pc' = "complex" /\ Left

ComplexStatement ==
  /\ pc = "complex"
  /\ IF IsComplex(Next1)
     THEN /\ LevelStatement(Next1, Next1.upper)
          /\ LevelFault(Next1, Next1.upper) = "none" => pc' = "while"
     ELSE pc' = "while" /\ Left

\* A mutant: the loop does not ask whether it got on.
EndAnyIteration == pc = "while" /\ ~AtEnd /\ pc' = "blanks" /\ Left

\* } while (*input != 0 && some_match).  The loop made a match exactly when
\* `input' has moved.
EndIteration ==
  /\ pc = "while" /\ ~AtEnd /\ at > mark
  /\ pc' = "blanks" /\ Left

\* A mutant: what is left of the text does not matter.
EndAnywhere ==
  /\ pc = "while" /\ (AtEnd \/ at = mark)
  /\ config' = [config EXCEPT !.fans = filling]
  /\ pc' = "over" /\ outcome' = "config"
  /\ UNCHANGED <<fs, queue, at, mark, drivers, filling>>

\* A mutant: the caller does not look for the null pointer.
EndUnnoticed ==
  /\ pc = "while" /\ (AtEnd \/ at = mark)
  /\ config' = [config EXCEPT !.fans = filling]
  /\ pc' = "over" /\ outcome' = IF AtEnd THEN "config" ELSE "none"
  /\ UNCHANGED <<fs, queue, at, mark, drivers, filling>>

\* Nothing matched, or this is the end of the text.
EndOfText ==
  /\ pc = "while" /\ (AtEnd \/ at = mark)
  /\ config' = [config EXCEPT !.fans = filling]
  /\ pc' = "over" /\ outcome' = IF AtEnd THEN "config" ELSE "SyntaxError"
  /\ UNCHANGED <<fs, queue, at, mark, drivers, filling>>

ParseLegacy ==
  \/ BeginIteration \/ FanStatement \/ SensorStatement
  \/ SimpleStatement \/ ComplexStatement \/ EndIteration \/ EndOfText

=============================================================================
