---------------------------- MODULE CommandLine ----------------------------
(***************************************************************************)
(* parse_args of stemsmithd (src/src/http/stemsmithd.cpp): what a sequence *)
(* of arguments is taken for.                                              *)
(*                                                                         *)
(* An argument is a record.  With an option it is "--option" (the value is *)
(* Absent), "--option=" (Empty) or "--option=word"; without one it is the  *)
(* word itself.  A word is the number std::stoi and std::stoul read at its *)
(* start, or Text if they find none; Help is "--help" or "-h".             *)
(*                                                                         *)
(* A definition with no comment that stands directly before the one it     *)
(* varies is a mutant of it.                                               *)
(***************************************************************************)
EXTENDS Integers, Sequences, SequencesExt

CONSTANTS
    Numbers,    \* the numbers that are written on command lines
    Text, Help, Empty, Absent, None,
    UlongSize   \* how many values std::size_t has

Options == {"--bind-address", "--port", "--cache-root", "--output-root", "--workers"}

ASSUME CommandLineAssumption ==
    /\ Numbers \subseteq Int /\ UlongSize \in Nat \ {0}
    /\ {Text, Help, Empty, Absent, None} \intersect Int = {}
    /\ None \notin Options /\ Empty # Absent

Words == Numbers \union {Text, Help}

Arguments ==
    [option : Options, value : Words \union {Empty, Absent}]
        \union [option : {None}, value : Words]

(* The text of an argument that is taken as a value.                       *)
AsWord(argument) == IF argument.option = None THEN argument.value ELSE Text

(* The lambda parse_value: a bare "--option" is Absent, like any other     *)
(* argument.                                                               *)
parse_value(argument, name) == IF argument.option = name THEN argument.value ELSE Absent

Ulong_Signed(number) == number

(* std::stoul: a negative number wraps around.                             *)
Ulong(number) == number % UlongSize

-----------------------------------------------------------------------------
(* The loop over argv.  `expects' is the option whose value the next       *)
(* argument is.                                                            *)

DefaultOptions(hardware) ==
    [o \in Options |-> IF o = "--port" THEN 8345 ELSE IF o = "--workers" THEN hardware ELSE None]

Start(hardware) ==
    [opts |-> DefaultOptions(hardware), expects |-> None, verdict |-> "reading"]

Refused(s) == [s EXCEPT !.verdict = "refused"]

(* The value `word' for the option `name'.                                 *)
TakeValue(s, name, word) ==
    CASE name = "--port" ->
            IF word \in Numbers /\ word > 0 /\ word <= 65535
            THEN [s EXCEPT !.opts[name] = word, !.expects = None]
            ELSE Refused(s)
      [] name = "--workers" ->
            IF word \in Numbers
            THEN [s EXCEPT !.opts[name] = IF Ulong(word) = 0 THEN @ ELSE Ulong(word),
                           !.expects = None]
            ELSE Refused(s)
      [] OTHER -> [s EXCEPT !.opts[name] = word, !.expects = None]

(* One argument, where no value is expected.                               *)
TakeArgument(s, argument) ==
    IF argument.option = None
    THEN IF argument.value = Help THEN [s EXCEPT !.verdict = "help"] ELSE Refused(s)
    ELSE LET value == parse_value(argument, argument.option) IN
         CASE value = Absent -> Refused(s)
           [] value = Empty -> [s EXCEPT !.expects = argument.option]
           [] OTHER -> TakeValue(s, argument.option, value)

Take(s, argument) ==
    CASE s.verdict # "reading" -> s
      [] s.verdict = "reading" /\ s.expects # None ->
            TakeValue(s, s.expects, AsWord(argument))
      [] OTHER -> TakeArgument(s, argument)

parse_args(argv, hardware) ==
    LET s == FoldLeft(Take, Start(hardware), argv) IN
    IF s.verdict = "reading" /\ s.expects # None THEN Refused(s) ELSE s

=============================================================================
