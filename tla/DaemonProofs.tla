---------------------------- MODULE DaemonProofs ----------------------------
(* Proofs about Daemon for any set of numbers on the command line, any     *)
(* number of arguments and contexts, and any numbers of hardware threads.  *)
EXTENDS Daemon, WellFoundedInduction, TLAPS

-----------------------------------------------------------------------------
(* The inductive invariant of the order of destruction                     *)

(* Nothing has happened yet on the server's thread.                        *)
BeginInv ==
    main \in {"parse", "directories", "start"} => thread = "none" /\ destroyed = {}

(* Handlers run only while the thread runs crow's server.                  *)
RequestInv == request => thread \in {"serve", "drain"}

(* Destruction comes after the join.                                       *)
JoinedInv ==
    /\ main \in {"destroy", "shutdown"} => thread = "ended"
    /\ destroyed # {} => thread = "ended" /\ main \in {"destroy", "shutdown"} \union Over

(* The service goes last, by which time main has exited.                   *)
ServiceInv == "svc_" \in destroyed => ~job /\ main \in Over

LifeInv == BeginInv /\ RequestInv /\ JoinedInv /\ ServiceInv

-----------------------------------------------------------------------------

(* The invariant holds at first and after every step: main moves on to     *)
(* destroy only from the join, where the thread has ended, and nothing     *)
(* makes a thread that has ended run again.                                *)
LEMMA LifeBegins == Init => LifeInv
BY DEF Init, LifeInv, BeginInv, RequestInv, JoinedInv, ServiceInv

(* A step of main destroys nothing before its thread is joined.            *)
LEMMA MainKeepsLife ==
    ASSUME LifeInv, MainStep \/ Signal
    PROVE  LifeInv'
<1> USE DEF LifeInv, BeginInv, RequestInv, JoinedInv, ServiceInv, Over, GoMain
<1>1. CASE ParseArgs
  BY <1>1 DEF ParseArgs, work
<1>2. CASE EnsureDirs
  BY <1>2 DEF EnsureDirs, work
<1>3. CASE StartServer
  BY <1>3 DEF StartServer, work
<1>4. CASE InstallHandlers \/ SeeSignal
  BY <1>4 DEF InstallHandlers, SeeSignal, work
<1>5. CASE StopServer
  BY <1>5 DEF StopServer, StopTarget, work
<1>6. CASE RaiseShuttingDown \/ CloseAcceptor \/ StopPool \/ StopIo
  BY <1>6 DEF RaiseShuttingDown, CloseAcceptor, StopPool, StopIo, work
<1>7. CASE JoinThread
  BY <1>7 DEF JoinThread, Joinable, work
<1>8. CASE DestroyMember
  BY <1>8 DEF DestroyMember, DestroyedNext, work
<1>9. CASE DestroyService
  BY <1>9 DEF DestroyService, work
<1>10. CASE Signal
  BY <1>10 DEF Signal, Alive, work
<1> QED
  BY <1>1, <1>2, <1>3, <1>4, <1>5, <1>6, <1>7, <1>8, <1>9, <1>10 DEF MainStep

(* A step of the server's thread: it ends when no handler is running.      *)
LEMMA ThreadKeepsLife ==
    ASSUME LifeInv, ThreadStep
    PROVE  LifeInv'
<1> USE DEF LifeInv, BeginInv, RequestInv, JoinedInv, ServiceInv, Over, Alive, GoThread, work
<1>1. CASE CreateService
  BY <1>1 DEF ThreadStep, CreateService
<1>2. CASE ReadAddress \/ Accept \/ LeaveIo
  BY <1>2 DEF ThreadStep, ReadAddress, Accept, LeaveIo
<1>3. CASE Bind \/ FillPool
  BY <1>3 DEF ThreadStep, Bind, FillPool
<1>4. CASE ReadPort
  BY <1>4 DEF ThreadStep, ReadPort
<1>5. CASE EndThread
  BY <1>5 DEF ThreadStep, EndThread, Drained
<1> QED
  BY <1>1, <1>2, <1>3, <1>4, <1>5 DEF ThreadStep

(* A handler begins only while the thread serves, and a job is submitted   *)
(* only while a handler runs.                                              *)
LEMMA WorkKeepsLife ==
    ASSUME LifeInv, BeginRequest \/ EndRequest \/ EndJob
    PROVE  LifeInv'
<1> USE DEF LifeInv, BeginInv, RequestInv, JoinedInv, ServiceInv, Over, Alive
<1>1. CASE BeginRequest
  BY <1>1 DEF BeginRequest
<1>2. CASE EndRequest
  BY <1>2 DEF EndRequest
<1>3. CASE EndJob
  BY <1>3 DEF EndJob
<1> QED
  BY <1>1, <1>2, <1>3

(* Every step.                                                             *)
LEMMA LifeStays ==
    ASSUME LifeInv, [Next]_vars
    PROVE  LifeInv'
<1>1. CASE vars' = vars
  BY <1>1 DEF LifeInv, BeginInv, RequestInv, JoinedInv, ServiceInv, vars, work
<1> QED
  BY <1>1, MainKeepsLife, ThreadKeepsLife, WorkKeepsLife DEF Next

(* The invariant is what MembersOutliveUsers says, and more.               *)
LEMMA LifeGivesOrder ==
    ASSUME LifeInv
    PROVE  MembersOutliveUsers
BY DEF LifeInv, RequestInv, JoinedInv, ServiceInv, MembersOutliveUsers

(* Whatever the command line, the signals and the requests: the members of *)
(* the server are destroyed after its thread and its handlers are done,    *)
(* and the service after its jobs.                                         *)
THEOREM MembersOutliveUsersCorrect == Spec => []MembersOutliveUsers
<1>1. Init => LifeInv
  BY LifeBegins
<1>2. LifeInv /\ [Next]_vars => LifeInv'
  BY LifeStays
<1>3. LifeInv => MembersOutliveUsers
  BY LifeGivesOrder
<1> QED
  BY <1>1, <1>2, <1>3, PTL DEF Spec

-----------------------------------------------------------------------------
(* The command line                                                        *)

(* Induction, in the form in which it needs no operator parameter: by the  *)
(* least number that is missing.                                           *)
LEMMA InductionInSets ==
    ASSUME NEW T \in SUBSET Nat, 0 \in T, \A k \in T : k + 1 \in T
    PROVE  T = Nat
<1>1. SUFFICES ASSUME Nat \ T # {} PROVE FALSE
  OBVIOUS
<1>2. IsWellFoundedOn(OpToRel(<, Nat), Nat)
  BY NatLessThanWellFounded
<1>3. PICK x \in Nat \ T : \A y \in Nat \ T : ~(<<y, x>> \in OpToRel(<, Nat))
  BY <1>1, <1>2, WFMin
<1>4. \A y \in Nat \ T : ~(y < x)
  BY <1>3 DEF OpToRel
<1>5. x # 0
  BY <1>3
<1>6. x - 1 \in Nat /\ x - 1 < x /\ (x - 1) + 1 = x
  BY <1>5
<1>7. x - 1 \notin T
  BY <1>6
<1> QED
  BY <1>4, <1>6, <1>7

(* g is the loop over argv, by the sets of positions it has been through:  *)
(* what FoldLeft is the value of.                                          *)
Folded(args, h, D, g) ==
    g = [s \in SUBSET D |->
            IF s = {} THEN Start(h) ELSE Take(g[s \ {Max(s)}], args[Max(s)])]

(* FoldLeft is such a g, at all positions.                                 *)
LEMMA FoldIs ==
    ASSUME NEW args, NEW h
    PROVE  FoldLeft(Take, Start(h), args) =
             (CHOOSE g : Folded(args, h, DOMAIN args, g))[DOMAIN args]
BY DEF FoldLeft, MapThenFoldSet, Folded

(* The last position of a set of positions.                                *)
LEMMA MaxIs ==
    ASSUME NEW k \in Nat, NEW s \in SUBSET (1 .. k + 1), k + 1 \in s
    PROVE  Max(s) = k + 1
<1>1. \A y \in s : k + 1 >= y
  OBVIOUS
<1>2. \A x \in s : (\A y \in s : x >= y) => x = k + 1
  OBVIOUS
<1> QED
  BY <1>1, <1>2 DEF Max

(* There is such a g for any number of arguments.                          *)
LEMMA FoldExists ==
    ASSUME NEW args, NEW h, NEW n \in Nat
    PROVE  \E g : Folded(args, h, 1 .. n, g)
<1> DEFINE T == {k \in Nat : \E g : Folded(args, h, 1 .. k, g)}
<1>1. 0 \in T
  <2> DEFINE g == [s \in SUBSET (1 .. 0) |-> Start(h)]
  <2>1. \A s \in SUBSET (1 .. 0) : s = {}
    OBVIOUS
  <2>2. Folded(args, h, 1 .. 0, g)
    BY <2>1 DEF Folded
  <2> QED
    BY <2>2
<1>2. ASSUME NEW k \in T
      PROVE  k + 1 \in T
  <2>1. PICK f : Folded(args, h, 1 .. k, f)
    OBVIOUS
  <2> DEFINE g == [s \in SUBSET (1 .. k + 1) |->
                     IF k + 1 \in s THEN Take(f[s \ {k + 1}], args[k + 1]) ELSE f[s]]
  <2>2. ASSUME NEW s \in SUBSET (1 .. k + 1)
        PROVE  g[s] = IF s = {} THEN Start(h) ELSE Take(g[s \ {Max(s)}], args[Max(s)])
    <3>1. CASE k + 1 \in s
      <4>1. Max(s) = k + 1
        BY <3>1, MaxIs
      <4>2. s \ {k + 1} \in SUBSET (1 .. k + 1) /\ k + 1 \notin s \ {k + 1}
        OBVIOUS
      <4>3. g[s \ {k + 1}] = f[s \ {k + 1}]
        BY <4>2
      <4> QED
        BY <3>1, <4>1, <4>3
    <3>2. CASE k + 1 \notin s
      <4>1. s \in SUBSET (1 .. k) /\ s \ {Max(s)} \in SUBSET (1 .. k)
        <5>1. \A x \in s : x \in 1 .. k
          BY <3>2
        <5> QED
          BY <5>1
      <4>2. k + 1 \notin s \ {Max(s)} /\ s \ {Max(s)} \in SUBSET (1 .. k + 1)
        BY <3>2
      <4>3. g[s] = f[s] /\ g[s \ {Max(s)}] = f[s \ {Max(s)}]
        BY <3>2, <4>2
      <4>4. f[s] = IF s = {} THEN Start(h) ELSE Take(f[s \ {Max(s)}], args[Max(s)])
        BY <2>1, <4>1 DEF Folded
      <4> QED
        BY <4>3, <4>4
    <3> QED
      BY <3>1, <3>2
  <2>3. Folded(args, h, 1 .. k + 1, g)
    BY <2>2 DEF Folded
  <2> QED
    BY <2>3
<1>3. T = Nat
  <2> HIDE DEF T
  <2>1. T \in SUBSET Nat
    BY DEF T
  <2> QED
    BY <1>1, <1>2, <2>1, InductionInSets
<1> QED
  BY <1>3

-----------------------------------------------------------------------------
(* The values an option may have.                                          *)
Values == Words \union {None} \union Nat

(* The states of the loop: --workers is a number and never negative.       *)
ReadStates ==
    {s \in [opts : [Options -> Values], expects : Options \union {None},
            verdict : {"reading", "refused", "help"}] : s.opts["--workers"] \in Nat}

(* The loop begins in one: --workers is what hardware_concurrency says.    *)
LEMMA StartReads ==
    ASSUME NEW h \in Nat
    PROVE  Start(h) \in ReadStates
BY DEF Start, DefaultOptions, ReadStates, Values, Options

(* std::stoul returns no negative number.                                  *)
LEMMA UlongIsNat ==
    ASSUME NEW n \in Numbers
    PROVE  Ulong(n) \in Nat
BY CommandLineAssumption DEF Ulong

(* The value of an option is stored where it belongs, or refused.          *)
LEMMA ValueReads ==
    ASSUME NEW s \in ReadStates, NEW name \in Options, NEW word \in Words
    PROVE  TakeValue(s, name, word) \in ReadStates
<1>1. Refused(s) \in ReadStates
  BY DEF Refused, ReadStates
<1>2. ASSUME NEW v \in Values, name = "--workers" => v \in Nat
      PROVE  [s EXCEPT !.opts[name] = v, !.expects = None] \in ReadStates
  <2> DEFINE Records == [opts : [Options -> Values], expects : Options \union {None},
                         verdict : {"reading", "refused", "help"}]
             opts == [s.opts EXCEPT ![name] = v]
             q == [s EXCEPT !.opts = opts]
             r == [s EXCEPT !.opts[name] = v, !.expects = None]
  <2>1. s \in Records
    BY DEF ReadStates
  <2>2. opts \in [Options -> Values]
    BY <2>1
  <2>3. q \in Records /\ q.opts = opts
    <3> HIDE DEF opts
    <3> QED
      BY <2>1, <2>2
  <2>4. r = [q EXCEPT !.expects = None]
    OBVIOUS
  <2>5. r \in Records /\ r.opts = opts
    <3> HIDE DEF q, r, opts
    <3> QED
      BY <2>3, <2>4
  <2>6. "--workers" \in Options
    BY DEF Options
  <2>7. opts["--workers"] \in Nat
    BY <1>2, <2>1, <2>6 DEF ReadStates
  <2>8. r \in ReadStates
    <3> HIDE DEF r, opts
    <3> QED
      BY <2>5, <2>7 DEF ReadStates
  <2> QED
    BY <2>8
<1>3. CASE name = "--port"
  <2>1. CASE word \in Numbers /\ word > 0 /\ word <= 65535
    <3>1. TakeValue(s, name, word) = [s EXCEPT !.opts[name] = word, !.expects = None]
      BY <1>3, <2>1 DEF TakeValue
    <3> QED
      BY <1>2, <1>3, <3>1 DEF Values
  <2>2. CASE ~(word \in Numbers /\ word > 0 /\ word <= 65535)
    <3>1. TakeValue(s, name, word) = Refused(s)
      BY <1>3, <2>2 DEF TakeValue
    <3> QED
      BY <1>1, <3>1
  <2> QED
    BY <2>1, <2>2
<1>4. CASE name = "--workers"
  <2>1. CASE word \in Numbers
    <3> DEFINE v == IF Ulong(word) = 0 THEN s.opts[name] ELSE Ulong(word)
    <3>1. TakeValue(s, name, word) = [s EXCEPT !.opts[name] = v, !.expects = None]
      BY <1>4, <2>1 DEF TakeValue
    <3>2. v \in Nat
      BY <1>4, <2>1, UlongIsNat DEF ReadStates
    <3> QED
      BY <1>2, <3>1, <3>2 DEF Values
  <2>2. CASE word \notin Numbers
    <3>1. TakeValue(s, name, word) = Refused(s)
      BY <1>4, <2>2 DEF TakeValue
    <3> QED
      BY <1>1, <3>1
  <2> QED
    BY <2>1, <2>2
<1>5. CASE name \notin {"--port", "--workers"}
  <2>1. TakeValue(s, name, word) = [s EXCEPT !.opts[name] = word, !.expects = None]
    BY <1>5 DEF TakeValue
  <2> QED
    BY <1>2, <1>5, <2>1 DEF Values
<1> QED
  BY <1>3, <1>4, <1>5

(* An argument where no value is expected.                                 *)
LEMMA ArgumentReads ==
    ASSUME NEW s \in ReadStates, NEW a \in Arguments
    PROVE  TakeArgument(s, a) \in ReadStates
<1>1. Refused(s) \in ReadStates /\ [s EXCEPT !.verdict = "help"] \in ReadStates
  BY DEF Refused, ReadStates
<1>2. CASE a.option = None
  BY <1>1, <1>2 DEF TakeArgument
<1>3. CASE a.option # None
  <2>1. a.option \in Options /\ a.value \in Words \union {Empty, Absent}
    BY <1>3 DEF Arguments
  <2>2. CASE a.value = Absent
    <3>1. TakeArgument(s, a) = Refused(s)
      BY <1>3, <2>2, CommandLineAssumption DEF TakeArgument, parse_value
    <3> QED
      BY <1>1, <3>1
  <2>3. CASE a.value # Absent /\ a.value = Empty
    <3>1. TakeArgument(s, a) = [s EXCEPT !.expects = a.option]
      BY <1>3, <2>3 DEF TakeArgument, parse_value
    <3> QED
      BY <2>1, <3>1 DEF ReadStates
  <2>4. CASE a.value \notin {Absent, Empty}
    <3>1. TakeArgument(s, a) = TakeValue(s, a.option, a.value)
      BY <1>3, <2>4 DEF TakeArgument, parse_value
    <3> QED
      BY <2>1, <2>4, <3>1, ValueReads
  <2> QED
    BY <2>2, <2>3, <2>4
<1> QED
  BY <1>2, <1>3

(* Any argument.                                                           *)
LEMMA TakeReads ==
    ASSUME NEW s \in ReadStates, NEW a \in Arguments
    PROVE  Take(s, a) \in ReadStates
<1>1. CASE s.verdict # "reading"
  BY <1>1 DEF Take
<1>2. CASE s.verdict = "reading" /\ s.expects # None
  <2>1. Take(s, a) = TakeValue(s, s.expects, AsWord(a))
    BY <1>2 DEF Take
  <2>2. s.expects \in Options
    BY <1>2 DEF ReadStates
  <2>3. AsWord(a) \in Words
    BY CommandLineAssumption DEF AsWord, Arguments, Words
  <2> QED
    BY <2>1, <2>2, <2>3, ValueReads
<1>3. CASE s.verdict = "reading" /\ s.expects = None
  <2>1. Take(s, a) = TakeArgument(s, a)
    BY <1>3 DEF Take
  <2> QED
    BY <2>1, ArgumentReads
<1> QED
  BY <1>1, <1>2, <1>3

(* So is the end of the loop, by induction on the number of arguments.     *)
LEMMA FoldReads ==
    ASSUME NEW n \in Nat, NEW args \in [1 .. n -> Arguments], NEW h \in Nat,
           NEW g, Folded(args, h, 1 .. n, g)
    PROVE  g[1 .. n] \in ReadStates
<1> DEFINE T == {k \in Nat : \A s \in SUBSET (1 .. n) : s \subseteq 1 .. k => g[s] \in ReadStates}
<1>1. \A s \in SUBSET (1 .. n) :
        g[s] = IF s = {} THEN Start(h) ELSE Take(g[s \ {Max(s)}], args[Max(s)])
  BY DEF Folded
<1>2. 0 \in T
  <2>1. \A s \in SUBSET (1 .. n) : s \subseteq 1 .. 0 => s = {}
    OBVIOUS
  <2> QED
    BY <1>1, <2>1, StartReads
<1>3. ASSUME NEW k \in T
      PROVE  k + 1 \in T
  <2>1. SUFFICES ASSUME NEW s \in SUBSET (1 .. n), s \subseteq 1 .. k + 1
                 PROVE  g[s] \in ReadStates
    OBVIOUS
  <2>2. CASE k + 1 \notin s
    <3>1. s \subseteq 1 .. k
      BY <2>1, <2>2
    <3> QED
      BY <3>1
  <2>3. CASE k + 1 \in s
    <3>1. Max(s) = k + 1
      BY <2>1, <2>3, MaxIs
    <3>2. g[s] = Take(g[s \ {k + 1}], args[k + 1])
      BY <1>1, <2>3, <3>1
    <3>3. s \ {k + 1} \in SUBSET (1 .. n) /\ s \ {k + 1} \subseteq 1 .. k
      BY <2>1
    <3>4. g[s \ {k + 1}] \in ReadStates
      BY <3>3
    <3>5. args[k + 1] \in Arguments
      BY <2>3
    <3> QED
      BY <3>2, <3>4, <3>5, TakeReads
  <2> QED
    BY <2>2, <2>3
<1>4. T = Nat
  <2> HIDE DEF T
  <2>1. T \in SUBSET Nat
    BY DEF T
  <2> QED
    BY <1>2, <1>3, <2>1, InductionInSets
<1>5. n \in T
  BY <1>4
<1> QED
  BY <1>5

(* Whatever the command line, --workers is a number that is not negative.  *)
LEMMA ParsedIsNumber ==
    ASSUME NEW args \in BoundedSeq(Arguments, MaxArguments), NEW h \in HardwareThreads
    PROVE  parse_args(args, h).opts["--workers"] \in Nat
<1>1. h \in Nat
  BY DaemonAssumption
<1>2. PICK n \in Nat : args \in [1 .. n -> Arguments]
  BY DaemonAssumption DEF BoundedSeq, SeqOf
<1> DEFINE g == CHOOSE f : Folded(args, h, 1 .. n, f)
           s == FoldLeft(Take, Start(h), args)
<1>3. Folded(args, h, 1 .. n, g)
  BY <1>2, FoldExists
<1>4. g[1 .. n] \in ReadStates
  BY <1>1, <1>2, <1>3, FoldReads
<1>5. s = g[1 .. n]
  BY <1>2, FoldIs
<1>6. s \in ReadStates
  BY <1>4, <1>5
<1>7. parse_args(args, h) \in {s, Refused(s)}
  BY DEF parse_args
<1>8. \A r \in ReadStates : r.opts["--workers"] \in Nat /\ Refused(r).opts["--workers"] \in Nat
  BY DEF ReadStates, Refused
<1> QED
  BY <1>6, <1>7, <1>8

-----------------------------------------------------------------------------
(* Types, in groups of the variables that change together                  *)

ArgumentsOK ==
    /\ argv \in BoundedSeq(Arguments, MaxArguments)
    /\ hardware \in HardwareThreads /\ workers \in Nat

CountersOK ==
    /\ main \in {"parse", "directories", "start", "install", "wait", "stop", "app_stop",
                 "close", "stop_pool", "stop_io", "join", "destroy", "shutdown"} \union Over
    /\ thread \in {"none", "create", "address", "bind", "fill", "port", "accept", "serve",
                   "drain", "ended"}

FlagsOK ==
    /\ signalled \in BOOLEAN /\ running \in BOOLEAN /\ server \in BOOLEAN
    /\ listening \in BOOLEAN /\ shutting_down \in BOOLEAN /\ io_stopped \in BOOLEAN
    /\ svc \in BOOLEAN /\ request \in BOOLEAN /\ job \in BOOLEAN

(* The pool of contexts is made by FillPool alone.                         *)
ContextsOK ==
    /\ created \in 0 .. Contexts /\ stopped \subseteq 1 .. created
    /\ thread \in {"none", "create", "address", "bind"} => created = 0
    /\ thread = "fill" => created < Contexts

SizesOK == pool_workers \in Nat /\ destroyed \subseteq Members

TypesInv == ArgumentsOK /\ CountersOK /\ FlagsOK /\ ContextsOK /\ SizesOK /\ LifeInv

(* The groups together are the type invariant.                             *)
LEMMA TypesGiveTypeOK ==
    ASSUME TypesInv
    PROVE  TypeOK
<1>1. ArgumentsOK /\ CountersOK /\ FlagsOK /\ ContextsOK /\ SizesOK
  BY DEF TypesInv
<1> QED
  BY <1>1, Zenon DEF ArgumentsOK, CountersOK, FlagsOK, ContextsOK, SizesOK, TypeOK

(* They hold at first.                                                     *)
LEMMA TypesBegin == Init => TypesInv
<1> SUFFICES ASSUME Init PROVE TypesInv
  OBVIOUS
<1>1. ArgumentsOK /\ CountersOK /\ SizesOK
  BY DEF Init, ArgumentsOK, CountersOK, SizesOK
<1>2. ContextsOK
  BY DaemonAssumption DEF Init, ContextsOK
<1>3. FlagsOK
  BY Zenon DEF Init, FlagsOK
<1> QED
  BY <1>1, <1>2, <1>3, LifeBegins DEF TypesInv

(* Only parse_args sets the options, and ensure_dir is when the arguments  *)
(* are forgotten.                                                          *)
LEMMA ArgumentsStay ==
    ASSUME ArgumentsOK, [Next]_vars
    PROVE  ArgumentsOK'
<1>1. CASE ParseArgs
  <2> DEFINE result == parse_args(argv, hardware)
  <2>1. result.opts["--workers"] \in Nat
    BY ParsedIsNumber DEF ArgumentsOK
  <2>2. workers' = result.opts["--workers"]
    BY <1>1 DEF ParseArgs
  <2>3. UNCHANGED <<argv, hardware>>
    BY <1>1 DEF ParseArgs
  <2> HIDE DEF result
  <2> QED
    BY <2>1, <2>2, <2>3 DEF ArgumentsOK
<1>2. CASE EnsureDirs
  <2>1. <<>> \in BoundedSeq(Arguments, MaxArguments)
    BY DaemonAssumption DEF BoundedSeq, SeqOf
  <2>2. argv' = <<>> /\ UNCHANGED <<hardware, workers>>
    BY <1>2 DEF EnsureDirs
  <2> QED
    BY <2>1, <2>2 DEF ArgumentsOK
<1>3. CASE ~ParseArgs /\ ~EnsureDirs
  <2>1. UNCHANGED <<argv, hardware, workers>>
    BY <1>3 DEF Next, MainStep, ThreadStep, StartServer, InstallHandlers, Signal,
       SeeSignal, StopServer, RaiseShuttingDown, CloseAcceptor, StopPool, StopIo, JoinThread,
       DestroyMember, DestroyService, CreateService, ReadAddress, Bind, FillPool, ReadPort,
       Accept, LeaveIo, EndThread, BeginRequest, EndRequest, EndJob, vars, arguments
  <2> QED
    BY <2>1 DEF ArgumentsOK
<1> QED
  BY <1>1, <1>2, <1>3

(* The program counters stay within their values.                          *)
LEMMA CountersStay ==
    ASSUME CountersOK, [Next]_vars
    PROVE  CountersOK'
<1> USE DEF CountersOK, GoMain, GoThread, Over
<1>1. CASE MainStep \/ Signal
  <2>1. CASE ParseArgs
    <3>1. main' \in {"failed", "exited", "directories"} /\ UNCHANGED thread
      BY <2>1 DEF ParseArgs
    <3> QED
      BY <3>1
  <2>2. CASE ~ParseArgs
    BY <1>1, <2>2 DEF MainStep, EnsureDirs, StartServer, InstallHandlers, Signal, SeeSignal,
       StopServer, StopTarget, RaiseShuttingDown, CloseAcceptor, StopPool, StopIo, JoinThread,
       DestroyMember, DestroyService
  <2> QED
    BY <2>1, <2>2
<1>2. CASE ThreadStep
  BY <1>2 DEF ThreadStep, CreateService, ReadAddress, Bind, FillPool, ReadPort, Accept, LeaveIo,
     EndThread
<1>3. CASE BeginRequest \/ EndRequest \/ EndJob \/ vars' = vars
  BY <1>3 DEF BeginRequest, EndRequest, EndJob, vars
<1> QED
  BY <1>1, <1>2, <1>3 DEF Next

(* So do the flags.                                                        *)
LEMMA FlagsStay ==
    ASSUME FlagsOK, [Next]_vars
    PROVE  FlagsOK'
<1> USE DEF FlagsOK, crow, work
<1>1. CASE MainStep \/ Signal
  <2>1. CASE ParseArgs \/ EnsureDirs \/ InstallHandlers \/ SeeSignal \/ JoinThread
    BY <2>1, Zenon DEF ParseArgs, EnsureDirs, InstallHandlers, SeeSignal, JoinThread
  <2>2. CASE StartServer \/ StopServer
    BY <2>2, Zenon DEF StartServer, StopServer
  <2>3. CASE RaiseShuttingDown \/ CloseAcceptor \/ StopPool \/ StopIo
    BY <2>3, Zenon DEF RaiseShuttingDown, CloseAcceptor, StopPool, StopIo
  <2>4. CASE DestroyMember \/ DestroyService
    BY <2>4, Zenon DEF DestroyMember, DestroyService
  <2>5. CASE Signal
    <3>1. signalled' \in BOOLEAN
      BY <2>5, Zenon DEF Signal
    <3> QED
      BY <2>5, <3>1, Zenon DEF Signal
  <2> QED
    BY <1>1, <2>1, <2>2, <2>3, <2>4, <2>5 DEF MainStep
<1>2. CASE CreateService
  <2>1. svc' \in BOOLEAN
    <3>1. PICK outcome \in create(compute_worker_count(workers)) : svc' = outcome.svc
      BY <1>2 DEF CreateService
    <3>2. outcome.svc = FALSE \/ outcome.svc = TRUE
      BY DEF create
    <3> QED
      BY <3>1, <3>2, Zenon
  <2> QED
    BY <1>2, <2>1, Zenon DEF CreateService
<1>3. CASE ThreadStep /\ ~CreateService
  BY <1>3, Zenon DEF ThreadStep, ReadAddress, Bind, FillPool, ReadPort, Accept, LeaveIo, EndThread
<1>4. CASE BeginRequest \/ EndJob \/ vars' = vars
  BY <1>4, Zenon DEF BeginRequest, EndJob, vars
<1>5. CASE EndRequest
  BY <1>5, Zenon DEF EndRequest
<1> QED
  BY <1>1, <1>2, <1>3, <1>4, <1>5 DEF Next

(* The stopped contexts are some of those there are, and no more are made  *)
(* than crow asks for.                                                     *)
LEMMA ContextsStay ==
    ASSUME ContextsOK, BeginInv, [Next]_vars
    PROVE  ContextsOK'
<1> USE DEF ContextsOK, GoThread, GoMain, crow
<1>1. CASE StartServer
  BY <1>1 DEF StartServer, BeginInv
<1>2. CASE StopPool
  BY <1>2 DEF StopPool, StoppedContexts
<1>3. CASE FillPool
  <2>1. created + 1 \in 0 .. Contexts /\ stopped \subseteq 1 .. created + 1
    BY <1>3, DaemonAssumption DEF FillPool
  <2> QED
    BY <1>3, <2>1, DaemonAssumption DEF FillPool
<1>4. CASE Bind
  BY <1>4, DaemonAssumption DEF Bind
<1>5. CASE ThreadStep /\ ~FillPool /\ ~Bind
  BY <1>5 DEF ThreadStep, CreateService, ReadAddress, ReadPort, Accept, LeaveIo, EndThread
<1>6. CASE (MainStep \/ Signal) /\ ~StartServer /\ ~StopPool
  <2>1. UNCHANGED <<thread, created, stopped>>
    BY <1>6 DEF MainStep, ParseArgs, EnsureDirs, InstallHandlers, Signal, SeeSignal, StopServer,
       RaiseShuttingDown, CloseAcceptor, StopIo, JoinThread, DestroyMember, DestroyService
  <2> QED
    BY <2>1
<1>7. CASE BeginRequest \/ EndRequest \/ EndJob \/ vars' = vars
  <2>1. UNCHANGED <<thread, created, stopped>>
    BY <1>7 DEF BeginRequest, EndRequest, EndJob, vars
  <2> QED
    BY <2>1
<1> QED
  BY <1>1, <1>2, <1>3, <1>4, <1>5, <1>6, <1>7 DEF Next

(* compute_worker_count gives a pool at least one worker, and no more than *)
(* the machine has threads.                                                *)
LEMMA CountInRange ==
    ASSUME NEW desired \in Nat, hardware \in Nat
    PROVE  /\ compute_worker_count(desired) \in Nat
           /\ compute_worker_count(desired) \in 1 .. AtLeastOne(hardware)
BY DEF compute_worker_count, Clamp, AtLeastOne

(* What a step does to the service and its pool.                           *)
LEMMA ServiceStep ==
    ASSUME ArgumentsOK, [Next]_vars
    PROVE  /\ hardware' = hardware
           /\ \/ UNCHANGED <<svc, pool_workers>>
              \/ svc' = FALSE /\ pool_workers' = 0
              \/ pool_workers' \in Nat /\ pool_workers' \in 1 .. AtLeastOne(hardware)
<1>1. hardware' = hardware
  BY DEF Next, MainStep, ThreadStep, ParseArgs, EnsureDirs, StartServer, InstallHandlers, Signal,
     SeeSignal, StopServer, RaiseShuttingDown, CloseAcceptor, StopPool, StopIo, JoinThread,
     DestroyMember, DestroyService, CreateService, ReadAddress, Bind, FillPool, ReadPort, Accept,
     LeaveIo, EndThread, BeginRequest, EndRequest, EndJob, vars, arguments
<1>2. CASE CreateService
  <2> DEFINE count == compute_worker_count(workers)
  <2>1. count \in Nat /\ count \in 1 .. AtLeastOne(hardware)
    BY CountInRange, DaemonAssumption DEF ArgumentsOK
  <2>2. \/ svc' = FALSE /\ pool_workers' = 0
        \/ pool_workers' = count
    BY <1>2 DEF CreateService, create
  <2> HIDE DEF count
  <2> QED
    BY <1>1, <2>1, <2>2
<1>3. CASE ~CreateService
  <2>1. UNCHANGED <<svc, pool_workers>>
    BY <1>3 DEF Next, MainStep, ThreadStep, ParseArgs, EnsureDirs, StartServer, InstallHandlers,
       Signal, SeeSignal, StopServer, RaiseShuttingDown, CloseAcceptor, StopPool, StopIo,
       JoinThread, DestroyMember, DestroyService, ReadAddress, Bind, FillPool, ReadPort, Accept,
       LeaveIo, EndThread, BeginRequest, EndRequest, EndJob, vars
  <2> QED
    BY <1>1, <2>1
<1> QED
  BY <1>2, <1>3

(* The pool's size is a number, and only members are destroyed.            *)
LEMMA SizesStay ==
    ASSUME ArgumentsOK, SizesOK, [Next]_vars
    PROVE  SizesOK'
<1>1. pool_workers' \in Nat
  <2>1. 0 \in Nat
    OBVIOUS
  <2> QED
    BY <2>1, ServiceStep, Zenon DEF SizesOK
<1>2. destroyed' \subseteq Members
  <2>1. CASE DestroyMember \/ DestroyService
    BY <2>1 DEF DestroyMember, DestroyedNext, DestroyService, Members, SizesOK
  <2>2. CASE ~DestroyMember /\ ~DestroyService
    <3>1. UNCHANGED destroyed
      BY <2>2 DEF Next, MainStep, ThreadStep, ParseArgs, EnsureDirs, StartServer,
         InstallHandlers, Signal, SeeSignal, StopServer, RaiseShuttingDown, CloseAcceptor,
         StopPool, StopIo, JoinThread, CreateService, ReadAddress, Bind, FillPool, ReadPort,
         Accept, LeaveIo, EndThread, BeginRequest, EndRequest, EndJob, vars
    <3> QED
      BY <3>1 DEF SizesOK
  <2> QED
    BY <2>1, <2>2
<1> QED
  BY <1>1, <1>2 DEF SizesOK

(* All groups together.                                                    *)
LEMMA TypesStay ==
    ASSUME TypesInv, [Next]_vars
    PROVE  TypesInv'
BY LifeStays, ArgumentsStay, CountersStay, FlagsStay, ContextsStay, SizesStay DEF TypesInv, LifeInv

(* A step that makes a service makes it with a number in range.            *)
LEMMA RangeStays ==
    ASSUME ArgumentsOK, WorkersInRange, [Next]_vars
    PROVE  WorkersInRange'
BY ServiceStep DEF WorkersInRange, AtLeastOne

(* Type correctness, for any command line: whatever the arguments are,     *)
(* parse_args leaves --workers a number that is not negative.              *)
THEOREM DaemonTypeCorrect == Spec => []TypeOK
<1>1. Init => TypesInv
  BY TypesBegin
<1>2. TypesInv /\ [Next]_vars => TypesInv'
  BY TypesStay
<1>3. TypesInv => TypeOK
  BY TypesGiveTypeOK
<1> QED
  BY <1>1, <1>2, <1>3, PTL DEF Spec

(* Whatever the command line and hardware_concurrency say, a service is    *)
(* created with at least one worker and no more than the machine has       *)
(* threads.                                                                *)
THEOREM WorkersInRangeCorrect == Spec => []WorkersInRange
<1>1. Init => TypesInv /\ WorkersInRange
  BY TypesBegin DEF Init, WorkersInRange
<1>2. TypesInv /\ WorkersInRange /\ [Next]_vars => TypesInv' /\ WorkersInRange'
  BY TypesStay, RangeStays DEF TypesInv
<1> QED
  BY <1>1, <1>2, PTL DEF Spec

=============================================================================
