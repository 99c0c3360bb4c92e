--------------------------- MODULE Channels_proof ----------------------------
(***************************************************************************)
(* What holds of the game console and of the script runner for every       *)
(* number of slots, lines, backoff steps and faults.  Each service is      *)
(* reasoned about over its own steps; the theorems at the end put the two  *)
(* together.                                                               *)
(***************************************************************************)
EXTENDS Channels, SequenceTheorems, TLAPS

ConsoleStep == Console!Next \/ UNCHANGED vars
ScriptsStep == Scripts!Next \/ UNCHANGED vars

(***************************************************************************)
(* push() of both services: a line more, and the history is still no       *)
(* longer than it may be.                                                  *)
(***************************************************************************)
OneMore(h, line) == IF Len(h) < HistorySize THEN Append(h, line) ELSE Append(Tail(h), line)

LEMMA PushBounded ==
    ASSUME NEW S, NEW h \in Seq(S), Len(h) <= HistorySize, NEW line \in S
    PROVE  OneMore(h, line) \in Seq(S) /\ Len(OneMore(h, line)) <= HistorySize
<1>1. CASE Len(h) < HistorySize
  <2>1. OneMore(h, line) = Append(h, line)
    BY <1>1 DEF OneMore
  <2>2. Append(h, line) \in Seq(S) /\ Len(Append(h, line)) = Len(h) + 1
    OBVIOUS
  <2> QED
    BY <1>1, <2>1, <2>2, ChannelAssumption, LenProperties DEF ChannelAssumption
<1>2. CASE ~(Len(h) < HistorySize)
  <2>1. OneMore(h, line) = Append(Tail(h), line)
    BY <1>2 DEF OneMore
  <2>2. h # <<>>
    BY <1>2, ChannelAssumption, LenProperties, EmptySeq DEF ChannelAssumption
  <2>3. Tail(h) \in Seq(S) /\ Len(Tail(h)) = Len(h) - 1
    BY <2>2, HeadTailProperties
  <2>4. Append(Tail(h), line) \in Seq(S) /\ Len(Append(Tail(h), line)) = Len(Tail(h)) + 1
    BY <2>3
  <2> QED
    BY <2>1, <2>3, <2>4, ChannelAssumption, LenProperties DEF ChannelAssumption
<1> QED
  BY <1>1, <1>2

-----------------------------------------------------------------------------
(***************************************************************************)
(* The game console: types.                                                *)
(***************************************************************************)

\* The actions of the console, by what they do to the follower.
LEMMA ConsoleSteps ==
    ASSUME ConsoleStep
    PROVE  \/ Console!TimerFires
           \/ \E f \in Slots : Console!FollowFails(f) \/ Console!Errors(f) \/ Console!Closes(f)
           \/ \E f \in Slots : Console!FollowOpens(f)
           \/ \E f \in Slots : Console!ConfirmTimer(f) \/ Console!Data(f)
           \/ \E f \in Slots : Console!Stderr(f)
           \/ Console!SendCommand \/ Console!CommandDone
           \/ Console!ContainerStarts \/ Console!ContainerStops
           \/ UNCHANGED vars
  BY DEF ConsoleStep, Console!Next

History == history \in Seq(Console!Kinds) /\ Len(history) <= HistorySize

\* Whatever happens, lines are pushed one after the other.
LEMMA ConsoleHistory ==
    ASSUME History, ConsoleStep
    PROVE  History'
<1>1. ASSUME NEW h \in Seq(Console!Kinds), Len(h) <= HistorySize,
             NEW line \in {"out", "cmd", "lost", "back"}
      PROVE  Console!Pushed(h, line) \in Seq(Console!Kinds) /\ Len(Console!Pushed(h, line)) <= HistorySize
  <2>1. line \in Console!Kinds
    BY DEF Console!Kinds
  <2> QED
    BY <1>1, <2>1, PushBounded DEF Console!Pushed, OneMore
<1>2. /\ Console!BackNotice \in Seq(Console!Kinds)
      /\ Len(Console!BackNotice) <= HistorySize
  BY <1>1 DEF Console!BackNotice, History
<1>3. CASE \E f \in Slots : Console!FollowFails(f) \/ Console!Errors(f) \/ Console!Closes(f)
  <2>1. history' \in {history, Console!Pushed(history, "lost")}
    BY <1>3 DEF Console!FollowFails, Console!Errors, Console!Closes, Console!HandleDown
  <2> QED
    BY <1>1, <2>1 DEF History
<1>4. CASE \E f \in Slots : Console!ConfirmTimer(f) \/ Console!Data(f)
  <2>1. history' \in {Console!BackNotice, Console!Pushed(history, "out"),
                      Console!Pushed(Console!BackNotice, "out")}
    BY <1>4 DEF Console!ConfirmTimer, Console!Data
  <2> QED
    BY <1>1, <1>2, <2>1 DEF History
<1>5. CASE Console!CommandDone \/ \E f \in Slots : Console!Stderr(f)
  <2>1. history' \in {history, Console!Pushed(history, "cmd"), Console!Pushed(history, "out")}
    BY <1>5 DEF Console!CommandDone, Console!Stderr
  <2> QED
    BY <1>1, <2>1 DEF History
<1>6. CASE \/ Console!TimerFires \/ Console!SendCommand \/ Console!ContainerStarts
           \/ Console!ContainerStops \/ UNCHANGED vars \/ \E f \in Slots : Console!FollowOpens(f)
  <2>1. history' = history
    BY <1>6 DEF Console!TimerFires, Console!SendCommand, Console!ContainerStarts,
                Console!ContainerStops, vars, Console!FollowOpens
  <2> QED
    BY <2>1 DEF History
<1> QED
  BY <1>3, <1>4, <1>5, <1>6, ConsoleSteps

\* What an action may do to each of the other fields.
LEMMA ConsoleEffects ==
    ASSUME ConsoleStep
    PROVE  /\ world' = world
           /\ faults' = faults \/ (faults < MaxFaults /\ faults' = faults + 1)
           /\ backoff' \in {0, backoff, Console!Grown(backoff)}
           /\ \/ run' = run
              \/ \E f \in Slots, to \in {"free", "pending", "open", "errored"} :
                   run' = [run EXCEPT ![f] = to]
           /\ \/ confirmed' = confirmed
              \/ \E f \in Slots : confirmed' \in {confirmed \union {f}, confirmed \ {f}}
           /\ following' \in {following, TRUE, FALSE} /\ failed' \in {failed, TRUE, FALSE}
           /\ timer' \in {timer, TRUE, FALSE} /\ command' \in {command, TRUE, FALSE}
           /\ container' \in {container, TRUE, FALSE}
           /\ notice' \in {notice, "lost", "back"}
<1> USE ConsoleSteps
    DEF Console!TimerFires, Console!FollowFails, Console!Errors, Console!Closes,
        Console!FollowOpens, Console!ConfirmTimer, Console!Data, Console!Stderr,
        Console!SendCommand, Console!CommandDone, Console!ContainerStarts,
        Console!ContainerStops, vars, consoleVars
<1>1. world' = world
  OBVIOUS
<1>2. faults' = faults \/ (faults < MaxFaults /\ faults' = faults + 1)
  BY DEF Console!Fault
<1>3. backoff' \in {0, backoff, Console!Grown(backoff)}
  BY DEF Console!MarkUp
<1>4. \/ run' = run
      \/ \E f \in Slots, to \in {"free", "pending", "open", "errored"} :
           run' = [run EXCEPT ![f] = to]
  OBVIOUS
<1>5. \/ confirmed' = confirmed
      \/ \E f \in Slots : confirmed' \in {confirmed \union {f}, confirmed \ {f}}
  OBVIOUS
<1>6. following' \in {following, TRUE, FALSE} /\ failed' \in {failed, TRUE, FALSE}
  BY DEF Console!HandleDown, Console!MarkUp
<1>7. /\ timer' \in {timer, TRUE, FALSE} /\ command' \in {command, TRUE, FALSE}
      /\ container' \in {container, TRUE, FALSE}
  BY DEF Console!HandleDown
<1>8. notice' \in {notice, "lost", "back"}
  BY DEF Console!HandleDown, Console!MarkUp
<1> QED
  BY <1>1, <1>2, <1>3, <1>4, <1>5, <1>6, <1>7, <1>8

LEMMA ConsoleTypeStays == Console!TypeOK /\ ConsoleStep => Console!TypeOK'
<1> SUFFICES ASSUME Console!TypeOK, ConsoleStep PROVE Console!TypeOK'
  OBVIOUS
<1>1. History'
  BY ConsoleHistory DEF Console!TypeOK, History
<1>2. faults' \in 0..MaxFaults /\ backoff' \in 0..MaxBackoff
  BY ConsoleEffects, ChannelAssumption DEF ChannelAssumption, Console!TypeOK, Console!Grown
<1>3. /\ run' \in [Slots -> {"free", "pending", "open", "errored"}]
      /\ confirmed' \subseteq Slots
  BY ConsoleEffects DEF Console!TypeOK
<1>4. /\ {following, failed, timer, command, container}' \subseteq BOOLEAN
      /\ notice' \in {"none", "lost", "back"} /\ world' \in Console!Worlds
  BY ConsoleEffects DEF Console!TypeOK, Console!Worlds
<1> QED
  BY <1>1, <1>2, <1>3, <1>4 DEF Console!TypeOK, History

LEMMA ConsoleInitType == Console!Init => Console!TypeOK
<1> SUFFICES ASSUME Console!Init PROVE Console!TypeOK
  OBVIOUS
<1>1. PICK f \in Slots : run = [g \in Slots |-> IF g = f THEN "pending" ELSE "free"]
  BY DEF Console!Init
<1>2. history \in Seq(Console!Kinds) /\ Len(history) <= HistorySize
  BY ChannelAssumption DEF Console!Init, ChannelAssumption
<1>3. {following, failed, timer, command, container} \subseteq BOOLEAN
  BY DEF Console!Init
<1>4. confirmed \subseteq Slots /\ notice \in {"none", "lost", "back"} /\ world \in Console!Worlds
  BY DEF Console!Init
<1>5. backoff \in 0..MaxBackoff /\ faults \in 0..MaxFaults
  BY ChannelAssumption DEF Console!Init, ChannelAssumption
<1>6. run \in [Slots -> {"free", "pending", "open", "errored"}]
  BY <1>1
<1> QED
  BY <1>2, <1>3, <1>4, <1>5, <1>6 DEF Console!TypeOK

-----------------------------------------------------------------------------
(***************************************************************************)
(* Notices.  A follower says that it is back when lastError is set, and    *)
(* lastError is set by whoever says that the connection is lost.           *)
(***************************************************************************)
Notices == Console!NoticesMatchStatus /\ (~failed => notice # "lost")

LEMMA NoticesStay == Notices /\ ConsoleStep => Notices'
<1> SUFFICES ASSUME Notices, ConsoleStep PROVE Notices'
  OBVIOUS
<1>1. \/ Console!HandleDown
      \/ Console!MarkUp
      \/ UNCHANGED <<following, failed, notice>>
  BY ConsoleSteps
     DEF Console!TimerFires, Console!FollowFails, Console!Errors, Console!Closes,
         Console!FollowOpens, Console!ConfirmTimer, Console!Data, Console!Stderr,
         Console!SendCommand, Console!CommandDone, Console!ContainerStarts,
         Console!ContainerStops, vars, consoleVars
<1>2. CASE Console!HandleDown
  BY <1>2 DEF Console!HandleDown, Notices, Console!NoticesMatchStatus
<1>3. CASE Console!MarkUp
  BY <1>3 DEF Console!MarkUp, Notices, Console!NoticesMatchStatus
<1>4. CASE UNCHANGED <<following, failed, notice>>
  BY <1>4 DEF Notices, Console!NoticesMatchStatus
<1> QED
  BY <1>1, <1>2, <1>3, <1>4

-----------------------------------------------------------------------------
(***************************************************************************)
(* One follower.  While 'close' comes with 'error', a channel that failed  *)
(* is gone at once: whoever calls handleDown() was the only follower, so   *)
(* arming the timer leaves the timer alone, and taking the status down     *)
(* leaves no confirmed channel behind.                                     *)
(***************************************************************************)
ConsoleSteady ==
    /\ Console!OneFollower /\ Console!StatusTruthful
    /\ \A f \in Slots : run[f] # "errored"

\* The only follower ends: the timer takes its place.
LEMMA EndKeeps ==
    ASSUME Console!TypeOK, ConsoleSteady, NEW f \in Slots, run[f] # "free",
           run' = [run EXCEPT ![f] = "free"], Console!HandleDown, UNCHANGED confirmed
    PROVE  ConsoleSteady'
<1>1. \A g \in Slots : run'[g] = "free"
  BY DEF ConsoleSteady, Console!TypeOK, Console!OneFollower
<1>2. ~following' /\ timer'
  BY DEF Console!HandleDown
<1> QED
  BY <1>1, <1>2 DEF Console!OneFollower, Console!StatusTruthful, ConsoleSteady, Console!TypeOK

LEMMA ConsoleSteadyStays ==
    ASSUME ~Console!LateClose, Console!TypeOK, ConsoleSteady, ConsoleStep
    PROVE  ConsoleSteady'
<1>0. Console!TypeOK'
  BY ConsoleTypeStays
<1>1. CASE Console!TimerFires
  <2>1. PICK f \in Slots : run[f] = "free" /\ run' = [run EXCEPT ![f] = "pending"]
    BY <1>1 DEF Console!TimerFires
  <2>2. /\ \A g \in Slots : run[g] = "free"
        /\ ~timer' /\ confirmed' = confirmed /\ following' = following
    BY <1>1 DEF Console!TimerFires, ConsoleSteady, Console!OneFollower
  <2>3. \A g \in Slots : run'[g] = IF g = f THEN "pending" ELSE "free"
    BY <2>1, <2>2 DEF Console!TypeOK
  <2>4. following' = FALSE
    BY <2>2 DEF ConsoleSteady, Console!StatusTruthful, Console!TypeOK
  <2> QED
    BY <2>2, <2>3, <2>4, <1>0
       DEF ConsoleSteady, Console!OneFollower, Console!StatusTruthful, Console!TypeOK
<1>2. CASE \E f \in Slots : Console!FollowFails(f) \/ Console!Errors(f) \/ Console!Closes(f)
  <2>1. PICK f \in Slots : /\ run[f] # "free" /\ run' = [run EXCEPT ![f] = "free"]
                           /\ Console!HandleDown /\ UNCHANGED confirmed
    BY <1>2 DEF Console!FollowFails, Console!Errors, Console!Closes
  <2> QED
    BY <2>1, EndKeeps
<1>3. CASE \E f \in Slots : Console!FollowOpens(f)
  <2>1. PICK f \in Slots : Console!FollowOpens(f)
    BY <1>3
  <2>2. /\ run[f] = "pending" /\ run' = [run EXCEPT ![f] = "open"]
        /\ confirmed' = confirmed \ {f} /\ timer' = timer /\ following' = following
    BY <2>1 DEF Console!FollowOpens
  <2>3. \A g \in Slots : /\ run[g] = IF g = f THEN "pending" ELSE "free"
                         /\ run'[g] = IF g = f THEN "open" ELSE "free"
    BY <2>2 DEF ConsoleSteady, Console!TypeOK, Console!OneFollower
  <2>4. timer' = FALSE /\ following' = FALSE
    BY <2>2, <2>3 DEF ConsoleSteady, Console!TypeOK, Console!OneFollower, Console!StatusTruthful
  <2> QED
    BY <2>2, <2>3, <2>4, <1>0
       DEF ConsoleSteady, Console!OneFollower, Console!StatusTruthful, Console!TypeOK
<1>4. CASE \E f \in Slots : Console!ConfirmTimer(f) \/ Console!Data(f)
  <2>1. PICK f \in Slots : Console!ConfirmTimer(f) \/ Console!Data(f)
    BY <1>4
  <2>2. run[f] = "open" /\ run' = run /\ timer' = timer /\ f \in confirmed'
    BY <2>1 DEF Console!ConfirmTimer, Console!Data, ConsoleSteady
  <2>3. following' = TRUE
    BY <2>1, <2>2
       DEF Console!ConfirmTimer, Console!Data, Console!MarkUp, ConsoleSteady,
           Console!StatusTruthful, Console!TypeOK
  <2> QED
    BY <2>2, <2>3 DEF ConsoleSteady, Console!OneFollower, Console!StatusTruthful
<1>5. CASE \/ Console!SendCommand \/ Console!CommandDone \/ Console!ContainerStarts
           \/ Console!ContainerStops \/ UNCHANGED vars \/ \E f \in Slots : Console!Stderr(f)
  <2>1. UNCHANGED <<run, timer, following, confirmed>>
    BY <1>5 DEF Console!SendCommand, Console!CommandDone, Console!ContainerStarts,
                Console!ContainerStops, vars, consoleVars, Console!Stderr
  <2> QED
    BY <2>1 DEF ConsoleSteady, Console!OneFollower, Console!StatusTruthful
<1> QED
  BY <1>1, <1>2, <1>3, <1>4, <1>5, ConsoleSteps

LEMMA ConsoleInitSteady == Console!Init => ConsoleSteady
<1> SUFFICES ASSUME Console!Init PROVE ConsoleSteady
  OBVIOUS
<1>1. PICK f \in Slots : run = [g \in Slots |-> IF g = f THEN "pending" ELSE "free"]
  BY DEF Console!Init
<1> QED
  BY <1>1 DEF Console!Init, ConsoleSteady, Console!OneFollower, Console!StatusTruthful

-----------------------------------------------------------------------------
(***************************************************************************)
(* The script runner.                                                      *)
(***************************************************************************)
ScriptLines == {"cmd", "ignored", "failed", "error", "exit", "out"}

\* What an action may do to each field.
LEMMA ScriptsEffects ==
    ASSUME ScriptsStep
    PROVE  /\ world' = world
           /\ faults' = faults \/ (faults < MaxFaults /\ faults' = faults + 1)
           /\ \/ history' = history
              \/ \E line \in ScriptLines : history' = OneMore(history, line)
           /\ running' \in Scripts!Scripts \union {running, None}
           /\ \/ state' = state
              \/ \E e \in Slots, to \in {"free", "pending", "open", "errored"} :
                   state' = [state EXCEPT ![e] = to]
           /\ \/ name' = name
              \/ \E e \in Slots, s \in Scripts!Scripts : name' = [name EXCEPT ![e] = s]
           /\ \/ remote' = remote
              \/ \E e \in Slots : remote' \in {remote \union {e}, remote \ {e}}
<1> USE DEF ScriptsStep, Scripts!Next, Scripts!RunIgnored, Scripts!Run, Scripts!ExecFails,
        Scripts!ExecOpens, Scripts!Output, Scripts!Exits, Scripts!Lost, Scripts!Errors,
        Scripts!ClosedLate, vars, scriptsVars
<1>1. world' = world
  OBVIOUS
<1>2. faults' = faults \/ (faults < MaxFaults /\ faults' = faults + 1)
  BY DEF Scripts!Fault
<1>3. \/ history' = history
      \/ \E line \in ScriptLines : history' = OneMore(history, line)
  BY DEF Scripts!Push, OneMore, ScriptLines
<1>4. running' \in Scripts!Scripts \union {running, None}
  BY DEF Scripts!Over
<1>5. \/ state' = state
      \/ \E e \in Slots, to \in {"free", "pending", "open", "errored"} :
           state' = [state EXCEPT ![e] = to]
  BY DEF Scripts!Becomes
<1>6. \/ name' = name
      \/ \E e \in Slots, s \in Scripts!Scripts : name' = [name EXCEPT ![e] = s]
  OBVIOUS
<1>7. \/ remote' = remote
      \/ \E e \in Slots : remote' \in {remote \union {e}, remote \ {e}}
  OBVIOUS
<1> QED
  BY <1>1, <1>2, <1>3, <1>4, <1>5, <1>6, <1>7

LEMMA ScriptsTypeStays == Scripts!TypeOK /\ ScriptsStep => Scripts!TypeOK'
<1> SUFFICES ASSUME Scripts!TypeOK, ScriptsStep PROVE Scripts!TypeOK'
  OBVIOUS
<1>1. history' \in Seq(ScriptLines) /\ Len(history') <= HistorySize
  <2>1. history \in Seq(ScriptLines) /\ Len(history) <= HistorySize
    BY DEF Scripts!TypeOK, ScriptLines
  <2> QED
    BY <2>1, ScriptsEffects, PushBounded
<1>2. faults' \in 0..MaxFaults
  BY ScriptsEffects, ChannelAssumption DEF ChannelAssumption, Scripts!TypeOK
<1>3. running' \in Scripts!Scripts \union {None} /\ world' \in Scripts!Worlds
  BY ScriptsEffects DEF Scripts!TypeOK
<1>4. /\ state' \in [Slots -> {"free", "pending", "open", "errored"}]
      /\ name' \in [Slots -> Scripts!Scripts] /\ remote' \subseteq Slots
  BY ScriptsEffects DEF Scripts!TypeOK
<1> QED
  BY <1>1, <1>2, <1>3, <1>4 DEF Scripts!TypeOK, ScriptLines

LEMMA ScriptsInitType == Scripts!Init => Scripts!TypeOK
<1> SUFFICES ASSUME Scripts!Init PROVE Scripts!TypeOK
  OBVIOUS
<1>1. history \in Seq(ScriptLines) /\ Len(history) <= HistorySize /\ faults \in 0..MaxFaults
  BY ChannelAssumption DEF Scripts!Init, ChannelAssumption
<1>2. /\ state \in [Slots -> {"free", "pending", "open", "errored"}]
      /\ name \in [Slots -> Scripts!Scripts]
  BY DEF Scripts!Init, Scripts!Scripts
<1> QED
  BY <1>1, <1>2 DEF Scripts!Init, Scripts!TypeOK, ScriptLines

(***************************************************************************)
(* One script.  While a script ends with its channel, the process on the   *)
(* server is alive exactly while its channel is open, and this.running is  *)
(* set exactly while a run is being opened or open.  So run() starts a     *)
(* script only when none is left on the server.                            *)
(***************************************************************************)
ScriptsSteady ==
    /\ \A e \in Slots : state[e] \in {"free", "pending", "open"}
    /\ \A e \in Slots : e \in remote <=> state[e] = "open"
    /\ \A d, e \in Slots : state[d] # "free" /\ state[e] # "free" => d = e
    /\ \A e \in Slots : running = None => state[e] = "free"

LEMMA ScriptsInitSteady == Scripts!Init => ScriptsSteady
  BY DEF Scripts!Init, ScriptsSteady

LEMMA ScriptsSteadyStays ==
    ASSUME ~Scripts!Detached, ~Scripts!LateClose, Scripts!TypeOK, ScriptsSteady, ScriptsStep
    PROVE  ScriptsSteady'
<1> USE DEF Scripts!TypeOK, ScriptsSteady, Scripts!Becomes, Scripts!Over
<1>1. CASE Scripts!RunIgnored
  BY <1>1 DEF Scripts!RunIgnored
<1>2. ASSUME NEW e \in Slots, NEW s \in Scripts!Scripts, Scripts!Run(e, s)
      PROVE  ScriptsSteady'
  BY <1>2, NoneAssumption DEF Scripts!Run, Scripts!NothingRuns
<1>3. ASSUME NEW e \in Slots, Scripts!ExecFails(e) \/ Scripts!Lost(e)
      PROVE  ScriptsSteady'
  BY <1>3 DEF Scripts!ExecFails, Scripts!Lost
<1>4. ASSUME NEW e \in Slots, Scripts!ExecOpens(e)
      PROVE  ScriptsSteady'
  BY <1>4 DEF Scripts!ExecOpens
<1>5. ASSUME NEW e \in Slots, Scripts!Exits(e)
      PROVE  ScriptsSteady'
  BY <1>5 DEF Scripts!Exits
<1>6. ASSUME NEW e \in Slots, Scripts!Output(e) \/ Scripts!Errors(e) \/ Scripts!ClosedLate(e)
      PROVE  ScriptsSteady'
  BY <1>6 DEF Scripts!Output, Scripts!Errors, Scripts!ClosedLate
<1>7. CASE UNCHANGED vars
  BY <1>7 DEF vars, scriptsVars
<1> QED
  BY <1>1, <1>2, <1>3, <1>4, <1>5, <1>6, <1>7 DEF ScriptsStep, Scripts!Next

-----------------------------------------------------------------------------
(***************************************************************************)
(* The services together.  A step is a step of the service the world is    *)
(* about, and the world stays what it is.                                  *)
(***************************************************************************)
AllWorlds == Console!Worlds \union Scripts!Worlds

LEMMA Disjoint == Console!Worlds \intersect Scripts!Worlds = {}
  BY DEF Console!Worlds, Scripts!Worlds

LEMMA OneService ==
    ASSUME [Next]_vars, world \in AllWorlds
    PROVE  /\ world' = world
           /\ world \in Console!Worlds => ConsoleStep
           /\ world \in Scripts!Worlds => ScriptsStep
<1>1. /\ world \in Console!Worlds => ConsoleStep
      /\ world \in Scripts!Worlds => ScriptsStep
  BY Disjoint, Zenon DEF Next, OfConsole, OfScripts, ConsoleStep, ScriptsStep
<1>2. world' = world
  BY <1>1, ConsoleEffects, ScriptsEffects DEF AllWorlds
<1> QED
  BY <1>1, <1>2

LEMMA InitKind ==
    Init => /\ world \in AllWorlds
            /\ world \in Console!Worlds => Console!Init
            /\ world \in Scripts!Worlds => Scripts!Init
<1>1. /\ Console!Init => world \in Console!Worlds
      /\ Scripts!Init => world \in Scripts!Worlds
  BY Zenon DEF Console!Init, Scripts!Init
<1> QED
  BY <1>1, Disjoint, Zenon DEF Init, AllWorlds

(***************************************************************************)
(* The fields of each service keep their types, and the history its bound, *)
(* in whatever order channels and timers act.                              *)
(***************************************************************************)
THEOREM TypeCorrect == Spec => []TypeOK
<1>1. Init => TypeOK
  BY InitKind, ConsoleInitType, ScriptsInitType DEF TypeOK, AllWorlds
<1>2. ASSUME TypeOK, [Next]_vars
      PROVE  TypeOK'
  <2>1. /\ world' = world
        /\ world \in Console!Worlds => ConsoleStep
        /\ world \in Scripts!Worlds => ScriptsStep
    BY <1>2, OneService DEF TypeOK, AllWorlds
  <2>2. world \in Console!Worlds => Console!TypeOK'
    BY <1>2, <2>1, ConsoleTypeStays DEF TypeOK
  <2>3. world \in Scripts!Worlds => Scripts!TypeOK'
    BY <1>2, <2>1, ScriptsTypeStays DEF TypeOK
  <2> QED
    BY <1>2, <2>1, <2>2, <2>3 DEF TypeOK, Console!Worlds, Scripts!Worlds
<1> QED
  BY <1>1, <1>2, PTL DEF Spec

(***************************************************************************)
(* The last notice in the log agrees with the status, even when a late     *)
(* 'close' lets two followers act on it.                                   *)
(***************************************************************************)
THEOREM NoticesRight == Spec => []NoticesMatchStatus
<1> DEFINE Inv == world \in Console!Worlds => Notices
<1>1. Init => Inv
  BY InitKind DEF Console!Init, Notices, Console!NoticesMatchStatus
<1>2. TypeOK /\ Inv /\ [Next]_vars => Inv'
  BY OneService, NoticesStay DEF TypeOK, AllWorlds, Console!Worlds
<1>3. Inv => NoticesMatchStatus
  BY DEF Notices, NoticesMatchStatus
<1> HIDE DEF Inv
<1> QED
  BY <1>1, <1>2, <1>3, TypeCorrect, PTL DEF Spec

-----------------------------------------------------------------------------
Steady ==
    /\ world = "console" => ConsoleSteady
    /\ world = "scripts" => ScriptsSteady

LEMMA InitSteady == Init => Steady
<1>1. "console" \in Console!Worlds /\ "scripts" \in Scripts!Worlds
  BY DEF Console!Worlds, Scripts!Worlds
<1> QED
  BY <1>1, InitKind, ConsoleInitSteady, ScriptsInitSteady DEF Steady

LEMMA SteadyStays == TypeOK /\ Steady /\ [Next]_vars => Steady'
<1> SUFFICES ASSUME TypeOK, Steady, [Next]_vars PROVE Steady'
  OBVIOUS
<1>1. /\ world' = world
      /\ world \in Console!Worlds => ConsoleStep /\ Console!TypeOK
      /\ world \in Scripts!Worlds => ScriptsStep /\ Scripts!TypeOK
  BY OneService DEF TypeOK, AllWorlds
<1>2. CASE world = "console"
  <2>1. world \in Console!Worlds /\ ~Console!LateClose
    BY <1>2 DEF Console!Worlds, Console!LateClose
  <2>2. ConsoleSteady'
    BY <1>1, <1>2, <2>1, ConsoleSteadyStays DEF Steady
  <2> QED
    BY <1>1, <1>2, <2>2 DEF Steady
<1>3. CASE world = "scripts"
  <2>1. world \in Scripts!Worlds /\ ~Scripts!Detached /\ ~Scripts!LateClose
    BY <1>3 DEF Scripts!Worlds, Scripts!Detached, Scripts!LateClose
  <2>2. ScriptsSteady'
    BY <1>1, <1>3, <2>1, ScriptsSteadyStays DEF Steady
  <2> QED
    BY <1>1, <1>3, <2>2 DEF Steady
<1> QED
  BY <1>1, <1>2, <1>3 DEF Steady

(***************************************************************************)
(* While 'close' comes with 'error', the console has the timer or one      *)
(* follower, never both and never neither.                                 *)
(***************************************************************************)
THEOREM Follower == Spec => []OneFollower
<1>1. Steady => OneFollower
  BY DEF Steady, ConsoleSteady, OneFollower
<1> QED
  BY <1>1, TypeCorrect, InitSteady, SteadyStays, PTL DEF Spec

(***************************************************************************)
(* In the same world the console says it is following exactly while that   *)
(* follower's channel has proven alive.                                    *)
(***************************************************************************)
THEOREM StatusRight == Spec => []StatusTruthful
<1>1. Steady => StatusTruthful
  BY DEF Steady, ConsoleSteady, StatusTruthful
<1> QED
  BY <1>1, TypeCorrect, InitSteady, SteadyStays, PTL DEF Spec

(***************************************************************************)
(* While a script ends with its channel, two never run at once on the      *)
(* server, nor is a second one on its way there.                           *)
(***************************************************************************)
THEOREM OneScript == Spec => []OneScriptAtATime
<1>1. Steady => OneScriptAtATime
  BY DEF Steady, ScriptsSteady, OneScriptAtATime, Scripts!OneScriptAtATime
<1> QED
  BY <1>1, TypeCorrect, InitSteady, SteadyStays, PTL DEF Spec
=============================================================================
