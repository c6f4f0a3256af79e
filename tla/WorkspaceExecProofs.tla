------------------------ MODULE WorkspaceExecProofs -------------------------
(***************************************************************************)
(* Machine-checked proofs about ProgramSession and WorkspaceExec, for any  *)
(* number of tool calls, any retention limit, any poll limit and any       *)
(* amount of output.  First the session alone, whoever uses it; then that  *)
(* the tools only use it in the ways it allows; then the tools' own table. *)
(***************************************************************************)
EXTENDS WorkspaceExec, TLAPS

USE SessionAssumption, ExecAssumption

-----------------------------------------------------------------------------
\* What the retention limit does to a buffer of n lines: its end stays where
\* it is, at most MaxLines are kept, and the cursor is moved only onto the
\* oldest line kept.
LEMMA TrimmedKeepsEnd ==
    ASSUME TypeOK, NEW n \in Nat, n >= nlines, Trimmed(n)
    PROVE  /\ lineBase' \in Nat /\ nlines' \in Nat
           /\ lineBase' + nlines' = lineBase + n
           /\ MaxLines > 0 => nlines' <= MaxLines
           /\ cursor' \in lineBase'..(lineBase' + nlines')
           /\ \/ cursor' = cursor
              \/ /\ MaxLines > 0 /\ lineBase + n - cursor > MaxLines
                 /\ cursor' = lineBase + n - MaxLines
           /\ MaxLines > 0 => lineBase + n - cursor' <= MaxLines
BY DEF Trimmed, TypeOK, End

\* A poll leaves the cursor on or behind a line that exists.
LEMMA PollEndInRange ==
    ASSUME TypeOK, NEW limit \in Nat
    PROVE  PollEnd(limit) \in cursor..End
BY DEF TypeOK, PollEnd, End

\* Every step of the session keeps its types and the cursor in the buffer.
LEMMA TypesStep ==
    ASSUME TypeOK, [SessionNext]_sessionVars PROVE TypeOK'
<1>1. CASE UNCHANGED sessionVars
  <2>1. UNCHANGED <<process, output, buffer, control>>
    BY <1>1 DEF sessionVars
  <2>2. /\ mode' \in Modes /\ returncode' \in BOOLEAN /\ held' \in BOOLEAN
        /\ asked' \in {"none", "term", "kill"}
    BY <2>1 DEF TypeOK, process
  <2>3. /\ unread' \in [Streams -> [lines : Nat, rest : BOOLEAN]]
        /\ written' \in Nat /\ reader' \in [Streams -> {"reading", "done"}]
    BY <2>1 DEF TypeOK, output
  <2>4. /\ lineBase' \in Nat /\ nlines' \in Nat /\ cursor' \in lineBase'..End'
        /\ MaxLines > 0 => nlines' <= MaxLines
        /\ partial' \in BOOLEAN /\ finished' \in BOOLEAN
    BY <2>1 DEF TypeOK, buffer, End
  <2>5. /\ closed' \in BOOLEAN /\ timer' \in {"armed", "fired"}
        /\ timedOut' \in BOOLEAN
        /\ killing' \in [Tasks -> {"no", "grace", "final"}]
        /\ closing' \in [Tasks -> {"no", "killing", "gathering"}]
    BY <2>1 DEF TypeOK, control
  <2> QED BY <2>2, <2>3, <2>4, <2>5 DEF TypeOK
<1> USE DEF process, output, buffer, control, Streams, End
<1>2. ASSUME NEW s \in Streams, Write(s) PROVE TypeOK'
  <2>1. PICK n \in Nat, rest \in BOOLEAN :
           unread' = [unread EXCEPT ![s] = [lines |-> n, rest |-> rest]]
    <3>1. unread[s].lines \in Nat /\ unread[s].lines + 1 \in Nat
      BY DEF TypeOK
    <3> QED BY <1>2, <3>1 DEF Write
  <2>2. unread' \in [Streams -> [lines : Nat, rest : BOOLEAN]]
    BY <2>1 DEF TypeOK
  <2>3. written' \in Nat
    BY <1>2 DEF Write, TypeOK
  <2>4. UNCHANGED <<process, reader, buffer, control>>
    BY <1>2 DEF Write
  <2> QED BY <2>2, <2>3, <2>4 DEF TypeOK
<1>3. ASSUME NEW s \in Streams, Read(s) PROVE TypeOK'
  <2>1. PICK k \in 0..unread[s].lines, text \in BOOLEAN, rest \in BOOLEAN :
           /\ unread' = [unread EXCEPT ![s] =
                            [lines |-> @.lines - k, rest |-> rest]]
           /\ AppendOutput(k, text)
    BY <1>3 DEF Read
  <2>2. k \in Nat /\ unread[s].lines - k \in Nat /\ nlines + k \in Nat
    BY DEF TypeOK
  <2>3. unread' \in [Streams -> [lines : Nat, rest : BOOLEAN]]
    BY <2>1, <2>2 DEF TypeOK
  <2>4. Trimmed(nlines + k) /\ partial' \in BOOLEAN
    BY <2>1 DEF AppendOutput, TypeOK
  <2>5. /\ lineBase' \in Nat /\ nlines' \in Nat
        /\ cursor' \in lineBase'..(lineBase' + nlines')
        /\ MaxLines > 0 => nlines' <= MaxLines
    BY <2>2, <2>4, TrimmedKeepsEnd, nlines + k >= nlines DEF TypeOK
  <2>6. UNCHANGED <<process, written, reader, finished, control>>
    BY <1>3 DEF Read
  <2> QED BY <2>3, <2>4, <2>5, <2>6 DEF TypeOK
<1>4. ASSUME NEW s \in Streams, ReaderEnds(s) PROVE TypeOK'
  BY <1>4 DEF ReaderEnds, TypeOK
<1>5. CASE Exit \/ DescendantEnds
  BY <1>5 DEF Exit, DescendantEnds, TypeOK
<1>6. CASE WatchProcessExit
  <2> DEFINE n == nlines + IF partial THEN 1 ELSE 0
  <2>1. n \in Nat /\ n >= nlines /\ Trimmed(n)
    BY <1>6 DEF WatchProcessExit, TypeOK
  <2>2. /\ lineBase' \in Nat /\ nlines' \in Nat
        /\ cursor' \in lineBase'..(lineBase' + nlines')
        /\ MaxLines > 0 => nlines' <= MaxLines
    BY <2>1, TrimmedKeepsEnd
  <2> QED BY <1>6, <2>2 DEF WatchProcessExit, TypeOK
<1>7. CASE TimeoutFires
  BY <1>7 DEF TimeoutFires, KillBegins, TypeOK
<1>8. ASSUME NEW t \in Tasks,
             GraceEnds(t) \/ KillEnds(t) \/ CloseGathers(t) \/ CloseEnds(t)
      PROVE  TypeOK'
  BY <1>8 DEF GraceEnds, KillEnds, CloseGathers, CloseEnds, TypeOK
<1>9. ASSUME NEW t \in Tasks, NEW e \in cursor..End, Use(t, e) PROVE TypeOK'
  <2>1. cursor' \in lineBase'..End'
    BY <1>9 DEF Use, TypeOK
  <2>2. /\ asked' \in {"none", "term", "kill"} /\ closed' \in BOOLEAN
        /\ killing' \in [Tasks -> {"no", "grace", "final"}]
        /\ closing' \in [Tasks -> {"no", "killing", "gathering"}]
    BY <1>9 DEF Use, KillBegins, CloseBegins, TypeOK
  <2> QED BY <1>9, <2>1, <2>2 DEF Use, TypeOK
<1> QED
  BY <1>1, <1>2, <1>3, <1>4, <1>5, <1>6, <1>7, <1>8, <1>9,
     PollEndInRange, cursor \in cursor..End DEF SessionNext, Background, TypeOK

LEMMA SessionInitTypes == ASSUME SessionInit PROVE TypeOK
<1>1. unread \in [Streams -> [lines : Nat, rest : BOOLEAN]]
  BY DEF SessionInit, Nothing
<1>2. cursor \in lineBase..End /\ (MaxLines > 0 => nlines <= MaxLines)
  BY DEF SessionInit, End
<1> QED BY <1>1, <1>2 DEF SessionInit, TypeOK

\* The session keeps its types, and the cursor stays within the buffer.
LEMMA SessionTypes == SessionSpec => []TypeOK
<1>1. SessionInit => TypeOK
  BY SessionInitTypes
<1> QED BY <1>1, TypesStep, PTL DEF SessionSpec

-----------------------------------------------------------------------------
\* A reader that has ended read everything, and with pipes nobody can write
\* any more; the terminal session has no second reader to speak of.
ReadersReadAll ==
    \A s \in Streams : reader[s] = "done" =>
        /\ mode = "pipes" \/ s = "stdout" => returncode
        /\ mode = "pipes" => ~held /\ unread[s] = Nothing

FinalInv == ExitIsFinal /\ ReadersReadAll

LEMMA SessionFinal == SessionSpec => []FinalInv
<1>1. SessionInit => FinalInv
  BY DEF SessionInit, FinalInv, ExitIsFinal, ReadersReadAll, Streams
<1>2. ASSUME TypeOK, FinalInv, [SessionNext]_sessionVars PROVE FinalInv'
  <2> USE <1>2 DEF FinalInv, ExitIsFinal, ReadersReadAll, process, output,
          buffer, control
  <2>1. CASE UNCHANGED sessionVars
    BY <2>1 DEF sessionVars
  <2>2. ASSUME NEW s \in Streams, Write(s) PROVE FinalInv'
    BY <2>2 DEF Write, TypeOK, Streams
  <2>3. ASSUME NEW s \in Streams, Read(s) PROVE FinalInv'
    <3>1. reader[s] = "reading" /\ ~finished /\ ~finished'
      BY <2>3 DEF Read
    <3>2. \A z \in Streams \ {s} : unread'[z] = unread[z]
      BY <2>3 DEF Read, TypeOK
    <3> QED BY <2>3, <3>1, <3>2 DEF Read
  <2>4. ASSUME NEW s \in Streams, ReaderEnds(s) PROVE FinalInv'
    BY <2>4 DEF ReaderEnds, OutputEnded, TypeOK
  <2>5. CASE Exit \/ DescendantEnds
    <3>1. CASE Exit
      <4>1. ~finished /\ ~finished'
        BY <3>1 DEF Exit
      <4>2. ASSUME NEW s \in Streams, reader'[s] = "done"
            PROVE  mode' # "pipes" /\ (mode' = "pipes" \/ s = "stdout" => returncode')
        BY <3>1, <4>2 DEF Exit
      <4> QED BY <4>1, <4>2
    <3>2. CASE DescendantEnds
      BY <3>2 DEF DescendantEnds
    <3> QED BY <2>5, <3>1, <3>2
  <2>6. CASE WatchProcessExit
    <3>1. UNCHANGED <<mode, returncode, held, unread, reader>>
      BY <2>6 DEF WatchProcessExit
    <3>2. ReadersReadAll'
      BY <3>1
    <3>3. ~partial' /\ returncode /\ \A s \in Streams : reader[s] = "done"
      BY <2>6 DEF WatchProcessExit
    <3>4. mode = "pipes" => ~held /\ \A s \in Streams : unread[s] = Nothing
      BY <3>3 DEF Streams
    <3>5. ExitIsFinal'
      <4> HIDE DEF ReadersReadAll, process, output, buffer, control
      <4> QED BY <3>1, <3>3, <3>4
    <3> QED BY <3>2, <3>5
  <2>7. CASE TimeoutFires
    BY <2>7 DEF TimeoutFires, KillBegins
  <2>8. ASSUME NEW t \in Tasks,
               GraceEnds(t) \/ KillEnds(t) \/ CloseGathers(t) \/ CloseEnds(t)
        PROVE  FinalInv'
    BY <2>8 DEF GraceEnds, KillEnds, CloseGathers, CloseEnds
  <2>9. ASSUME NEW t \in Tasks, NEW e, Use(t, e) PROVE FinalInv'
    BY <2>9 DEF Use
  <2> QED
    BY <2>1, <2>2, <2>3, <2>4, <2>5, <2>6, <2>7, <2>8, <2>9
       DEF SessionNext, Background
<1> QED BY <1>1, <1>2, SessionTypes, PTL DEF SessionSpec

Kept == IF MaxLines > 0 THEN MaxLines ELSE 0

\* In the words of the stream: the retention limit gives up unread lines only
\* beyond the newest ones it keeps.
LEMMA TrimmedIsGrow ==
    ASSUME TypeOK, NEW n \in Nat, n >= nlines, Trimmed(n)
    PROVE  /\ End' \in Nat /\ End' >= End
           /\ \/ cursor' = cursor
              \/ Kept > 0 /\ End' - cursor > Kept /\ cursor' = End' - Kept
           /\ Kept > 0 => End' - cursor' <= Kept
<1>1. lineBase \in Nat /\ nlines \in Nat /\ cursor \in Nat
  BY DEF TypeOK, End
<1>2. cursor >= lineBase /\ (MaxLines > 0 => nlines <= MaxLines)
  BY DEF TypeOK, End
<1> QED BY <1>1, <1>2 DEF Trimmed, End, Kept

\* The buffer with its limit and cursor implements the stream of lines.
LEMMA SessionStream == SessionSpec => ImplementsStream
<1>1. SessionInit => Stream!StreamInit
  BY DEF SessionInit, Stream!StreamInit, End
<1>2. ASSUME TypeOK, TypeOK', FinalInv, [SessionNext]_sessionVars
      PROVE  [Stream!StreamNext]_(Stream!streamVars)
  <2> USE <1>2 DEF process, output, buffer, control, Stream!streamVars, End
  <2> DEFINE Added(n) == n \in Nat /\ n >= nlines /\ Trimmed(n)
  <2>1. ASSUME NEW n, Added(n), ~finished, finished' \in BOOLEAN
        PROVE  Stream!StreamNext
    <3>1. /\ End' \in Nat /\ End' >= End
          /\ \/ cursor' = cursor
             \/ Kept > 0 /\ End' - cursor > Kept /\ cursor' = End' - Kept
          /\ Kept > 0 => End' - cursor' <= Kept
      BY <2>1, TrimmedIsGrow
    <3>2. Stream!Grow
      BY <2>1, <3>1 DEF Stream!Grow, Kept
    <3> QED BY <2>1, <3>2 DEF Stream!StreamNext
  <2>2. CASE UNCHANGED <<lineBase, nlines, cursor, finished>>
    BY <2>2
  <2>3. ASSUME NEW s \in Streams, Read(s) PROVE Stream!StreamNext
    <3>1. PICK k \in 0..unread[s].lines : Trimmed(nlines + k)
      BY <2>3 DEF Read, AppendOutput
    <3>2. Added(nlines + k)
      BY <3>1 DEF TypeOK
    <3>3. ~finished /\ finished' \in BOOLEAN
      BY <2>3 DEF Read, FinalInv, ExitIsFinal, TypeOK
    <3> QED BY <2>1, <3>2, <3>3
  <2>4. CASE WatchProcessExit
    <3>1. Added(nlines + IF partial THEN 1 ELSE 0)
      BY <2>4 DEF WatchProcessExit, TypeOK
    <3>2. ~finished /\ finished' \in BOOLEAN
      BY <2>4 DEF WatchProcessExit
    <3> QED BY <2>1, <3>1, <3>2
  <2>5. ASSUME NEW t \in Tasks, NEW e \in cursor..End, Use(t, e)
        PROVE  Stream!StreamNext
    BY <2>5 DEF Use, Stream!StreamNext, Stream!Take
  <2>6. CASE UNCHANGED sessionVars
    BY <2>2, <2>6 DEF sessionVars
  <2>7. ASSUME NEW s \in Streams, Write(s) \/ ReaderEnds(s)
        PROVE  UNCHANGED <<lineBase, nlines, cursor, finished>>
    BY <2>7 DEF Write, ReaderEnds
  <2>8. CASE Exit \/ DescendantEnds \/ TimeoutFires
    BY <2>2, <2>8 DEF Exit, DescendantEnds, TimeoutFires
  <2>9. ASSUME NEW t \in Tasks,
               GraceEnds(t) \/ KillEnds(t) \/ CloseGathers(t) \/ CloseEnds(t)
        PROVE  UNCHANGED <<lineBase, nlines, cursor, finished>>
    BY <2>9 DEF GraceEnds, KillEnds, CloseGathers, CloseEnds
  <2>10. cursor \in cursor..End
    BY DEF TypeOK
  <2> QED
    BY <2>2, <2>3, <2>4, <2>5, <2>6, <2>7, <2>8, <2>9, <2>10, PollEndInRange
       DEF SessionNext, Background
<1> QED
  BY <1>1, <1>2, SessionTypes, SessionFinal, PTL
     DEF SessionSpec, ImplementsStream, Stream!StreamSpec

-----------------------------------------------------------------------------
\* A task kills or closes only in the stages in which its call waits for that.
CallsFree ==
    \A c \in Calls :
        ~Free(c) => stage[c] \in {"killing", "finalizing", "evicting"}

ToolInv == ExecTypeOK /\ CallsFree

\* A call does at most one thing to the kill and close of the session.
LEMMA FinalizeUses ==
    ASSUME NEW c \in Calls, Finalize(c)
    PROVE  ControlKept \/ CloseBegins(c)
BY DEF Finalize, Evict

\* The tools use the session as it allows: between two awaits a call polls,
\* begins a kill or begins a close, and never while it waits for one.
LEMMA CallUses ==
    ASSUME ToolInv, NEW c \in Calls, CallStep(c)
    PROVE  \/ UNCHANGED sessionVars
           \/ Use(c, cursor)
           \/ \E limit \in Nat : Use(c, PollEnd(limit))
<1> USE DEF ToolInv, CallsFree, SessionKept, ControlKept, output
<1>1. CASE BeginUnknown(c)
  BY <1>1 DEF BeginUnknown, MayBegin, Evict, Use
<1>2. CASE BeginWrite(c)
  BY <1>2 DEF BeginWrite
<1>3. CASE BeginKill(c)
  <2>1. Use(c, PollEnd(0))
    BY <1>3, FinalizeUses DEF BeginKill, MayBegin, Use
  <2> QED BY <2>1
<1>4. CASE KillReturns(c)
  BY <1>4, FinalizeUses DEF KillReturns, Use
<1>5. CASE PollExited(c)
  <2>1. Use(c, PollEnd(Limit))
    BY <1>5, FinalizeUses DEF PollExited, Use
  <2> QED BY <2>1
<1>6. CASE PollAgain(c) \/ PollReturns(c)
  <2>1. Use(c, PollEnd(Limit))
    BY <1>6 DEF PollAgain, PollReturns, Use
  <2> QED BY <2>1
<1>7. CASE Finalized(c) \/ Evicted(c)
  BY <1>7 DEF Finalized, Evicted
<1> QED BY <1>1, <1>2, <1>3, <1>4, <1>5, <1>6, <1>7 DEF CallStep

LEMMA ToolStepUses ==
    ASSUME ToolInv, [ExecNext]_execVars PROVE [SessionNext]_sessionVars
<1>1. ASSUME NEW c \in Calls, CallStep(c) PROVE [SessionNext]_sessionVars
  <2>1. c \in Tasks \ {Timer}
    OBVIOUS
  <2> QED BY <1>1, <2>1, CallUses DEF SessionNext
<1>2. ASSUME NEW c \in Calls, DeadlinePasses(c) PROVE UNCHANGED sessionVars
  BY <1>2 DEF DeadlinePasses
<1>3. TimeToLivePasses \/ UNCHANGED execVars => UNCHANGED sessionVars
  BY DEF TimeToLivePasses, execVars
<1> QED BY <1>1, <1>2, <1>3 DEF ExecNext, SessionNext

LEMMA ToolInvStep ==
    ASSUME ToolInv, [ExecNext]_execVars PROVE ToolInv'
<1> USE DEF ToolInv, ExecTypeOK, CallsFree, Free
<1>1. TypeOK'
  BY ToolStepUses, TypesStep
<1>2. CASE UNCHANGED execVars
  BY <1>1, <1>2 DEF execVars, sessionVars, control, table, callVars
<1>3. CASE TimeToLivePasses
  BY <1>1, <1>3 DEF TimeToLivePasses, sessionVars, control, callVars
<1>4. CASE Background /\ UNCHANGED <<table, callVars>>
  <2>1. \A c \in Calls : killing[c] = "no" /\ closing[c] = "no"
                         => killing'[c] = "no" /\ closing'[c] = "no"
    <3>1. ASSUME NEW s \in Streams, Write(s) \/ Read(s) \/ ReaderEnds(s)
          PROVE  UNCHANGED <<killing, closing>>
      BY <3>1 DEF Write, Read, ReaderEnds, control
    <3>2. Exit \/ DescendantEnds \/ WatchProcessExit => UNCHANGED <<killing, closing>>
      BY DEF Exit, DescendantEnds, WatchProcessExit, control
    <3>3. TimeoutFires => \A c \in Calls : killing'[c] = killing[c] /\ closing' = closing
      BY DEF TimeoutFires, KillBegins, TypeOK
    <3>4. ASSUME NEW t \in Tasks, GraceEnds(t) \/ KillEnds(t),
                 NEW c \in Calls, killing[c] = "no"
          PROVE  killing'[c] = "no" /\ closing' = closing
      BY <3>4 DEF GraceEnds, KillEnds, TypeOK
    <3>5. ASSUME NEW t \in Tasks, CloseGathers(t) \/ CloseEnds(t),
                 NEW c \in Calls, closing[c] = "no"
          PROVE  closing'[c] = "no" /\ killing' = killing
      BY <3>5 DEF CloseGathers, CloseEnds, TypeOK
    <3> QED BY <1>4, <3>1, <3>2, <3>3, <3>4, <3>5 DEF Background
  <2> QED BY <1>1, <1>4, <2>1 DEF table, callVars
<1>5. ASSUME NEW c \in Calls, DeadlinePasses(c) PROVE ToolInv'
  BY <1>1, <1>5 DEF DeadlinePasses, sessionVars, control, table
<1>6. ASSUME NEW c \in Calls, CallStep(c) PROVE ToolInv'
  <2>1. \A d \in Calls \ {c} : killing'[d] = killing[d] /\ closing'[d] = closing[d]
                               /\ stage'[d] = stage[d]
    BY <1>6 DEF CallStep, BeginUnknown, BeginWrite, BeginKill, KillReturns,
       PollExited, PollAgain, PollReturns, Finalized, Evicted, Finalize, Evict,
       ControlKept, CloseBegins, KillBegins, sessionVars, control, TypeOK
  <2>2. ~Free(c)' => stage'[c] \in {"killing", "finalizing", "evicting"}
    BY <1>6 DEF CallStep, BeginUnknown, BeginWrite, BeginKill, KillReturns,
       PollExited, PollAgain, PollReturns, Finalized, Evicted, Finalize, Evict,
       ControlKept, CloseBegins, KillBegins, sessionVars, control, TypeOK,
       MayBegin
  <2>3. /\ registered' \in BOOLEAN /\ exitedAt' \in {"unset", "recent", "old"}
        /\ got' \subseteq Calls
        /\ stage' \in [Calls -> {"idle", "polling", "killing", "finalizing",
                                 "evicting", "returned", "failed"}]
        /\ window' \in [Calls -> {"none", "once", "zero", "some", "over"}]
        /\ told' \in [Calls -> {"nothing", "running", "exited", "killed"}]
    BY <1>6 DEF CallStep, BeginUnknown, BeginWrite, BeginKill, KillReturns,
       PollExited, PollAgain, PollReturns, Finalized, Evicted, Finalize, Evict,
       LoopLeft, Raised, Refreshed, table
  <2> QED BY <1>1, <2>1, <2>2, <2>3
<1> QED BY <1>2, <1>3, <1>4, <1>5, <1>6 DEF ExecNext

\* The table, the calls and the session start in their types, and no call
\* waits for a kill or a close.
LEMMA ExecInitInv == ASSUME ExecInit PROVE ToolInv /\ SessionInit
<1>1. SessionInit
  BY DEF ExecInit
<1>2. TypeOK
  BY <1>1, SessionInitTypes
<1>3. /\ registered \in BOOLEAN /\ exitedAt \in {"unset", "recent", "old"}
      /\ got \subseteq Calls
  BY DEF ExecInit
<1>4. /\ stage \in [Calls -> {"idle", "polling", "killing", "finalizing",
                               "evicting", "returned", "failed"}]
      /\ told \in [Calls -> {"nothing", "running", "exited", "killed"}]
  BY DEF ExecInit
<1>5. window \in [Calls -> {"none", "once", "zero", "some", "over"}]
  <2>1. PICK w \in {"once", "some"} :
           window = [c \in Calls |-> IF c = Starter THEN w ELSE "none"]
    BY DEF ExecInit
  <2> QED BY <2>1
<1>6. \A c \in Calls : Free(c)
  BY <1>1 DEF SessionInit, Free
<1>7. ExecTypeOK
  BY <1>2, <1>3, <1>4, <1>5 DEF ExecTypeOK
<1> QED BY <1>1, <1>6, <1>7 DEF ToolInv, CallsFree

\* Whatever the model asks for and in whatever order, the three tools drive a
\* program session only by the steps ProgramSession allows.
THEOREM ToolsUseSession == ExecSpec => SessionSpec
<1> QED
  BY ExecInitInv, ToolInvStep, ToolStepUses, PTL DEF ExecSpec, SessionSpec

\* The tools keep the types of their table and their calls.
THEOREM TypeCorrect == ExecSpec => []ExecTypeOK
<1>1. ToolInv => ExecTypeOK
  BY DEF ToolInv
<1> QED BY <1>1, ExecInitInv, ToolInvStep, PTL DEF ExecSpec

\* "exited" is reported only when every line was read from the program.
THEOREM ExitedMeansAll == ExecSpec => []ExitIsFinal
<1>1. FinalInv => ExitIsFinal
  BY DEF FinalInv
<1> QED BY <1>1, ToolsUseSession, SessionFinal, PTL

\* Every line reaches at most one poll, in order, and only lines beyond the
\* retention limit are skipped, however calls and readers interleave.
THEOREM StreamKept == ExecSpec => ImplementsStream
BY ToolsUseSession, SessionStream, PTL

-----------------------------------------------------------------------------
\* What each waiting call knows: a kill that has returned left no process, a
\* finalisation closes the session of a process that has exited; and only an
\* exit gives a session an age.
WaitersKnow ==
    /\ exitedAt # "unset" => returncode
    /\ \A c \in Calls :
          /\ stage[c] = "killing" /\ Free(c) => returncode
          /\ stage[c] = "finalizing" => returncode /\ closed
          /\ stage[c] = "polling" => c \notin Killers

OrphanInv == NoOrphan /\ WaitersKnow

\* What a step of a call respects: the other calls, and the exit, the close
\* and the removal, which are never taken back.
Respected(c) ==
    /\ returncode => returncode'
    /\ closed => closed'
    /\ registered' => registered
    /\ ~registered' => returncode' /\ closed'
    /\ exitedAt' # "unset" => returncode'
    /\ \A d \in Calls \ {c} : Free(d)' => Free(d)

LEMMA RespectfulStep ==
    ASSUME OrphanInv, NEW c \in Calls, Respected(c), NEW st,
           stage \in [Calls -> {"idle", "polling", "killing", "finalizing",
                               "evicting", "returned", "failed"}],
           stage' = [stage EXCEPT ![c] = st],
           c \in Killers /\ st = "returned" => ~registered',
           st = "killing" /\ Free(c)' => returncode',
           st = "finalizing" => returncode' /\ closed',
           st = "polling" => c \notin Killers
    PROVE  OrphanInv'
<1>1. stage'[c] = st /\ \A d \in Calls \ {c} : stage'[d] = stage[d]
  OBVIOUS
<1>2. Killers \subseteq Calls
  BY DEF Calls
<1>3. NoOrphan'
  BY <1>1, <1>2 DEF OrphanInv, NoOrphan, Respected
<1>4. WaitersKnow'
  BY <1>1 DEF OrphanInv, WaitersKnow, Respected
<1> QED BY <1>3, <1>4 DEF OrphanInv

\* A program is never forgotten while it runs: by no finalisation, no expiry
\* of its entry and no order of concurrent calls.
THEOREM NeverOrphaned == ExecSpec => []NoOrphan
<1>1. ExecInit => OrphanInv
  <2>1. ASSUME ExecInit PROVE registered /\ exitedAt = "unset"
    BY <2>1 DEF ExecInit
  <2>2. ASSUME ExecInit, NEW c \in Calls
        PROVE  /\ stage[c] \in {"polling", "idle"}
               /\ stage[c] = "polling" => c \notin Killers
    BY <2>2 DEF ExecInit
  <2>3. Killers \subseteq Calls
    BY DEF Calls
  <2> QED BY <2>1, <2>2, <2>3 DEF OrphanInv, NoOrphan, WaitersKnow
<1>2. ASSUME ToolInv, FinalInv, OrphanInv, [ExecNext]_execVars
      PROVE  OrphanInv'
  <2> USE <1>2 DEF OrphanInv, NoOrphan, WaitersKnow, Free
  <2>a. finished => returncode
    BY DEF FinalInv, ExitIsFinal
  <2>1. CASE UNCHANGED execVars \/ TimeToLivePasses
    BY <2>1 DEF execVars, sessionVars, process, control, table, callVars,
       TimeToLivePasses
  <2>2. ASSUME NEW c \in Calls, DeadlinePasses(c) PROVE OrphanInv'
    BY <2>2 DEF DeadlinePasses, sessionVars, process, control, table
  <2>3. CASE Background /\ UNCHANGED <<table, callVars>>
    <3>1. (returncode => returncode') /\ closed' = closed
      BY <2>3 DEF Background, Write, Read, ReaderEnds, Exit, DescendantEnds,
         WatchProcessExit, TimeoutFires, KillBegins, GraceEnds, KillEnds,
         CloseGathers, CloseEnds, process, control
    <3>2. \A c \in Calls : Free(c)' /\ ~Free(c) => returncode'
      <4> USE DEF control, process
      <4>1. ASSUME NEW s \in Streams, Write(s) \/ Read(s) \/ ReaderEnds(s)
            PROVE  UNCHANGED <<killing, closing>>
        BY <4>1 DEF Write, Read, ReaderEnds
      <4>2. Exit \/ DescendantEnds \/ WatchProcessExit
              => UNCHANGED <<killing, closing>>
        BY DEF Exit, DescendantEnds, WatchProcessExit
      <4>3. TimeoutFires
              => \A c \in Calls : killing'[c] = killing[c] /\ closing' = closing
        BY DEF TimeoutFires, KillBegins, ToolInv, ExecTypeOK, TypeOK
      <4>4. ASSUME NEW t \in Tasks, GraceEnds(t) PROVE \A c \in Calls : ~Free(c) => ~Free(c)'
        BY <4>4 DEF GraceEnds, ToolInv, ExecTypeOK, TypeOK
      <4>5. ASSUME NEW t \in Tasks, KillEnds(t) PROVE returncode'
        BY <4>5 DEF KillEnds
      <4>6. ASSUME NEW t \in Tasks, CloseGathers(t) PROVE \A c \in Calls : ~Free(c) => ~Free(c)'
        BY <4>6 DEF CloseGathers, ToolInv, ExecTypeOK, TypeOK
      <4>7. ASSUME NEW t \in Tasks, CloseEnds(t) PROVE returncode'
        BY <2>a, <4>7 DEF CloseEnds
      <4> QED BY <2>3, <4>1, <4>2, <4>3, <4>4, <4>5, <4>6, <4>7 DEF Background
    <3>3. UNCHANGED <<registered, exitedAt, stage>>
      BY <2>3 DEF table, callVars
    <3> QED BY <3>1, <3>2, <3>3
  <2>4. ASSUME NEW c \in Calls, CallStep(c) PROVE OrphanInv'
    <3> USE DEF Respected, SessionKept, ControlKept, ToolInv, ExecTypeOK, TypeOK
    <3>1. ASSUME Respected(c), NEW st, stage' = [stage EXCEPT ![c] = st],
                 /\ c \in Killers /\ st = "returned" => ~registered'
                 /\ st = "killing" /\ Free(c)' => returncode'
                 /\ st = "finalizing" => returncode' /\ closed'
                 /\ st = "polling" => c \notin Killers
          PROVE  OrphanInv'
      BY <3>1, RespectfulStep
    <3>2. ASSUME CloseBegins(c)
          PROVE  closed' /\ \A d \in Calls \ {c} : Free(d)' => Free(d)
      BY <3>2 DEF CloseBegins
    <3>3. ASSUME Finalize(c), returncode, returncode' PROVE OrphanInv'
      <4>1. CASE Evict(c)
        <5>1. Respected(c)
          BY <3>2, <3>3, <4>1 DEF Evict, Expired
        <5>2. stage' = [stage EXCEPT ![c] = "evicting"] /\ ~registered'
          BY <4>1 DEF Evict
        <5> QED BY <3>1, <5>1, <5>2
      <4>2. CASE /\ registered /\ UNCHANGED registered /\ exitedAt' = "recent"
                 /\ stage' = [stage EXCEPT ![c] = "finalizing"]
                 /\ CloseBegins(c)
        <5>1. Respected(c)
          BY <3>2, <3>3, <4>2
        <5> QED BY <3>1, <3>2, <3>3, <4>2, <5>1
      <4>3. CASE /\ ~registered /\ ControlKept /\ UNCHANGED table
                 /\ stage' = [stage EXCEPT ![c] = Raised(c)]
        <5>1. closed' = closed /\ registered' = registered /\ exitedAt' = exitedAt
          BY <4>3 DEF table
        <5>2. \A d \in Calls \ {c} : Free(d)' => Free(d)
          BY <4>3
        <5>3. Respected(c)
          BY <3>3, <4>3, <5>1, <5>2
        <5>4. Raised(c) \in {"failed", "returned"}
          BY DEF Raised
        <5> QED BY <3>1, <4>3, <5>1, <5>3, <5>4
      <4> QED BY <3>3, <4>1, <4>2, <4>3 DEF Finalize
    <3>4. CASE BeginUnknown(c)
      <4>1. CASE Evict(c)
        <5>1. returncode
          BY <2>a, <4>1 DEF Evict, Expired, Refreshed
        <5>2. returncode'
          BY <3>4, <5>1 DEF BeginUnknown
        <5> QED BY <3>3, <4>1, <5>1, <5>2 DEF Finalize
      <4>2. CASE /\ ~registered /\ ControlKept /\ UNCHANGED table
                 /\ stage' = [stage EXCEPT ![c] = "failed"]
        <5>1. /\ closed' = closed /\ registered' = registered
              /\ exitedAt' = exitedAt /\ returncode' = returncode
          BY <3>4, <4>2 DEF table, BeginUnknown
        <5>2. \A d \in Calls \ {c} : Free(d)' => Free(d)
          BY <4>2
        <5>3. Respected(c)
          BY <4>2, <5>1, <5>2
        <5> QED BY <3>1, <4>2, <5>3
      <4> QED BY <3>4, <4>1, <4>2 DEF BeginUnknown
    <3>5. CASE BeginWrite(c)
      <4>1. exitedAt' # "unset" => returncode
        BY <2>a, <3>5 DEF BeginWrite, Refreshed
      <4>2. UNCHANGED <<returncode, closed, registered, killing, closing>>
        BY <3>5 DEF BeginWrite, sessionVars, process, control
      <4>3. returncode' = returncode /\ closed' = closed /\ registered' = registered
        BY <4>2
      <4>4. \A d \in Calls \ {c} : Free(d)' => Free(d)
        BY <4>2
      <4>5. Respected(c)
        BY <4>1, <4>3, <4>4
      <4>6. PICK st \in {"polling", "failed"} : stage' = [stage EXCEPT ![c] = st]
        BY <3>5 DEF BeginWrite
      <4>7. c \notin Killers
        BY <3>5 DEF BeginWrite
      <4> QED BY <3>1, <4>5, <4>6, <4>7
    <3>6. CASE BeginKill(c)
      <4>1. CASE finished
        BY <2>a, <3>3, <3>6, <4>1 DEF BeginKill
      <4>2. CASE ~finished
        <5>1. /\ KillBegins(c) /\ returncode' = returncode
              /\ stage' = [stage EXCEPT ![c] = "killing"]
              /\ registered' = registered /\ exitedAt' = exitedAt
          BY <3>6, <4>2 DEF BeginKill, table
        <5>2. /\ closed' = closed
              /\ \A d \in Calls \ {c} : Free(d)' => Free(d)
              /\ Free(c)' => returncode
          BY <5>1 DEF KillBegins
        <5>3. Respected(c)
          BY <5>1, <5>2
        <5> QED BY <3>1, <5>1, <5>2, <5>3
      <4> QED BY <4>1, <4>2
    <3>7. CASE KillReturns(c)
      BY <3>3, <3>7 DEF KillReturns
    <3>8. CASE PollExited(c)
      BY <2>a, <3>3, <3>8 DEF PollExited
    <3>9. CASE PollAgain(c)
      BY <3>9 DEF PollAgain, table
    <3>10. CASE PollReturns(c)
      BY <3>10 DEF PollReturns, table
    <3>11. CASE Finalized(c)
      BY <3>11 DEF Finalized, Raised, sessionVars, process, control
    <3>12. CASE Evicted(c)
      BY <3>12 DEF Evicted, Raised, sessionVars, process, control, table
    <3> QED BY <2>4, <3>4, <3>5, <3>6, <3>7, <3>8, <3>9, <3>10, <3>11, <3>12 DEF CallStep
  <2> QED BY <1>2, <2>1, <2>2, <2>3, <2>4 DEF ExecNext
<1>3. OrphanInv => NoOrphan
  BY DEF OrphanInv
<1> QED
  BY <1>1, <1>2, <1>3, ExecInitInv, ToolInvStep, ToolsUseSession, SessionFinal,
     PTL DEF ExecSpec
=============================================================================
