----------------------------- MODULE LocatorsProofs -----------------------------
(***************************************************************************)
(* Proofs about Locators, for any sets of sessions, rollouts, messages and *)
(* wires: whose session a pane is shown from, what Kimi's joint summary    *)
(* has, and what OpenCode's plugin leaves in its files.                    *)
(***************************************************************************)
EXTENDS Locators, TLAPS, FiniteSetTheorems, WellFoundedInduction
-----------------------------------------------------------------------------
(* The plugin of OpenCode.                                                 *)

\* The last of these rows that is of a session names a directory.
LastRow(es, s, d) ==
    \E i \in DOMAIN es :
        /\ es[i].session = s /\ es[i].dir = d
        /\ \A j \in DOMAIN es : es[j].session = s => j <= i

Rows == [session : PluginSessions, dir : Directories]

\* The texts kept are those told in this turn, the messages known to be an
\* assistant's are, and the directory remembered is the one the session is in.
PluginInv ==
    /\ texts = told /\ texts \in [PluginSessions -> [Messages -> Texts \cup {NoText}]]
    /\ assistants \in [PluginSessions -> SUBSET {m \in Messages : Role[m] = "assistant"}]
    /\ directory = here /\ here \in [PluginSessions -> Directories \cup {NoDirectory}]
    /\ DOMAIN lines = PluginSessions
    /\ entered \in Seq(Rows)
    /\ lost \in BOOLEAN
    /\ ~lost => \A s \in SafeSessions : here[s] # NoDirectory => LastRow(entered, s, here[s])

\* The invariant holds before the first event.
LEMMA PluginInitInv == PluginInit => PluginInv
<1> SUFFICES ASSUME PluginInit PROVE PluginInv
  OBVIOUS
<1> USE DEF PluginInit
<1>1. texts \in [PluginSessions -> [Messages -> Texts \cup {NoText}]]  BY DEF Untold
<1>2. \A s \in SafeSessions : here[s] = NoDirectory  BY SafeAssumption
<1>3. assistants \in [PluginSessions -> SUBSET {m \in Messages : Role[m] = "assistant"}]  OBVIOUS
<1>4. here \in [PluginSessions -> Directories \cup {NoDirectory}]  OBVIOUS
<1>5. entered \in Seq(Rows)  OBVIOUS
<1>6. DOMAIN lines = PluginSessions /\ lost \in BOOLEAN  OBVIOUS
<1>7. texts = told /\ directory = here  OBVIOUS
<1>8. QED  BY <1>1, <1>2, <1>3, <1>4, <1>5, <1>6, <1>7 DEF PluginInv

\* A row is appended behind all others.
LEMMA AppendedRow ==
    ASSUME NEW S, NEW es \in Seq(S), NEW row, NEW s, NEW d
    PROVE  /\ row.session = s /\ row.dir = d => LastRow(Append(es, row), s, d)
           /\ row.session # s /\ LastRow(es, s, d) => LastRow(Append(es, row), s, d)
<1> DEFINE n == Len(es)
<1> DEFINE longer == Append(es, row)
<1>1. /\ n \in Nat /\ DOMAIN es = 1 .. n /\ DOMAIN longer = 1 .. (n + 1)
      /\ longer[n + 1] = row
      /\ \A i \in 1 .. n : longer[i] = es[i]
  OBVIOUS
<1> HIDE DEF longer
<1>2. row.session = s /\ row.dir = d => LastRow(longer, s, d)
  <2> SUFFICES ASSUME row.session = s, row.dir = d PROVE LastRow(longer, s, d)
    OBVIOUS
  <2>1. n + 1 \in DOMAIN longer /\ \A j \in DOMAIN longer : j <= n + 1  BY <1>1
  <2>2. QED  BY <1>1, <2>1 DEF LastRow
<1>3. row.session # s /\ LastRow(es, s, d) => LastRow(longer, s, d)
  <2> SUFFICES ASSUME row.session # s, LastRow(es, s, d) PROVE LastRow(longer, s, d)
    OBVIOUS
  <2>1. PICK i \in 1 .. n : /\ es[i].session = s /\ es[i].dir = d
                            /\ \A j \in 1 .. n : es[j].session = s => j <= i
    BY <1>1 DEF LastRow
  <2>2. \A j \in DOMAIN longer : longer[j].session = s => j <= i
    <3>1. \A j \in DOMAIN longer : j = n + 1 \/ j \in 1 .. n  BY <1>1
    <3>2. QED  BY <1>1, <2>1, <3>1
  <2>3. i \in DOMAIN longer  BY <1>1
  <2>4. QED  BY <1>1, <2>1, <2>2, <2>3 DEF LastRow
<1>4. QED  BY <1>2, <1>3 DEF longer

\* Every event keeps the invariant.
LEMMA StepPlugin == PluginInv /\ [PluginNext]_pluginVars => PluginInv'
<1> SUFFICES ASSUME PluginInv, [PluginNext]_pluginVars PROVE PluginInv'
  OBVIOUS
<1> USE SafeAssumption DEF PluginInv, Event, appendSessionLine, buffers, filed
<1>1. ASSUME NEW s \in PluginSessions, NEW m \in Messages, MessageUpdated(s, m) PROVE PluginInv'
  BY <1>1 DEF MessageUpdated, trackAssistantMessage
<1>2. ASSUME NEW s \in PluginSessions, NEW m \in Messages, NEW t \in Texts, bufferTextPart(s, m, t)
      PROVE PluginInv'
  BY <1>2 DEF bufferTextPart
<1>3. ASSUME NEW s \in PluginSessions, NEW type, NEW args, OneLine(s, type, args) PROVE PluginInv'
  BY <1>3 DEF OneLine
<1>4. ASSUME NEW s \in PluginSessions, SessionIdle(s) \/ SessionError(s) PROVE PluginInv'
  <2>1. /\ assistants' = [assistants EXCEPT ![s] = {}]
        /\ texts' = [texts EXCEPT ![s] = Untold] /\ told' = [told EXCEPT ![s] = Untold]
        /\ UNCHANGED <<directory, entered, here>>
    BY <1>4 DEF SessionIdle, SessionError, clearAssistantBuffers
  <2>2. /\ DOMAIN lines' = PluginSessions /\ lost' \in BOOLEAN /\ (lost => lost')
    BY <1>4 DEF SessionIdle, SessionError
  <2>3. Untold \in [Messages -> Texts \cup {NoText}]  BY DEF Untold
  <2>4. texts' \in [PluginSessions -> [Messages -> Texts \cup {NoText}]]  BY <2>1, <2>3
  <2>5. assistants' \in [PluginSessions -> SUBSET {m \in Messages : Role[m] = "assistant"}]  BY <2>1
  <2>6. texts' = told'  BY <2>1
  <2>7. ~lost' => \A q \in SafeSessions : here'[q] # NoDirectory => LastRow(entered', q, here'[q])
    <3>1. ~lost' => ~lost  BY <2>2
    <3>2. QED  BY <2>1, <3>1
  <2>8. /\ directory' = here' /\ here' \in [PluginSessions -> Directories \cup {NoDirectory}]
        /\ entered' \in Seq(Rows)
    BY <2>1
  <2>9. QED  BY <2>2, <2>4, <2>5, <2>6, <2>7, <2>8
<1>5. ASSUME NEW s \in PluginSessions, NEW new \in BOOLEAN, NEW d \in Directories,
             handleSessionInfo(s, new, d)
      PROVE PluginInv'
  <2>1. PICK row \in BOOLEAN :
           /\ here' = [here EXCEPT ![s] = d]
           /\ directory' = IF Enters(s, new, d) THEN [directory EXCEPT ![s] = d] ELSE directory
           /\ entered' = IF row THEN Append(entered, [session |-> s, dir |-> d]) ELSE entered
           /\ DOMAIN lines' = PluginSessions /\ lost' \in BOOLEAN /\ (lost => lost')
           /\ ~lost' => (row <=> Enters(s, new, d) /\ sessionFilename(s))
           /\ UNCHANGED <<assistants, texts, told>>
    <3>1. PICK r, kept :
             LET rows_ == IF Enters(s, new, d) /\ sessionFilename(s) THEN {TRUE} ELSE {}
                 line == IF sessionFilename(s) THEN {sanitizeEventData("session", {})} ELSE {}
             IN /\ entered' = IF r # {} THEN Append(entered, [session |-> s, dir |-> d]) ELSE entered
                /\ lines' = [lines EXCEPT ![s] = kept]
                /\ lost' = (lost \/ r # rows_ \/ kept # line)
      BY <1>5 DEF handleSessionInfo
    <3>2. QED  BY <1>5, <3>1 DEF handleSessionInfo
  <2>2. directory' = here'  BY <2>1 DEF Enters
  <2>3. here' \in [PluginSessions -> Directories \cup {NoDirectory}]  BY <2>1
  <2>4. entered' \in Seq(Rows)
    <3>1. [session |-> s, dir |-> d] \in Rows  BY DEF Rows
    <3>2. QED  BY <2>1, <3>1
  <2>5. ASSUME ~lost', NEW q \in SafeSessions, here'[q] # NoDirectory
        PROVE  LastRow(entered', q, here'[q])
    <3> DEFINE added == [session |-> s, dir |-> d]
    <3>1. /\ (added.session = s /\ added.dir = d)
          /\ (q = s => here'[q] = d) /\ (q # s => here'[q] = here[q])
      BY <2>1
    <3>2. /\ q = s => LastRow(Append(entered, added), q, d)
          /\ q # s /\ LastRow(entered, q, here[q]) => LastRow(Append(entered, added), q, here[q])
      BY <3>1, AppendedRow
    <3>3. q # s \/ ~row => LastRow(entered, q, here[q]) /\ here'[q] = here[q]
      <4>1. ~lost  BY <2>1, <2>5
      <4>2. CASE q # s  BY <2>5, <3>1, <4>1, <4>2
      <4>3. CASE q = s /\ ~row
        <5>1. ~Enters(s, new, d)  BY <2>1, <2>5, <4>3 DEF sessionFilename
        <5>2. here[q] = d  BY <4>3, <5>1 DEF Enters
        <5>3. here'[q] = here[q]  BY <3>1, <4>3, <5>2
        <5>4. QED  BY <2>5, <4>1, <5>3
      <4>4. QED  BY <4>2, <4>3
    <3>4. CASE row
      <4>1. entered' = Append(entered, added)  BY <2>1, <3>4
      <4>2. CASE q = s  BY <3>1, <3>2, <4>1, <4>2
      <4>3. CASE q # s  BY <3>2, <3>3, <4>1, <4>3
      <4>4. QED  BY <4>2, <4>3
    <3>5. CASE ~row  BY <2>1, <3>3, <3>5
    <3>6. QED  BY <3>4, <3>5
  <2>6. UNCHANGED <<assistants, texts, told>> /\ DOMAIN lines' = PluginSessions /\ lost' \in BOOLEAN
    BY <2>1
  <2>7. QED  BY <2>2, <2>3, <2>4, <2>5, <2>6
<1>6. CASE UNCHANGED pluginVars  BY <1>6 DEF pluginVars
<1>7. QED  BY <1>1, <1>2, <1>3, <1>4, <1>5, <1>6 DEF PluginNext

\* What an assistant was told to have said in this turn.
Answers(s) == {told[s][m] : m \in {n \in Messages : Role[n] = "assistant"}} \ {NoText}

Answered == \A s \in PluginSessions : lines'[s] # lines[s] => \A line \in lines'[s] : line.text \subseteq Answers(s)

\* Of lines that have but answers of their session any may be lost.
LEMMA AnswersAppended ==
    ASSUME PluginInv, NEW s \in PluginSessions, NEW new, appendSessionLine(s, new),
           \A line \in new : line.text \subseteq Answers(s)
    PROVE  Answered
<1>1. PICK kept : lines' = [lines EXCEPT ![s] = kept] /\ kept \subseteq new
  BY DEF appendSessionLine
<1>2. QED  BY <1>1 DEF Answered, PluginInv

\* No event writes anything else.
LEMMA StepAnswers == PluginInv /\ [PluginNext]_pluginVars => [Answered]_pluginVars
<1> SUFFICES ASSUME PluginInv, PluginNext PROVE Answered
  BY DEF Answered
<1>0. \A type, args : sanitizeEventData(type, args).text = {}  BY DEF sanitizeEventData
<1>1. ASSUME NEW s \in PluginSessions, NEW m \in Messages, MessageUpdated(s, m) PROVE Answered
  <2>1. appendSessionLine(s, {sanitizeEventData("message.updated", {})})  BY <1>1 DEF MessageUpdated
  <2>2. QED  BY <1>0, <2>1, AnswersAppended
<1>2. ASSUME NEW s \in PluginSessions, NEW m \in Messages, NEW t \in Texts, bufferTextPart(s, m, t)
      PROVE Answered
  BY <1>2 DEF bufferTextPart, Answered
<1>3. ASSUME NEW s \in PluginSessions, NEW type, NEW args, OneLine(s, type, args) PROVE Answered
  <2>1. appendSessionLine(s, {sanitizeEventData(type, args)})  BY <1>3 DEF OneLine
  <2>2. QED  BY <1>0, <2>1, AnswersAppended
<1>4. ASSUME NEW s \in PluginSessions, SessionIdle(s) PROVE Answered
  <2> DEFINE answer == flushAssistantText(s)
             said == IF answer = {} THEN {} ELSE {[type |-> "assistant.text", text |-> answer, args |-> {}]}
  <2>1. answer \subseteq Answers(s)
    BY DEF flushAssistantText, Answers, PluginInv
  <2>2. appendSessionLine(s, said \cup {sanitizeEventData("session.idle", {})})
    BY <1>4 DEF SessionIdle
  <2>3. \A line \in said \cup {sanitizeEventData("session.idle", {})} : line.text \subseteq Answers(s)
    BY <1>0, <2>1
  <2> HIDE DEF said
  <2>4. QED  BY <2>2, <2>3, AnswersAppended
<1>5. ASSUME NEW s \in PluginSessions, SessionError(s) PROVE Answered
  <2>1. appendSessionLine(s, {sanitizeEventData("session.error", {})})  BY <1>5 DEF SessionError
  <2>2. QED  BY <1>0, <2>1, AnswersAppended
<1>6. ASSUME NEW s \in PluginSessions, NEW new \in BOOLEAN, NEW d \in Directories,
             handleSessionInfo(s, new, d)
      PROVE Answered
  <2> DEFINE due == IF sessionFilename(s) THEN {sanitizeEventData("session", {})} ELSE {}
  <2>1. PICK kept : lines' = [lines EXCEPT ![s] = kept] /\ kept \subseteq due
    <3>1. \E kept \in SUBSET due : lines' = [lines EXCEPT ![s] = kept]
      BY <1>6 DEF handleSessionInfo
    <3>2. QED  BY <3>1
  <2>2. \A line \in kept : line.text = {}  BY <1>0, <2>1
  <2>3. QED  BY <2>1, <2>2 DEF Answered, PluginInv
<1>7. QED  BY <1>1, <1>2, <1>3, <1>4, <1>5, <1>6 DEF PluginNext

-----------------------------------------------------------------------------
(* The session of an OpenCode pane.                                        *)

IndexRows == [session : OcSessions, pid : OcPanes \X {"agent", "shell"}, dir : {DirOf[p] : p \in OcPanes}]

\* The rows of a pane's own agent have a last one.
HasLast(p) == OfAgent(p) # {} => \E i \in OfAgent(p) : \A j \in OfAgent(p) : j <= i

HasRow(p) == \E i \in DOMAIN index : i > seenAt[p] /\ index[i].dir = DirOf[p] /\ OwnerOf[index[i].session] = p

OfItsServer(row) == row.pid[2] = "agent" => row.pid[1] = OwnerOf[row.session]

\* A row of an agent's own process is of its server's session, and a pane whose
\* declared session had a file has a row of its own, appended since it was first
\* seen, with its own directory.
OpenCodeInv ==
    /\ index \in Seq(IndexRows)
    /\ \A i \in DOMAIN index : OfItsServer(index[i])
    /\ declared \in [OcPanes -> OcSessions \cup {NoOcSession}] /\ seenAt \in [OcPanes -> Nat]
    /\ \A p \in OcPanes : seenAt[p] <= Len(index) /\ HasLast(p)
    /\ \A p \in OcPanes : declared[p] # NoOcSession => OwnerOf[declared[p]] = p
    /\ binds \in [OcPanes -> [step : {"seed", "locate", "bound"}, seeded : BOOLEAN,
                              found : OcSessions \cup {NoOcSession}]]
    /\ \A p \in OcPanes : binds[p].step = "locate" /\ binds[p].seeded => HasRow(p)
    /\ OpenCodeOwn

\* No pane has been seen, and the index is empty.
LEMMA OpenCodeInitInv == OcInit => OpenCodeInv
<1> SUFFICES ASSUME OcInit PROVE OpenCodeInv
  OBVIOUS
<1> USE DEF OcInit, Unbound
<1>1. index \in Seq(IndexRows)
  OBVIOUS
<1>2. \A p \in OcPanes : HasLast(p)  BY DEF HasLast, OfAgent, FreshRows
<1>3. QED  BY <1>1, <1>2 DEF OpenCodeInv, OpenCodeOwn

\* What is appended takes no row away.
LEMMA OneRowMore ==
    ASSUME OpenCodeInv, NEW row \in IndexRows, OfItsServer(row), index' = Append(index, row),
           UNCHANGED seenAt
    PROVE  /\ index' \in Seq(IndexRows) /\ \A i \in DOMAIN index' : OfItsServer(index'[i])
           /\ \A p \in OcPanes : seenAt'[p] <= Len(index') /\ HasLast(p)'
           /\ \A p \in OcPanes : HasRow(p) => HasRow(p)'
           /\ \A p \in OcPanes : row.dir = DirOf[p] /\ OwnerOf[row.session] = p => HasRow(p)'
<1> DEFINE n == Len(index)
<1>1. /\ n \in Nat /\ DOMAIN index = 1 .. n /\ DOMAIN index' = 1 .. (n + 1) /\ Len(index') = n + 1
      /\ index'[n + 1] = row /\ index' \in Seq(IndexRows)
      /\ \A i \in 1 .. n : index'[i] = index[i]
  BY DEF OpenCodeInv
<1>2. \A i \in DOMAIN index' : i = n + 1 \/ i \in 1 .. n  BY <1>1
<1>3. \A i \in DOMAIN index' : OfItsServer(index'[i])  BY <1>1, <1>2 DEF OpenCodeInv
<1>4. \A p \in OcPanes : seenAt'[p] <= n /\ n < n + 1 /\ seenAt'[p] <= n + 1 /\ n + 1 > seenAt'[p]
  BY <1>1 DEF OpenCodeInv
<1>5. ASSUME NEW p \in OcPanes, HasRow(p) PROVE HasRow(p)'
  BY <1>1, <1>5 DEF HasRow
<1>6. ASSUME NEW p \in OcPanes, row.dir = DirOf[p], OwnerOf[row.session] = p PROVE HasRow(p)'
  BY <1>1, <1>4, <1>6 DEF HasRow
<1>7. ASSUME NEW p \in OcPanes PROVE HasLast(p)'
  <2>1. \A i \in DOMAIN index' : i <= n + 1  BY <1>1
  <2>2. CASE row.pid = <<p, "agent">>
    <3>1. n + 1 \in OfAgent(p)'  BY <1>1, <1>4, <2>2 DEF OfAgent, FreshRows
    <3>2. QED  BY <2>1, <3>1 DEF HasLast, OfAgent, FreshRows
  <2>3. CASE row.pid # <<p, "agent">>
    <3>1. OfAgent(p)' = OfAgent(p)  BY <1>1, <1>2, <2>3 DEF OfAgent, FreshRows
    <3>2. QED  BY <3>1 DEF HasLast, OpenCodeInv
  <2>4. QED  BY <2>2, <2>3
<1>8. QED  BY <1>1, <1>3, <1>4, <1>5, <1>6, <1>7

\* Sessions of finitely many rows are finitely many.
LEMMA FewSessions ==
    ASSUME OpenCodeInv, NEW I \in SUBSET DOMAIN index
    PROVE  IsFiniteSet(SessionsOf(I))
<1> DEFINE f == [i \in I |-> index[i].session]
<1>1. DOMAIN index = 1 .. Len(index) /\ Len(index) \in Nat  BY DEF OpenCodeInv
<1>2. IsFiniteSet(1 .. Len(index))  BY <1>1, FS_Interval
<1>3. IsFiniteSet(I)  BY <1>1, <1>2, FS_Subset
<1>4. f \in Surjection(I, SessionsOf(I))  BY DEF Surjection, SessionsOf
<1> HIDE DEF f
<1>5. QED  BY <1>3, <1>4, FS_Surjection

\* The locator answers with a session of the index, of a pane whose row is there
\* with its own.
LEMMA Resolves ==
    ASSUME OpenCodeInv, NEW p \in OcPanes, NEW s \in Resolve(p)
    PROVE  s \in OcSessions /\ (HasRow(p) => OwnerOf[s] = p)
<1>1. \A i \in DOMAIN index : index[i] \in IndexRows  BY DEF OpenCodeInv
<1>2. CASE OfAgent(p) # {}
  <2> DEFINE last == CHOOSE i \in OfAgent(p) : \A j \in OfAgent(p) : j <= i
  <2>1. last \in OfAgent(p)  BY <1>2 DEF OpenCodeInv, HasLast
  <2>2. s = index[last].session  BY <1>2 DEF Resolve, LastOf
  <2>3. last \in DOMAIN index /\ index[last].pid = <<p, "agent">>
    BY <2>1 DEF OfAgent, FreshRows
  <2>4. OfItsServer(index[last]) /\ index[last] \in IndexRows  BY <1>1, <2>3 DEF OpenCodeInv
  <2> HIDE DEF last
  <2>5. QED  BY <2>2, <2>3, <2>4 DEF OfItsServer, IndexRows
<1>3. CASE OfAgent(p) = {}
  <2>1. s \in SessionsOf(OfDir(p)) /\ Cardinality(SessionsOf(OfDir(p))) = 1
    BY <1>3 DEF Resolve, ResolveByCwd
  <2>2. IsFiniteSet(SessionsOf(OfDir(p)))  BY FewSessions DEF OfDir, FreshRows
  <2>3. \A t \in SessionsOf(OfDir(p)) : t = s  BY <2>1, <2>2, FS_Singleton
  <2>4. s \in OcSessions  BY <1>1, <2>1 DEF SessionsOf, OfDir, FreshRows, IndexRows
  <2>5. HasRow(p) => OwnerOf[s] = p  BY <2>3 DEF HasRow, SessionsOf, OfDir, FreshRows
  <2>6. QED  BY <2>4, <2>5
<1>4. QED  BY <1>2, <1>3

\* Which rows a pane has depends on the index, and on when the pane was first seen.
LEMMA SameRows ==
    UNCHANGED <<index, seenAt>> =>
       \A p \in OcPanes : (HasRow(p)' <=> HasRow(p)) /\ (HasLast(p)' <=> HasLast(p))
  BY DEF HasRow, HasLast, OfAgent, FreshRows

\* Rows are only appended, and a pane that is seen again is bound again.
LEMMA StepOpenCode == OpenCodeInv /\ [OcNext]_ocVars => OpenCodeInv'
<1> SUFFICES ASSUME OpenCodeInv, [OcNext]_ocVars PROVE OpenCodeInv'
  OBVIOUS
<1> USE OwnerAssumption DEF OpenCodeInv, Unbound
<1>1. CASE DaemonRestart
  <2>1. /\ seenAt' = [p \in OcPanes |-> Len(index)] /\ binds' = [p \in OcPanes |-> Unbound]
        /\ UNCHANGED <<index, bridged, declared>>
    BY <1>1 DEF DaemonRestart
  <2>2. DOMAIN index = 1 .. Len(index) /\ Len(index) \in Nat  OBVIOUS
  <2>3. \A p \in OcPanes : OfAgent(p)' = {}
    BY <2>1, <2>2 DEF OfAgent, FreshRows
  <2>4. \A p \in OcPanes : seenAt'[p] <= Len(index') /\ HasLast(p)'
    BY <2>1, <2>2, <2>3 DEF HasLast
  <2>5. QED  BY <2>1, <2>2, <2>4 DEF OpenCodeOwn
<1>2. ASSUME NEW s \in OcSessions, SessionRow(s) PROVE OpenCodeInv'
  <2> DEFINE row == IndexRowOf(s, <<OwnerOf[s], "agent">>)
  <2>1. row \in IndexRows /\ OfItsServer(row)  BY DEF IndexRowOf, IndexRows, OfItsServer
  <2>2. index' = Append(index, row) /\ UNCHANGED <<declared, seenAt, binds>>
    BY <1>2 DEF SessionRow
  <2> HIDE DEF row
  <2>3. QED  BY <2>1, <2>2, OneRowMore DEF OpenCodeOwn
<1>3. ASSUME NEW s \in OcSessions, Declare(s) PROVE OpenCodeInv'
  <2> DEFINE p == OwnerOf[s]
  <2>1. /\ p \in OcPanes /\ declared' = [declared EXCEPT ![p] = s] /\ binds' = [binds EXCEPT ![p] = Unbound]
        /\ UNCHANGED <<index, bridged, seenAt>>
    BY <1>3 DEF Declare
  <2> HIDE DEF p
  <2>2. declared' \in [OcPanes -> OcSessions \cup {NoOcSession}]  BY <2>1
  <2>3. binds' \in [OcPanes -> [step : {"seed", "locate", "bound"}, seeded : BOOLEAN,
                               found : OcSessions \cup {NoOcSession}]]
    BY <2>1
  <2>4. \A q \in OcPanes : declared'[q] # NoOcSession => OwnerOf[declared'[q]] = q  BY <2>1 DEF p
  <2>5. OpenCodeOwn'  BY <2>1 DEF OpenCodeOwn
  <2>6. \A q \in OcPanes : (HasRow(q)' <=> HasRow(q)) /\ (HasLast(q)' <=> HasLast(q))
    BY <2>1, SameRows
  <2>7. \A q \in OcPanes : binds'[q].step = "locate" /\ binds'[q].seeded => HasRow(q)'
    BY <2>1, <2>6
  <2>8. QED  BY <2>1, <2>2, <2>3, <2>4, <2>5, <2>6, <2>7
<1>4. ASSUME NEW p \in OcPanes, Seed(p) PROVE OpenCodeInv'
  <2>1. /\ declared[p] \in OcSessions /\ OwnerOf[declared[p]] = p
        /\ binds' = [binds EXCEPT ![p] = [step |-> "locate", seeded |-> declared[p] \in bridged, found |-> NoOcSession]]
        /\ UNCHANGED <<declared, seenAt>>
    BY <1>4 DEF Seed
  <2>2. OpenCodeOwn'  BY <2>1 DEF OpenCodeOwn
  <2>3. binds' \in [OcPanes -> [step : {"seed", "locate", "bound"}, seeded : BOOLEAN,
                               found : OcSessions \cup {NoOcSession}]]
    BY <2>1
  <2>4. CASE declared[p] \in bridged
    <3> DEFINE row == IndexRowOf(declared[p], <<p, "shell">>)
    <3>1. row \in IndexRows /\ OfItsServer(row) /\ row.dir = DirOf[p] /\ row.session = declared[p]
      BY <2>1 DEF IndexRowOf, IndexRows, OfItsServer
    <3>2. index' = Append(index, row)  BY <1>4, <2>4 DEF Seed
    <3> HIDE DEF row
    <3>3. HasRow(p)'  BY <2>1, <3>1, <3>2, OneRowMore
    <3>4. QED  BY <2>1, <2>2, <2>3, <3>1, <3>2, <3>3, OneRowMore
  <2>5. CASE declared[p] \notin bridged
    <3>1. UNCHANGED <<index, seenAt>>  BY <1>4, <2>5 DEF Seed
    <3>2. \A q \in OcPanes : q # p => binds'[q] = binds[q]  BY <2>1
    <3>3. ~binds'[p].seeded
      <4>1. binds'[p] = [step |-> "locate", seeded |-> declared[p] \in bridged, found |-> NoOcSession]  BY <2>1
      <4>2. binds'[p].seeded = (declared[p] \in bridged)  BY <4>1
      <4>3. QED  BY <2>5, <4>2, Zenon
    <3>4. QED  BY <2>1, <2>2, <2>3, <3>1, <3>2, <3>3, SameRows
  <2>6. QED  BY <2>4, <2>5
<1>5. ASSUME NEW p \in OcPanes, OcLocate(p) PROVE OpenCodeInv'
  <2>1. UNCHANGED <<index, bridged, declared, seenAt>> /\ binds[p].step = "locate"
    BY <1>5 DEF OcLocate
  <2>2. CASE binds' = [binds EXCEPT ![p] = Unbound]  BY <2>1, <2>2, SameRows DEF OpenCodeOwn
  <2>3. ASSUME NEW s \in Resolve(p), binds' = [binds EXCEPT ![p].step = "bound", ![p].found = s]
        PROVE  OpenCodeInv'
    <3>1. s \in OcSessions /\ (HasRow(p) => OwnerOf[s] = p)  BY <2>3, Resolves
    <3>2. binds'[p] = [step |-> "bound", seeded |-> binds[p].seeded, found |-> s]
      BY <2>3
    <3>3. \A q \in OcPanes : q # p => binds'[q] = binds[q]  BY <2>3
    <3>4. binds' \in [OcPanes -> [step : {"seed", "locate", "bound"}, seeded : BOOLEAN,
                                 found : OcSessions \cup {NoOcSession}]]
      BY ZenonT(30), <2>3, <3>1
    <3>5. OpenCodeOwn'
      <4>1. binds'[p].seeded => OwnerOf[binds'[p].found] = p
        <5>1. binds[p].seeded => HasRow(p)  BY <2>1
        <5>2. QED  BY <3>1, <3>2, <5>1
      <4>2. QED  BY <3>3, <4>1 DEF OpenCodeOwn
    <3>6. QED  BY <2>1, <3>2, <3>3, <3>4, <3>5, SameRows
  <2>4. QED  BY <1>5, <2>2, <2>3 DEF OcLocate
<1>6. CASE UNCHANGED ocVars  BY <1>6, SameRows DEF ocVars, OpenCodeOwn
<1>7. QED  BY <1>1, <1>2, <1>3, <1>4, <1>5, <1>6 DEF OcNext

-----------------------------------------------------------------------------
(* The rollout of a Codex pane.                                            *)

Spots == {"tables", "fds", "rows", "argv", "logs", "thread", "recent", "scan", "bound", "failed"}
Attaches == [step : Spots, tries : Nat, logs : BOOLEAN, fds : SUBSET Rollouts,
             thread : Rollouts \cup {NoRollout}, bound : Rollouts \cup {NoRollout}]

\* What an attempt knows: a locator that read open files goes on with their rows, binds
\* one of them or gives up, every other way begins where none was read; and what the log
\* named the process has open.
Sound ==
    /\ attach \in Attaches
    /\ attach.fds # {} => attach.step \in {"rows", "bound", "failed"}
    /\ attach.step = "thread" => attach.thread \in held
    /\ attach.step \notin {"thread", "bound", "failed"} => attach.thread = NoRollout

\* What a process writes, logs or has written it has open.
CodexInv ==
    /\ held \subseteq touched /\ touched \subseteq Rollouts
    /\ active \in held \cup {NoRollout} /\ logged \in held \cup {NoRollout}
    /\ argv \in Rollouts \cup {NoRollout}
    /\ rows \in [Rollouts -> Nat] /\ stamp \in Nat
    /\ Sound

\* No file was read and none is bound.
LEMMA CodexInitInv == CodexInit => CodexInv
  BY RolloutAssumption DEF CodexInit, CodexInv, Sound, Fresh, Attaches, Spots, PtyStart

\* The one element of a set.
LEMMA TheOne ==
    ASSUME NEW S \in SUBSET Rollouts, Cardinality(S) = 1
    PROVE  (CHOOSE r \in S : TRUE) \in S /\ S = {CHOOSE r \in S : TRUE}
<1>1. S # {}  BY FS_EmptySet
<1>2. IsFiniteSet(S)  BY RolloutAssumption, FS_Subset
<1>3. PICK r : S = {r}  BY <1>2, FS_Singleton
<1>4. QED  BY <1>1, <1>3

\* An attempt that is not ready, or that gives up, binds nothing.
LEMMA NotReadyIsSound == CodexInv /\ (NotYetReady \/ GivesUp) => Sound' /\ attach'.step # "bound"
<1> SUFFICES ASSUME CodexInv, NotYetReady \/ GivesUp PROVE Sound' /\ attach'.step # "bound"
  OBVIOUS
<1> USE DEF CodexInv, Sound, Attaches, Spots
<1>1. CASE attach' = [attach EXCEPT !.step = "failed"]
  BY <1>1
<1>2. CASE attach' = [Fresh EXCEPT !.tries = attach.tries + 1]
  <2>1. attach.tries + 1 \in Nat  OBVIOUS
  <2>2. attach' = [step |-> "tables", tries |-> attach.tries + 1, logs |-> FALSE, fds |-> {}, thread |-> NoRollout,
                   bound |-> NoRollout]
    BY <1>2 DEF Fresh
  <2>3. QED  BY <2>1, <2>2
<1>3. QED  BY <1>1, <1>2 DEF NotYetReady, GivesUp, Goes

\* What is bound is what was chosen, and nothing else of the attempt changes.
LEMMA BoundIsSound ==
    ASSUME CodexInv, NEW r \in Rollouts, Bound(r)
    PROVE  Sound' /\ attach'.bound = r
  BY DEF Bound, CodexInv, Sound, Attaches, Spots

\* One of several candidates is chosen only if it is the only one of the directory, or
\* the only one.
LEMMA ChosenIsSound ==
    ASSUME CodexInv, NEW S \in SUBSET Rollouts, Choose(S)
    PROVE  /\ Sound'
           /\ attach'.step = "bound" =>
                LET r == attach'.bound
                IN  r \in S /\ (S \cap Here = {r} \/ (r \notin Here /\ S = {r}))
<1> DEFINE near == S \cap Here
<1>1. CASE Bound(CHOOSE r \in near : TRUE) /\ Cardinality(near) = 1
  <2> DEFINE r == CHOOSE r \in near : TRUE
  <2>1. near = {r} /\ r \in near  BY <1>1, TheOne
  <2> HIDE DEF r
  <2>2. Bound(r)  BY <1>1 DEF r
  <2>3. QED  BY <2>1, <2>2, BoundIsSound
<1>2. CASE near = {} /\ Bound(CHOOSE r \in S : TRUE) /\ Cardinality(S) = 1
  <2> DEFINE r == CHOOSE r \in S : TRUE
  <2>1. S = {r} /\ r \in S  BY <1>2, TheOne
  <2> HIDE DEF r
  <2>2. Bound(r)  BY <1>2 DEF r
  <2>3. QED  BY <1>2, <2>1, <2>2, BoundIsSound
<1>3. CASE NotYetReady \/ GivesUp  BY <1>3, NotReadyIsSound
<1>4. QED  BY <1>1, <1>2, <1>3 DEF Choose

\* A step of the locator keeps what an attempt knows, and what it binds is told to be
\* the process's, or is guessed where nothing is told.
LEMMA StepLocate ==
    ASSUME CodexInv, UNCHANGED processVars, Locate
    PROVE  Sound' /\ CodexTakes
<1> USE DEF CodexInv, processVars
<1>1. CASE Discover
  <2> DEFINE step == IF "threads" \in tables THEN "fds" ELSE "scan"
             logs == "logs" \in tables
  <2>1. attach.step = "tables" /\ attach' = [attach EXCEPT !.step = step, !.logs = logs]
    BY <1>1 DEF Discover, At
  <2>2. step \in {"fds", "scan"} /\ logs \in BOOLEAN  OBVIOUS
  <2> HIDE DEF step, logs
  <2>3. QED  BY <2>1, <2>2 DEF Sound, Attaches, Spots, CodexTakes
<1>2. CASE ReadFds
  <2>1. PICK fds \in {held, {}} :
          attach' = [attach EXCEPT !.step = IF fds = {} THEN "argv" ELSE "rows", !.fds = fds]
    BY <1>2 DEF ReadFds
  <2>2. attach.step = "fds" /\ fds \subseteq Rollouts  BY <1>2, <2>1 DEF ReadFds, At
  <2>3. QED  BY <2>1, <2>2 DEF Sound, Attaches, Spots, CodexTakes
<1>3. CASE QueryRows
  <2>1. CASE NotYetReady  BY <2>1, NotReadyIsSound DEF CodexTakes
  <2>2. CASE Cardinality(NewestOf(WithRow)) = 1 /\ Bound(CHOOSE r \in NewestOf(WithRow) : TRUE)
    <3> DEFINE r == CHOOSE r \in NewestOf(WithRow) : TRUE
    <3>1. attach.fds \subseteq Rollouts  BY DEF Sound, Attaches
    <3>2. NewestOf(WithRow) \subseteq Rollouts  BY <3>1 DEF NewestOf, WithRow
    <3>3. r \in NewestOf(WithRow)  BY <2>2, <3>2, TheOne
    <3>4. r \in attach.fds /\ rows[r] > 0 /\ \A q \in WithRow : rows[q] <= rows[r]
      BY <3>3 DEF NewestOf, WithRow
    <3>5. ASSUME NEW h \in attach.fds PROVE rows[h] <= rows[r]
      <4>1. rows[h] \in Nat /\ rows[r] \in Nat  BY <3>1, <3>4
      <4>2. CASE rows[h] > 0  BY <3>4, <4>2 DEF WithRow
      <4>3. QED  BY <3>4, <4>1, <4>2
    <3> HIDE DEF r
    <3>6. Bound(r)  BY <2>2 DEF r
    <3>7. r \in NewestOf(attach.fds)  BY <3>4, <3>5 DEF NewestOf
    <3>8. QED  BY <3>1, <3>4, <3>6, <3>7, BoundIsSound DEF CodexTakes
  <2>3. QED  BY <1>3, <2>1, <2>2 DEF QueryRows
<1>4. CASE ResumeArg
  <2>1. attach.step = "argv" /\ attach.fds = {}  BY <1>4 DEF ResumeArg, At, Sound
  <2>2. CASE argv # NoRollout /\ Bound(argv)  BY <2>1, <2>2, BoundIsSound DEF CodexTakes
  <2>3. CASE Goes("logs") \/ Goes("scan")
    BY <2>1, <2>3 DEF Goes, Sound, Attaches, Spots, CodexTakes
  <2>4. QED  BY <1>4, <2>2, <2>3 DEF ResumeArg
<1>5. CASE QueryLogs
  BY <1>5 DEF QueryLogs, At, Sound, Attaches, Spots, CodexTakes
<1>6. CASE QueryThread
  <2>1. attach.fds = {} /\ attach.thread \in held /\ held \subseteq Rollouts
    BY <1>6 DEF QueryThread, At, Sound
  <2>2. CASE Bound(attach.thread)  BY <2>1, <2>2, BoundIsSound DEF CodexTakes
  <2>3. CASE NotYetReady  BY <2>3, NotReadyIsSound DEF CodexTakes
  <2>4. QED  BY <1>6, <2>2, <2>3 DEF QueryThread
<1>7. CASE Recent
  <2> DEFINE S == {r \in Rollouts : rows[r] >= PtyStart}
  <2>1. attach.step = "recent" /\ attach.thread = NoRollout /\ attach.fds = {} /\ Choose(S)
    BY <1>7 DEF Recent, At, Sound
  <2>2. /\ Sound'
        /\ attach'.step = "bound" =>
             LET r == attach'.bound
             IN  r \in S /\ (S \cap Here = {r} \/ (r \notin Here /\ S = {r}))
    BY <2>1, ChosenIsSound
  <2>3. held \subseteq Rollouts  OBVIOUS
  <2>4. QED  BY <2>1, <2>2, <2>3 DEF CodexTakes, Guess
<1>8. CASE Scan
  <2> DEFINE S == touched \cap Here
  <2>1. attach.step = "scan" /\ attach.thread = NoRollout /\ attach.fds = {} /\ Choose(S)
    BY <1>8 DEF Scan, At, Sound
  <2>2. /\ Sound'
        /\ attach'.step = "bound" =>
             LET r == attach'.bound
             IN  r \in S /\ (S \cap Here = {r} \/ (r \notin Here /\ S = {r}))
    BY <2>1, ChosenIsSound
  <2>3. QED  BY <2>1, <2>2 DEF CodexTakes, Guess
<1>9. CASE FdsFail \/ Fatal
  BY <1>9, NotReadyIsSound DEF FdsFail, Fatal, CodexTakes
<1>10. CASE Relocate
  BY <1>10 DEF Relocate, Fresh, Sound, Attaches, Spots, CodexTakes
<1>11. QED  BY <1>1, <1>2, <1>3, <1>4, <1>5, <1>6, <1>7, <1>8, <1>9, <1>10 DEF Locate

\* Codex goes on beside the locator: it opens files and closes none.
LEMMA StepCodex == CodexInv /\ [CodexNext]_codexVars => CodexInv' /\ [CodexTakes]_codexVars
<1> SUFFICES ASSUME CodexInv, [CodexNext]_codexVars PROVE CodexInv' /\ [CodexTakes]_codexVars
  OBVIOUS
<1> USE RolloutAssumption DEF CodexInv, processVars
<1>1. ASSUME UNCHANGED attach, held \subseteq held' PROVE Sound' /\ CodexTakes
  BY <1>1 DEF Sound, CodexTakes
<1>2. ASSUME NEW r \in Rollouts, OpenRollout(r) PROVE CodexInv' /\ CodexTakes
  BY <1>1, <1>2 DEF OpenRollout
<1>3. ASSUME NEW r \in Rollouts, UpdateRow(r) PROVE CodexInv' /\ CodexTakes
  BY <1>1, <1>3 DEF UpdateRow
<1>4. CASE LogRow  BY <1>1, <1>4 DEF LogRow
<1>5. ASSUME NEW t, CreateTable(t) PROVE CodexInv' /\ CodexTakes
  BY <1>1, <1>5 DEF CreateTable
<1>6. CASE UNCHANGED codexVars  BY <1>1, <1>6 DEF codexVars
<1>7. CASE Locate
  <2>1. UNCHANGED processVars
    BY <1>7 DEF Locate, Discover, ReadFds, FdsFail, QueryRows, ResumeArg, QueryLogs, QueryThread, Recent, Scan,
       Fatal, Relocate, At
  <2>2. QED  BY <1>7, <2>1, StepLocate
<1>8. QED  BY <1>2, <1>3, <1>4, <1>5, <1>6, <1>7 DEF CodexNext, Codex

-----------------------------------------------------------------------------
(* The session of a Kimi pane.                                             *)

SupSteps == {"attach", "failed", "spawn", "look", "switch", "down"}
Wires == Sessions \X {"main", "sub"}

\* A time within the window in which a session was begun or resumed by another process.
Rival(s, t) == s \in written \/ <<s, t>> \in rivals

\* What was remembered of a session's resumption is of the process's own, or of another's
\* just then, and no line the log has is older.
Remembered(s) ==
    evidence[s] # None =>
       /\ evidence[s] <= now /\ InOwnWindow(evidence[s]) /\ created[s] # None /\ Rival(s, evidence[s])
       /\ \A t \in ResumeLines(s) : evidence[s] <= t

\* Whatever tells that a session is a process's is told of one the process had open, or of
\* one that another process began since, or resumed while this one began.
WorldInv ==
    /\ created \in [Sessions -> Nat] /\ now \in Nat /\ now >= ProcessStart
    /\ indexed \subseteq Sessions /\ written \subseteq Sessions
    /\ open \in written \cup {NoKimiSession}
    /\ reported \in Sessions \cup {NoKimiSession} /\ startKnown \in BOOLEAN
    /\ evidence \in [Sessions -> Nat]
    /\ \A s \in Sessions : created[s] <= now
    /\ \A s \in written : created[s] # None
    /\ \A s \in Sessions : CreatedInOwnWindow(s) => Rival(s, created[s])
    /\ resumed \subseteq Sessions \X Nat
    /\ \A s \in Sessions : \A t \in Nat :
          <<s, t>> \in resumed => t <= now /\ created[s] # None /\ (InOwnWindow(t) => Rival(s, t))
    /\ \A s \in Sessions : Remembered(s)

SupInv ==
    /\ sup \in [step : SupSteps, session : Sessions \cup {NoKimiSession}, tries : Nat]
    /\ sup.step \in {"spawn", "look", "switch"} => sup.session # NoKimiSession

\* As long as threads replay, each wire that was enrolled has its thread, and the
\* coordinator waits for as many as there are.
ThreadsInv ==
    /\ sup.step \in {"attach", "failed"} => children = <<>> /\ joint = NewJoint
    /\ joint \in [expected : Nat, done : SUBSET Wires, flushed : BOOLEAN, first : SUBSET Wires]
    /\ DOMAIN children \subseteq Wires /\ IsFiniteSet(DOMAIN children)
    /\ ~Stopping /\ ~joint.flushed =>
          /\ joint.expected = Cardinality(DOMAIN children)
          /\ joint.done \subseteq DOMAIN children /\ joint.first \subseteq DOMAIN children
    /\ OneSummary

KimiInv == WorldInv /\ SupInv /\ ThreadsInv

\* Nothing was written since the process began.
LEMMA KimiInitInv == KimiSessionInit => KimiInv
<1> SUFFICES ASSUME KimiSessionInit PROVE KimiInv
  OBVIOUS
<1> USE KimiAssumption DEF KimiSessionInit, ProcessStart, None
<1>1. WorldInv
  <2>1. created \in [Sessions -> 0 .. ProcessStart - 1]  OBVIOUS
  <2>2. \A s \in Sessions : \A t \in Nat : <<s, t>> \in resumed => t = ProcessStart - 1 /\ created[s] # None
    OBVIOUS
  <2>3. \A s \in Sessions : CreatedInOwnWindow(s) => Rival(s, created[s])  BY DEF Rival
  <2>4. \A s \in Sessions : Remembered(s)  BY DEF Remembered
  <2>5. resumed \subseteq Sessions \X Nat  OBVIOUS
  <2>6. \A s \in Sessions : created[s] \in Nat /\ created[s] <= now  BY <2>1
  <2>7. \A s \in Sessions : \A t \in Nat :
           <<s, t>> \in resumed => t <= now /\ created[s] # None /\ (InOwnWindow(t) => Rival(s, t))
    BY <2>2 DEF InOwnWindow
  <2>8. created \in [Sessions -> Nat] /\ evidence \in [Sessions -> Nat]  BY <2>1
  <2>9. QED  BY <2>3, <2>4, <2>5, <2>6, <2>7, <2>8 DEF WorldInv
<1>2. SupInv  BY DEF SupInv, SupSteps
<1>3. ThreadsInv
  <2>1. children = <<>> /\ DOMAIN children = {}  OBVIOUS
  <2>2. IsFiniteSet({}) /\ Cardinality({}) = 0  BY FS_EmptySet
  <2>3. QED  BY <2>1, <2>2 DEF ThreadsInv, OneSummary, NewJoint, Stopping
<1>4. QED  BY <1>1, <1>2, <1>3 DEF KimiInv

\* A set of numbers that is not empty has a least one.
LEMMA LeastOf ==
    ASSUME NEW T \in SUBSET Nat, T # {}
    PROVE  Least(T) \in T /\ \A u \in T : Least(T) <= u
<1>1. PICK x \in T : \A y \in T : <<y, x>> \notin OpToRel(<, Nat)
  BY NatLessThanWellFounded, WFMin
<1>2. \A y \in T : x <= y
  <2> SUFFICES ASSUME NEW y \in T, ~(x <= y) PROVE FALSE
    OBVIOUS
  <2>1. x \in Nat /\ y \in Nat /\ y < x  OBVIOUS
  <2>2. <<y, x>> \in OpToRel(<, Nat)  BY <2>1 DEF OpToRel
  <2>3. QED  BY <1>1, <2>2
<1>3. QED  BY <1>2 DEF Least

\* What the locator says of a resumption is remembered, or is the log's oldest line of
\* those just after the start.
LEMMA ResumptionTold ==
    ASSUME WorldInv, NEW s \in Sessions, ResumeAt(s) # None
    PROVE  /\ ResumeAt(s) \in Nat /\ ResumeAt(s) <= now /\ InOwnWindow(ResumeAt(s))
           /\ created[s] # None /\ Rival(s, ResumeAt(s))
           /\ \A t \in ResumeLines(s) : ResumeAt(s) <= t
<1>1. CASE evidence[s] # None
  BY <1>1 DEF ResumeAt, WorldInv, Remembered
<1>2. CASE evidence[s] = None
  <2> DEFINE t == Least(ResumeLines(s))
  <2>1. ResumeLines(s) # {} /\ ResumeAt(s) = t  BY <1>2 DEF ResumeAt
  <2>2. ResumeLines(s) \subseteq Nat  BY KimiAssumption DEF ResumeLines, ProcessStart
  <2>3. t \in ResumeLines(s) /\ \A u \in ResumeLines(s) : t <= u  BY <2>1, <2>2, LeastOf
  <2> HIDE DEF t
  <2>4. <<s, t>> \in resumed /\ InOwnWindow(t) /\ t \in Nat  BY <2>2, <2>3 DEF ResumeLines, InOwnWindow
  <2>5. QED  BY <2>1, <2>3, <2>4 DEF WorldInv
<1>3. QED  BY <1>1, <1>2

\* A session that is told to be the process's was begun since or resumed just then, by the
\* process or by another.
LEMMA OwnIsTold ==
    ASSUME WorldInv, NEW s \in Sessions, IsOwn(s)
    PROVE  OwnedAt(s) \in 1 .. now /\ created[s] # None /\ Rival(s, OwnedAt(s))
<1> USE KimiAssumption DEF ProcessStart, None
<1>1. CASE CreatedInOwnWindow(s)
  BY <1>1 DEF WorldInv, OwnedAt, CreatedInOwnWindow
<1>2. CASE ~CreatedInOwnWindow(s)
  <2>1. OwnedAt(s) = ResumeAt(s) /\ ResumeAt(s) # None  BY <1>2 DEF OwnedAt, IsOwn
  <2>2. QED  BY <2>1, ResumptionTold DEF WorldInv
<1>3. QED  BY <1>1, <1>2

\* A session of the process that the files tell of is one the index search prefers by
\* evidence at least as close.
LEMMA VisibleIsOwn ==
    ASSUME WorldInv, NEW q \in Sessions, NEW c \in Visible(q)
    PROVE  /\ q \in Matching(indexed) /\ IsOwn(q)
           /\ Distance(OwnedAt(q)) <= Distance(c)
<1> USE KimiAssumption DEF ProcessStart, None
<1>1. q \in Matching(indexed)  BY DEF Visible
<1>2. CASE CreatedInOwnWindow(q)
  <2>1. c = created[q] /\ OwnedAt(q) = c /\ c \in Nat  BY <1>1, <1>2 DEF Visible, OwnedAt, WorldInv
  <2>2. c # None  BY <1>2, <2>1 DEF CreatedInOwnWindow
  <2>3. QED  BY <1>1, <2>1, <2>2 DEF IsOwn, Distance
<1>3. CASE ~CreatedInOwnWindow(q)
  <2>1. c \in ResumeLines(q) /\ OwnedAt(q) = ResumeAt(q)  BY <1>3 DEF Visible, OwnedAt
  <2>2. ResumeLines(q) \subseteq Nat /\ c >= ProcessStart  BY <2>1 DEF ResumeLines
  <2>3. ResumeAt(q) # None
    <3>1. CASE evidence[q] # None  BY <3>1 DEF ResumeAt
    <3>2. CASE evidence[q] = None
      <4>1. Least(ResumeLines(q)) \in ResumeLines(q)  BY <2>1, <2>2, LeastOf
      <4>2. QED  BY <2>1, <3>2, <4>1 DEF ResumeAt, ResumeLines
    <3>3. QED  BY <3>1, <3>2
  <2>4. ResumeAt(q) <= c /\ ResumeAt(q) >= ProcessStart /\ ResumeAt(q) \in Nat
    BY <2>1, <2>3, ResumptionTold DEF InOwnWindow
  <2>5. QED  BY <1>1, <2>1, <2>2, <2>3, <2>4 DEF IsOwn, Distance
<1>4. QED  BY <1>2, <1>3

\* Of candidates with evidence one is the closest, and of those one the deepest.
LEMMA SomeIsBest ==
    ASSUME WorldInv, NEW S \in SUBSET Sessions, S # {}, \A s \in S : OwnedAt(s) \in Nat
    PROVE  Deepest(Closest(S)) # {}
<1> USE KimiAssumption DEF ProcessStart
<1> DEFINE far == {Distance(OwnedAt(s)) : s \in S}
<1>1. far \subseteq Nat /\ far # {}  BY DEF Distance
<1>2. Least(far) \in far /\ \A d \in far : Least(far) <= d  BY <1>1, LeastOf
<1>3. PICK near \in S : Distance(OwnedAt(near)) = Least(far)  BY <1>2
<1>4. near \in Closest(S)  BY <1>2, <1>3 DEF Closest
<1> DEFINE short == {MaxDepth - Depth[s] : s \in Closest(S)}
<1>5. Closest(S) \subseteq Sessions  BY DEF Closest
<1>6. short \subseteq Nat /\ short # {}  BY <1>4, <1>5
<1>7. Least(short) \in short /\ \A d \in short : Least(short) <= d  BY <1>6, LeastOf
<1>8. PICK deep \in Closest(S) : MaxDepth - Depth[deep] = Least(short)  BY <1>7
<1>9. \A q \in Closest(S) : Depth[q] <= Depth[deep]
  <2> SUFFICES ASSUME NEW q \in Closest(S) PROVE Depth[q] <= Depth[deep]
    OBVIOUS
  <2>1. MaxDepth - Depth[deep] <= MaxDepth - Depth[q]  BY <1>7, <1>8
  <2>2. Depth[q] \in Nat /\ Depth[deep] \in Nat /\ MaxDepth \in Nat  BY <1>5
  <2>3. QED  BY <2>1, <2>2
<1>10. QED  BY <1>9 DEF Deepest

\* A session that is found is one the pane may take up.
LEMMA FoundIsTaken ==
    ASSUME WorldInv, NEW s \in Found
    PROVE  s \in Sessions /\ TakesUp(s)
<1> USE KimiAssumption
<1> DEFINE matches == {q \in Matching(indexed) : IsOwn(q)}
<1>0. matches \subseteq Sessions /\ \A q \in matches : OwnedAt(q) \in Nat /\ created[q] # None
  <2>1. matches \subseteq Sessions  BY DEF Matching, WorldInv
  <2>2. QED  BY <2>1, OwnIsTold DEF WorldInv
<1>1. CASE reported # NoKimiSession  BY <1>1 DEF Found, ByReport, TakesUp, WorldInv
<1>2. CASE reported = NoKimiSession /\ s \in ByFd
  BY <1>2 DEF ByFd, TakesUp, WorldInv
<1>3. CASE reported = NoKimiSession /\ ByFd = {} /\ s \in ByIndex /\ startKnown
  <2>1. s \in Deepest(Closest(matches))  BY <1>3 DEF ByIndex, OwnOnly
  <2>2. s \in matches /\ \A q \in matches : Distance(OwnedAt(s)) <= Distance(OwnedAt(q))
    BY <2>1 DEF Deepest, Closest
  <2>3. s \in Sessions /\ Depth[s] > 0 /\ OwnedAt(s) \in 1 .. now /\ Rival(s, OwnedAt(s))
    BY <1>0, <2>2, OwnIsTold DEF Matching
  <2>4. ASSUME NEW q \in Sessions, NEW c \in Visible(q) PROVE Distance(OwnedAt(s)) <= Distance(c)
    <3>1. q \in matches /\ Distance(OwnedAt(q)) <= Distance(c)  BY VisibleIsOwn
    <3>2. Distance(OwnedAt(s)) <= Distance(OwnedAt(q))  BY <2>2, <3>1
    <3>3. OwnedAt(s) \in Nat /\ OwnedAt(q) \in Nat  BY <1>0, <2>2, <3>1
    <3>4. c \in Nat
      <4>1. c \in ResumeLines(q) \/ c = created[q]  BY DEF Visible
      <4>2. QED  BY <4>1 DEF ResumeLines, ProcessStart, WorldInv
    <3>5. QED  BY <3>1, <3>2, <3>3, <3>4 DEF Distance, ProcessStart
  <2>5. QED  BY <1>3, <2>3, <2>4 DEF TakesUp, Rival
<1>4. CASE reported = NoKimiSession /\ s \in ByIndex /\ ~startKnown
  <2>1. s \in Matching(indexed)  BY <1>4 DEF ByIndex, OwnOnly, Newest, Deepest
  <2>2. QED  BY <1>4, <2>1 DEF Matching, TakesUp, WorldInv
<1>5. CASE reported = NoKimiSession /\ ByIndex = {} /\ s \in ByBucket
  <2>1. s \in Bucket /\ s \in Sessions  BY <1>5 DEF ByBucket, Newest, OwnOnly, InBucket
  <2>2. CASE ~startKnown  BY <1>5, <2>1, <2>2 DEF TakesUp
  <2>3. CASE startKnown
    <3>1. IsOwn(s)  BY <1>5, <2>3 DEF ByBucket, Newest, OwnOnly
    <3>2. OwnedAt(s) \in 1 .. now /\ Rival(s, OwnedAt(s))  BY <2>1, <3>1, OwnIsTold
    <3>3. matches = {}
      <4> SUFFICES ASSUME matches # {} PROVE FALSE
        OBVIOUS
      <4>1. Deepest(Closest(matches)) # {}  BY <1>0, SomeIsBest
      <4>2. Deepest(Closest(matches)) \subseteq matches  BY DEF Deepest, Closest
      <4>3. PICK q \in Deepest(Closest(matches)) : q \in matches  BY <4>1, <4>2
      <4>4. q \in ByIndex  BY <1>0, <2>3, <4>3 DEF ByIndex, OwnOnly
      <4>5. QED  BY <1>5, <4>4
    <3>4. \A q \in Sessions : \A c \in Visible(q) : FALSE  BY <3>3, VisibleIsOwn
    <3>5. QED  BY <1>5, <2>1, <3>2, <3>4 DEF TakesUp, Rival
  <2>4. QED  BY <2>2, <2>3
<1>6. s \in ByFd \/ (ByFd = {} /\ s \in ByIndex) \/ (ByIndex = {} /\ s \in ByBucket) \/ reported # NoKimiSession
  BY DEF Found, OrElse
<1>7. startKnown \in BOOLEAN  BY DEF WorldInv
<1>8. QED  BY <1>1, <1>2, <1>3, <1>4, <1>5, <1>6, <1>7

\* A write to a session adds to its log at most a line of this moment, and begins it only
\* for the one who is said to have.
LEMMA WritesKeep ==
    ASSUME WorldInv, NEW s \in Sessions, Writes(s),
           written \subseteq written', \A q \in written' : q \in written \/ q = s,
           open' \in written' \cup {NoKimiSession}, rivals \subseteq rivals',
           resumed' \subseteq resumed \cup {<<s, now'>>}, created[s] = None => resumed' = resumed,
           created[s] = None \/ (resumed' # resumed /\ InOwnWindow(now')) => s \in written' \/ <<s, now'>> \in rivals'
    PROVE  WorldInv'
<1> USE KimiAssumption DEF WorldInv, ProcessStart, None
<1>1. /\ now' = now + 1 /\ now \in Nat /\ UNCHANGED <<indexed, reported, startKnown, evidence>>
      /\ created' = [created EXCEPT ![s] = IF @ = None THEN now' ELSE @]
  BY DEF Writes, supVars
<1>2. \A q \in Sessions : created'[q] = created[q] \/ (q = s /\ created[s] = None /\ created'[q] = now')
  BY <1>1
<1>3. \A q \in Sessions : created[q] # None => created'[q] = created[q] /\ created'[q] # None
  BY <1>2
<1>4. created'[s] # None  BY <1>1, <1>2
<1>5. \A q, t : Rival(q, t) => q \in written' \/ <<q, t>> \in rivals'  BY DEF Rival
<1>6. created' \in [Sessions -> Nat] /\ \A q \in Sessions : created'[q] <= now'  BY <1>1, <1>2
<1>7. \A q \in written' : created'[q] # None  BY <1>3, <1>4
<1>8. \A q \in Sessions : CreatedInOwnWindow(q)' => Rival(q, created[q])'
  <2> SUFFICES ASSUME NEW q \in Sessions, CreatedInOwnWindow(q)' PROVE Rival(q, created[q])'
    OBVIOUS
  <2>1. CASE created'[q] = created[q]
    BY <1>5, <2>1 DEF CreatedInOwnWindow, Rival
  <2>2. CASE q = s /\ created[s] = None /\ created'[q] = now'  BY <2>2 DEF Rival
  <2>3. QED  BY <1>2, <2>1, <2>2
<1>9. resumed' \subseteq Sessions \X Nat  BY <1>1
<1>10. ASSUME NEW q \in Sessions, NEW t \in Nat, <<q, t>> \in resumed'
       PROVE  t <= now' /\ created'[q] # None /\ (InOwnWindow(t) => q \in written' \/ <<q, t>> \in rivals')
  <2>1. CASE <<q, t>> \in resumed
    <3>1. t <= now /\ created[q] # None /\ (InOwnWindow(t) => Rival(q, t))  BY <2>1
    <3>2. QED  BY <1>1, <1>3, <1>5, <3>1
  <2>2. CASE <<q, t>> \notin resumed
    <3>1. q = s /\ t = now' /\ resumed' # resumed  BY <1>10, <2>2
    <3>2. QED  BY <1>1, <1>4, <3>1
  <2>3. QED  BY <2>1, <2>2
<1>11. ASSUME NEW q \in Sessions PROVE Remembered(q)'
  <2> SUFFICES ASSUME evidence[q] # None
               PROVE  /\ evidence[q] <= now' /\ InOwnWindow(evidence[q]) /\ created'[q] # None
                      /\ (q \in written' \/ <<q, evidence[q]>> \in rivals')
                      /\ \A t \in ResumeLines(q)' : evidence[q] <= t
    BY <1>1 DEF Remembered, InOwnWindow, Rival
  <2>1. evidence[q] \in Nat /\ evidence[q] <= now /\ InOwnWindow(evidence[q]) /\ created[q] # None
        /\ Rival(q, evidence[q]) /\ \A t \in ResumeLines(q) : evidence[q] <= t
    BY DEF Remembered
  <2>2. ASSUME NEW t \in ResumeLines(q)' PROVE evidence[q] <= t
    <3>1. t \in ResumeLines(q) \/ t = now'  BY <2>2 DEF ResumeLines
    <3>2. QED  BY <1>1, <2>1, <3>1
  <2>3. QED  BY <1>1, <1>3, <1>5, <2>1, <2>2
<1>12. written' \subseteq Sessions /\ now' \in Nat /\ now' >= ProcessStart  BY <1>1
<1>13. \A q \in Sessions : \A t \in Nat :
          <<q, t>> \in resumed' => t <= now' /\ created'[q] # None /\ (InOwnWindow(t)' => Rival(q, t)')
  BY <1>10 DEF Rival, InOwnWindow
<1>14. QED  BY <1>1, <1>6, <1>7, <1>8, <1>9, <1>11, <1>12, <1>13

\* A search remembers what it was told.
LEMMA RemembersKeep ==
    ASSUME WorldInv, UNCHANGED worldVars, Remembers
    PROVE  WorldInv'
<1> USE DEF WorldInv, worldVars, sessionFiles
<1>1. \A s \in Sessions : evidence'[s] = evidence[s] \/ evidence'[s] = ResumeAt(s)
  BY DEF Remembers
<1>2. ASSUME NEW s \in Sessions PROVE evidence'[s] \in Nat /\ Remembered(s)'
  <2>1. UNCHANGED <<now, created[s], ResumeLines(s)>> /\ \A t : Rival(s, t)' <=> Rival(s, t)
    BY DEF ResumeLines, Rival
  <2>2. CASE evidence'[s] = evidence[s]  BY <2>1, <2>2 DEF Remembered, InOwnWindow
  <2>3. CASE evidence'[s] = ResumeAt(s) /\ ResumeAt(s) # None
    <3>1. /\ ResumeAt(s) \in Nat /\ ResumeAt(s) <= now /\ InOwnWindow(ResumeAt(s))
          /\ created[s] # None /\ Rival(s, ResumeAt(s))
          /\ \A t \in ResumeLines(s) : ResumeAt(s) <= t
      BY <2>3, ResumptionTold
    <3> HIDE DEF WorldInv
    <3>2. QED  BY <2>1, <2>3, <3>1 DEF Remembered, InOwnWindow
  <2>4. CASE evidence'[s] = None  BY <2>4 DEF Remembered, None
  <2>5. QED  BY <1>1, <2>2, <2>3, <2>4
<1>3. evidence' \in [Sessions -> Nat]  BY <1>2 DEF Remembers
<1>4. QED  BY <1>2, <1>3 DEF Rival, CreatedInOwnWindow, InOwnWindow

\* The world goes on, and what tells of a session's owner goes on to tell the truth.
LEMMA StepWorld == WorldInv /\ [KimiSessionNext]_kimiVars => WorldInv'
<1> SUFFICES ASSUME WorldInv, [KimiSessionNext]_kimiVars PROVE WorldInv'
  OBVIOUS
<1> USE KimiAssumption
<1>1. ASSUME UNCHANGED <<created, now, reported, startKnown, written, rivals, evidence>>,
             resumed' \subseteq resumed, indexed' \subseteq Sessions, open' \in {open, NoKimiSession}
      PROVE  WorldInv'
  <2>1. \A s \in Sessions : ResumeLines(s)' \subseteq ResumeLines(s)  BY <1>1 DEF ResumeLines
  <2>2. \A s \in Sessions : Remembered(s)'
    BY <1>1, <2>1 DEF WorldInv, Remembered, Rival, InOwnWindow
  <2>3. QED  BY <1>1, <2>2 DEF WorldInv, Rival, CreatedInOwnWindow, InOwnWindow
<1>2. CASE CloseWire  BY <1>1, <1>2 DEF CloseWire, sessionFiles, supVars, WorldInv
<1>3. ASSUME NEW s \in Sessions, OpenWire(s) PROVE WorldInv'
  BY <1>3, WritesKeep DEF OpenWire, Rival
<1>4. ASSUME NEW s \in Sessions, OtherWrites(s) PROVE WorldInv'
  <2>1. Writes(s) /\ UNCHANGED <<open, written>>  BY <1>4 DEF OtherWrites
  <2>2. open' \in written' \cup {NoKimiSession} /\ rivals \subseteq rivals'
    BY <1>4, <2>1 DEF OtherWrites, WorldInv
  <2>3. resumed' \subseteq resumed \cup {<<s, now'>>} /\ (created[s] = None => resumed' = resumed)
    BY <1>4 DEF OtherWrites
  <2>4. created[s] = None \/ (resumed' # resumed /\ InOwnWindow(now')) => s \in written' \/ <<s, now'>> \in rivals'
    BY <1>4 DEF OtherWrites, Rival
  <2>5. QED  BY <2>1, <2>2, <2>3, <2>4, WritesKeep
<1>5. ASSUME NEW s \in Sessions, IndexRow(s) \/ Delegate(s) PROVE WorldInv'
  BY <1>1, <1>5 DEF IndexRow, Delegate, supVars, WorldInv
<1>6. CASE Attach \/ Refresh
  BY <1>6, RemembersKeep DEF Attach, Refresh
<1>7. CASE AttachAgain \/ Switch \/ Spawn \/ Leave \/ Quit
  BY <1>1, <1>7 DEF AttachAgain, Switch, Spawn, Leave, Quit, worldVars, sessionFiles, WorldInv
<1>8. CASE Children
  BY <1>1, <1>8 DEF Children, Child, Finish, PassBarrier, Stops, worldVars, sessionFiles, WorldInv
<1>9. CASE UNCHANGED kimiVars  BY <1>1, <1>9 DEF kimiVars, worldVars, sessionFiles, supVars, WorldInv
<1>10. QED  BY <1>2, <1>3, <1>4, <1>5, <1>6, <1>7, <1>8, <1>9
       DEF KimiSessionNext, Kimi, Supervise

\* The supervisor takes up only what is found.
LEMMA StepSup == WorldInv /\ SupInv /\ [KimiSessionNext]_kimiVars => SupInv'
<1> SUFFICES ASSUME WorldInv, SupInv, [KimiSessionNext]_kimiVars PROVE SupInv'
  OBVIOUS
<1> USE KimiAssumption DEF SupInv, SupSteps
<1>1. CASE Kimi  BY <1>1 DEF Kimi, CloseWire, OpenWire, OtherWrites, Writes, IndexRow, Delegate, supVars
<1>2. CASE Attach
  <2>1. CASE \E s \in Found : sup' = [sup EXCEPT !.step = "spawn", !.session = s]
    BY <2>1, FoundIsTaken
  <2>2. CASE sup' = [sup EXCEPT !.tries = @ + 1, !.step = IF sup.tries + 1 < KimiAttempts THEN @ ELSE "failed"]
    <3> DEFINE step == IF sup.tries + 1 < KimiAttempts THEN sup.step ELSE "failed"
    <3>1. sup' = [sup EXCEPT !.tries = sup.tries + 1, !.step = step]  BY <2>2
    <3>2. sup.step = "attach"  BY <1>2 DEF Attach
    <3>3. step \in {"attach", "failed"}  BY <3>2
    <3>4. sup.tries + 1 \in Nat
      <4>1. sup.tries \in Nat  OBVIOUS
      <4>2. QED  BY <4>1
    <3> HIDE DEF step
    <3>5. sup' \in [step : SupSteps, session : Sessions \cup {NoKimiSession}, tries : Nat]
      BY <3>1, <3>3, <3>4
    <3>6. sup'.step = step  BY <3>1
    <3>7. QED  BY <3>3, <3>5, <3>6
  <2>3. QED  BY <1>2, <2>1, <2>2 DEF Attach
<1>3. CASE AttachAgain  BY <1>3 DEF AttachAgain
<1>4. CASE Refresh
  <2>1. CASE sup' = [sup EXCEPT !.step = "spawn"]  BY <1>4, <2>1 DEF Refresh
  <2>2. CASE \E s \in Found \ {sup.session} : sup' = [sup EXCEPT !.step = "switch", !.session = s]
    BY <2>2, FoundIsTaken
  <2>3. QED  BY <1>4, <2>1, <2>2 DEF Refresh
<1>5. CASE Switch  BY <1>5 DEF Switch
<1>6. CASE Spawn  BY <1>6 DEF Spawn
<1>7. CASE Leave  BY <1>7 DEF Leave
<1>8. CASE Quit \/ Children  BY <1>8 DEF Quit, Children, Child, Finish, PassBarrier, Stops
<1>9. CASE UNCHANGED kimiVars  BY <1>9 DEF kimiVars, supVars
<1>10. QED  BY <1>1, <1>2, <1>3, <1>4, <1>5, <1>6, <1>7, <1>8, <1>9
       DEF KimiSessionNext, Supervise

\* The supervisor goes over to another session only when a search finds that one.
LEMMA StepTakes == WorldInv /\ SupInv /\ [KimiSessionNext]_kimiVars => [KimiTakes]_kimiVars
<1> SUFFICES ASSUME WorldInv, SupInv, KimiSessionNext, sup'.session # sup.session
             PROVE  TakesUp(sup'.session)
  BY DEF KimiTakes
<1> USE DEF SupInv, supVars
<1>1. CASE Kimi  BY <1>1 DEF Kimi, CloseWire, OpenWire, OtherWrites, Writes, IndexRow, Delegate
<1>2. CASE Attach \/ Refresh
  <2>1. sup'.session \in Found  BY <1>2 DEF Attach, Refresh
  <2>2. QED  BY <2>1, FoundIsTaken
<1>3. CASE AttachAgain \/ Switch \/ Spawn \/ Leave  BY <1>3 DEF AttachAgain, Switch, Spawn, Leave
<1>4. CASE Quit \/ Children  BY <1>4 DEF Quit, Children, Child, Finish, PassBarrier, Stops
<1>5. QED  BY <1>1, <1>2, <1>3, <1>4 DEF KimiSessionNext, Supervise

\* A batch is enrolled as a whole before any of its threads starts; the summary is
\* said when as many wires are done as were enrolled, which are then all of them.
LEMMA StepThreads ==
    SupInv /\ ThreadsInv /\ [KimiSessionNext]_kimiVars => ThreadsInv'
<1> SUFFICES ASSUME SupInv, ThreadsInv, [KimiSessionNext]_kimiVars PROVE ThreadsInv'
  OBVIOUS
<1> USE DEF SupInv, SupSteps, ThreadsInv, OneSummary, Stopping
<1>1. CASE Kimi \/ Quit
  BY <1>1 DEF Kimi, CloseWire, OpenWire, OtherWrites, Writes, IndexRow, Delegate, Quit, supVars
<1>2. CASE Attach
  <2>1. children = <<>> /\ joint = NewJoint /\ UNCHANGED <<children, joint>>  BY <1>2 DEF Attach
  <2>2. DOMAIN children = {}  BY <2>1
  <2>3. sup'.step \in {"spawn", "attach", "failed"}  BY <1>2 DEF Attach
  <2>4. joint.expected = Cardinality(DOMAIN children)  BY <1>2, <2>1 DEF Attach, NewJoint
  <2>5. QED  BY <2>1, <2>2, <2>3, <2>4 DEF NewJoint
<1>3. CASE AttachAgain  BY <1>3 DEF AttachAgain
<1>4. CASE Refresh  BY <1>4 DEF Refresh
<1>5. CASE Switch
  <2>1. /\ children = <<>> /\ children' = children /\ joint' = NewJoint /\ sup' = [sup EXCEPT !.step = "spawn"]
    BY <1>5 DEF Switch
  <2>2. DOMAIN children = {}  BY <2>1
  <2>3. Cardinality({}) = 0  BY FS_EmptySet
  <2>4. QED  BY <2>1, <2>2, <2>3 DEF NewJoint
<1>6. CASE Spawn
  <2> DEFINE old == DOMAIN children
             all == old \cup Pending
  <2>1. /\ sup.step = "spawn" /\ sup' = [sup EXCEPT !.step = "look"]
        /\ DOMAIN children' = all
        /\ joint' = IF joint.flushed THEN joint
                    ELSE [joint EXCEPT !.expected = @ + Cardinality(Pending),
                                       !.first = IF children = <<>> THEN Pending ELSE @]
    BY <1>6 DEF Spawn
  <2>2. sup.session \in Sessions /\ Pending \subseteq Wires /\ \A w \in Pending : w[1] = sup.session
    BY <2>1 DEF Pending, Listed, Wires
  <2>3. IsFiniteSet(Pending) /\ Cardinality(Pending) \in Nat
    <3> DEFINE main == <<sup.session, "main">>
               sub == <<sup.session, "sub">>
    <3>1. Pending \subseteq {main} \cup {sub}  BY DEF Pending, Listed
    <3> HIDE DEF main, sub
    <3>2. IsFiniteSet({main} \cup {sub})  BY FS_Singleton, FS_AddElement
    <3>3. IsFiniteSet(Pending)  BY <3>1, <3>2, FS_Subset
    <3>4. QED  BY <3>3, FS_CardinalityType
  <2>4. IsFiniteSet(all) /\ Cardinality(all) = Cardinality(old) + Cardinality(Pending)
    <3>1. old \cap Pending = {}  BY DEF Pending
    <3>2. /\ IsFiniteSet(all)
          /\ Cardinality(all) = Cardinality(old) + Cardinality(Pending) - Cardinality(old \cap Pending)
      BY <2>3, FS_Union
    <3>3. Cardinality(old \cap Pending) = 0 /\ Cardinality(old) \in Nat
      BY <3>1, FS_EmptySet, FS_CardinalityType
    <3>4. QED  BY <2>3, <3>2, <3>3
  <2>5. ~Stopping /\ ~Stopping' /\ sup'.session = sup.session /\ sup'.step = "look"  BY <2>1
  <2>6. CASE joint.flushed
    BY <2>1, <2>2, <2>4, <2>5, <2>6
  <2>7. CASE ~joint.flushed
    <3> DEFINE first == IF children = <<>> THEN Pending ELSE joint.first
    <3>1. joint' = [joint EXCEPT !.expected = joint.expected + Cardinality(Pending), !.first = first]
      BY <2>1, <2>7
    <3>2. /\ joint.expected = Cardinality(old) /\ joint.done \subseteq old /\ first \subseteq all
          /\ first \subseteq Wires
      BY <2>2, <2>5, <2>7
    <3>3. joint.expected + Cardinality(Pending) = Cardinality(all) /\ Cardinality(all) \in Nat
      BY <2>4, <3>2, FS_CardinalityType
    <3> HIDE DEF first, all
    <3>4. joint' \in [expected : Nat, done : SUBSET Wires, flushed : BOOLEAN, first : SUBSET Wires]
      BY <3>1, <3>2, <3>3
    <3>5. joint'.expected = Cardinality(all) /\ joint'.done = joint.done /\ joint'.first = first
          /\ ~joint'.flushed
      BY <2>7, <3>1, <3>3
    <3>6. old \subseteq all /\ all \subseteq Wires /\ \A w \in all : w[1] = sup.session
      BY <2>2, <2>5 DEF all
    <3>7. QED  BY <2>1, <2>4, <2>5, <3>2, <3>4, <3>5, <3>6
  <2>8. QED  BY <2>6, <2>7
<1>7. CASE Leave  BY <1>7 DEF Leave
<1>8. ASSUME NEW w \in DOMAIN children, Finish(w) PROVE ThreadsInv'
  <2> DEFINE done == joint.done \cup {w}
  <2>1. ~Stopping /\ UNCHANGED sup /\ DOMAIN children' = DOMAIN children
    BY <1>8 DEF Finish, Becomes
  <2>2. done \subseteq Wires  OBVIOUS
  <2>3. CASE joint.flushed
    <3>1. /\ joint'.done = done /\ joint'.flushed /\ joint'.first = joint.first
          /\ joint' \in [expected : Nat, done : SUBSET Wires, flushed : BOOLEAN, first : SUBSET Wires]
      BY <1>8, <2>2, <2>3 DEF Finish
    <3>2. QED  BY <2>1, <2>3, <3>1
  <2>4. CASE ~joint.flushed
    <3>1. done \subseteq DOMAIN children /\ joint.first \subseteq DOMAIN children
          /\ joint.expected = Cardinality(DOMAIN children)
      BY <2>1, <2>4
    <3>2. CASE Cardinality(done) = joint.expected
      <4>1. done = DOMAIN children  BY <3>1, <3>2, FS_Subset
      <4>2. joint' = [joint EXCEPT !.done = done, !.flushed = TRUE]  BY <1>8, <3>2 DEF Finish
      <4> HIDE DEF done
      <4>3. /\ joint'.done = done /\ joint'.flushed /\ joint'.first = joint.first
            /\ joint' \in [expected : Nat, done : SUBSET Wires, flushed : BOOLEAN, first : SUBSET Wires]
        BY <2>2, <4>2
      <4>4. QED  BY <2>1, <3>1, <4>1, <4>3
    <3>3. CASE Cardinality(done) # joint.expected
      <4>1. joint' = [joint EXCEPT !.done = done]  BY <1>8, <3>3 DEF Finish
      <4> HIDE DEF done
      <4>2. /\ joint'.done = done /\ joint'.flushed = joint.flushed /\ joint'.first = joint.first
            /\ joint'.expected = joint.expected
            /\ joint' \in [expected : Nat, done : SUBSET Wires, flushed : BOOLEAN, first : SUBSET Wires]
        BY <2>2, <4>1
      <4>3. QED  BY <2>1, <2>4, <3>1, <4>2
    <3>4. QED  BY <3>2, <3>3
  <2>5. QED  BY <2>3, <2>4
<1>9. ASSUME NEW w \in DOMAIN children, PassBarrier(w) PROVE ThreadsInv'
  BY <1>9 DEF PassBarrier, Becomes
<1>10. ASSUME NEW w \in DOMAIN children, Stops(w) PROVE ThreadsInv'
  <2>1. /\ Stopping /\ DOMAIN children' = DOMAIN children \ {w} /\ UNCHANGED <<sup, joint>>
    BY <1>10 DEF Stops
  <2>2. IsFiniteSet(DOMAIN children \ {w})  BY FS_RemoveElement
  <2>3. QED  BY <2>1, <2>2
<1>11. CASE UNCHANGED kimiVars  BY <1>11 DEF kimiVars, supVars
<1>12. QED  BY <1>1, <1>2, <1>3, <1>4, <1>5, <1>6, <1>7, <1>8, <1>9, <1>10, <1>11
       DEF KimiSessionNext, Supervise, Children, Child

-----------------------------------------------------------------------------
(* Locators.                                                               *)

\* The parts share nothing: a step of the whole is a step of each or leaves it alone.
LEMMA PartsStep ==
    [Next]_allVars => /\ [CodexNext]_codexVars /\ [KimiSessionNext]_kimiVars
                      /\ [OcNext]_ocVars /\ [PluginNext]_pluginVars
  BY DEF Next, LocatorNext, ReadingNext, allVars, locatorVars, readingVars

\* Every step keeps what Kimi's part keeps.
LEMMA StepKimi == KimiInv /\ [Next]_allVars => KimiInv'
  BY PartsStep, StepWorld, StepSup, StepThreads DEF KimiInv

\* No pane is bound to a session of another process where something of its own tells them
\* apart, however rows, logs, arguments and reports lag behind what the agents do: a Codex
\* pane to the newest file its process had open, and else to a stranger's only as a guess
\* while nothing names its own; a Kimi pane never to what an earlier run left, and to a
\* neighbour's new session only while none of its own is known to be closer to the start
\* (CompositeLocator, KimiLocator.locate, resolve_by_pid, resolve_by_cwd).
THEOREM PanesShowTheirOwn == Spec => OwnSession
<1>1. Init => CodexInv /\ KimiInv /\ OpenCodeInv
  BY CodexInitInv, KimiInitInv, OpenCodeInitInv DEF Init
<1>2. CodexInv /\ KimiInv /\ OpenCodeInv /\ [Next]_allVars => CodexInv' /\ KimiInv' /\ OpenCodeInv'
  BY PartsStep, StepCodex, StepKimi, StepOpenCode
<1>3. CodexInv /\ [Next]_allVars => [CodexTakes]_codexVars
  BY PartsStep, StepCodex
<1>4. KimiInv /\ [Next]_allVars => [KimiTakes]_kimiVars
  BY PartsStep, StepTakes DEF KimiInv
<1>5. OpenCodeInv => (agent = "opencode" => OpenCodeOwn)
  BY DEF OpenCodeInv
<1>6. QED  BY <1>1, <1>2, <1>3, <1>4, <1>5, PTL DEF Spec, OwnSession

\* Kimi's joint summary has every wire that was there when the session was taken up,
\* and no thread of another session runs on beside it, whenever threads start, finish
\* and stop (KimiReplayCoordinator, run_session_supervisor, stop_child_tailers).
THEOREM SummaryIsWhole == Spec => []OneSummary
<1>1. Init => KimiInv  BY KimiInitInv DEF Init
<1>2. KimiInv /\ [Next]_allVars => KimiInv'  BY StepKimi
<1>3. KimiInv => OneSummary  BY DEF KimiInv, ThreadsInv
<1>4. QED  BY <1>1, <1>2, <1>3, PTL DEF Spec

\* The last row of each session in OpenCode's index names the directory the session
\* is in, as long as no write failed (handleSessionInfo).
THEOREM IndexNamesDirectory == Spec => []IndexIsCurrent
<1>1. Init => PluginInv  BY PluginInitInv DEF Init
<1>2. PluginInv /\ [Next]_allVars => PluginInv'  BY PartsStep, StepPlugin
<1>3. PluginInv => IndexIsCurrent
  <2> SUFFICES ASSUME PluginInv, ~lost, NEW s \in SafeSessions, here[s] # NoDirectory
               PROVE  LET rows_ == {i \in DOMAIN entered : entered[i].session = s}
                      IN  rows_ # {} /\ entered[CHOOSE i \in rows_ : \A j \in rows_ : j <= i].dir = here[s]
    BY DEF IndexIsCurrent
  <2> DEFINE of == {i \in DOMAIN entered : entered[i].session = s}
  <2>1. PICK i \in of : entered[i].dir = here[s] /\ \A j \in of : j <= i
    BY DEF PluginInv, LastRow
  <2>2. \A k \in of : (\A j \in of : j <= k) => k = i
    <3>1. of \subseteq Nat  BY DEF PluginInv
    <3>2. QED  BY <2>1, <3>1
  <2>3. (CHOOSE k \in of : \A j \in of : j <= k) = i  BY <2>1, <2>2
  <2>4. QED  BY <2>1, <2>3
<1>4. QED  BY <1>1, <1>2, <1>3, PTL DEF Spec

\* No text of a user's is ever written, and of an assistant's only what was told in
\* this turn, in whatever order messages and texts come
\* (trackAssistantMessage, bufferTextPart, flushAssistantText).
THEOREM OnlyAnswers == Spec => AnswersOnly
<1>1. Init => PluginInv  BY PluginInitInv DEF Init
<1>2. PluginInv /\ [Next]_allVars => PluginInv'  BY PartsStep, StepPlugin
<1>3. PluginInv /\ [Next]_allVars => [Answered]_pluginVars  BY PartsStep, StepAnswers
<1>4. QED  BY <1>1, <1>2, <1>3, PTL DEF Spec, AnswersOnly, Answered, Answers
===============================================================================
