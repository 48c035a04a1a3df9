---------------------------- MODULE DocumentSync ----------------------------
(***************************************************************************)
(* The document of one client: SessionManager with documentAdapter between *)
(* the CRDT and VS Code.  The editor runs in another process and is ahead  *)
(* of what the extension sees: changes come as messages, and a workspace   *)
(* edit is refused when the editor has changed meanwhile.  The user types  *)
(* at any time, also into a render.                                        *)
(*                                                                         *)
(* A text is a sequence of characters, each of which is a number of its    *)
(* own; those that other clients wrote are negative.  They are characters  *)
(* of the Basic Multilingual Plane: VS Code counts UTF-16 code units and   *)
(* the CRDT chars, which are the same places in such texts only.           *)
(***************************************************************************)
EXTENDS Integers, SequencesExt

CONSTANTS EmptiedRoom,  \* a reconnect may find a room empty that had a log at first
          FastJoin,     \* a session may be joined before the editor has answered
                        \* the edits of the session before it
          MaxTyped,     \* bound: edits of the user
          MaxRemote,    \* bound: operations and texts from others
          MaxLives      \* bound: sessions

ASSUME DocumentAssumption ==
  {EmptiedRoom, FastJoin} \subseteq BOOLEAN /\ {MaxTyped, MaxRemote, MaxLives} \subseteq Nat

VARIABLES editor,     \* the text the user sees
          toHost,     \* messages from the editor to the extension
          document,   \* the same text as the extension knows it
          inSession,  \* session and crdt are set
          life,       \* sessionVersion: sessions begun
          crdt,       \* its visible text
          shadow,     \* documentShadowText
          seedText,
          seedSent,
          joined,     \* what the session was told first: an empty log or a text
          syncReady,
          depth,      \* applyingRemoteChangeDepth
          renders,    \* renderQueue: which of the waiting renders end a join
          edits,      \* workspace edits, by the session that made them
          typed,      \* edits of the user so far
          remote,     \* operations and texts from others so far
          stale       \* history: a change was ignored or an edit refused, and
                      \* nothing was rendered since

editorVars  == <<editor, typed>>
sessionVars == <<inSession, life, seedText, seedSent, joined>>
hostVars    == <<document, crdt, shadow, syncReady, depth, renders>>
vars        == <<editorVars, sessionVars, hostVars, toHost, edits, remote, stale>>

NoEdit == [state |-> "none", text |-> <<>>, fresh |-> FALSE]

ChangeMsg(changes, text, own) ==
  [type |-> "change", changes |-> changes, text |-> text, own |-> own]
ReplyMsg(l, applied) == [type |-> "reply", life |-> l, applied |-> applied]

-----------------------------------------------------------------------------
(* documentAdapter.  A change replaces del characters behind the first at.  *)

Splice(text, c) ==
  SubSeq(text, 1, c.at) \o c.ins \o SubSeq(text, c.at + c.del + 1, Len(text))

\* The changes of an event have places of their own.
Descending(changes) ==
  CHOOSE s \in [DOMAIN changes -> Range(changes)] :
    \A i, j \in DOMAIN changes : i < j => s[i].at > s[j].at

OutOfRange(text, changes) == \E c \in Range(changes) : c.at + c.del > Len(text)

ApplyTextChanges(text, changes) == FoldLeft(Splice, text, Descending(changes))

\* An insert lands at its index, or further right if what follows there is of
\* another client (InsertAtPosition of Replication fails).
Landings(text, at) ==
  {at} \cup {j \in at + 1..Len(text) : text[at + 1] < 0}

AfterChange(texts, c) ==
  LET Deleted(text)  == Splice(text, [c EXCEPT !.ins = <<>>])
      Inserted(text) == {Splice(text, [at |-> j, del |-> 0, ins |-> c.ins]) :
                           j \in Landings(text, c.at)}
  IN  UNION {Inserted(Deleted(text)) : text \in texts}

\* changesToOperations: the texts the CRDT may have after its operations.
ChangesToOperations(text, changes) ==
  FoldLeft(AfterChange, {text}, Descending(changes))

\* replaceDocumentText, of a document of n characters.
FullReplace(n, text) == <<[at |-> 0, del |-> n, ins |-> text]>>

-----------------------------------------------------------------------------
(* The editor.                                                             *)

\* All changes of an event are meant for the text before it.
Edited(text, changes) ==
  LET InsertedAt(p) == FlattenSeq([i \in DOMAIN changes |->
                          IF changes[i].at = p THEN changes[i].ins ELSE <<>>])
      IsDeleted(p)  == \E c \in Range(changes) : p \in c.at + 1..c.at + c.del
  IN  FlattenSeq([q \in 1..Len(text) + 1 |->
                   InsertedAt(q - 1) \o
                   IF q <= Len(text) /\ ~IsDeleted(q) THEN <<text[q]>> ELSE <<>>])

\* One cursor that inserts or deletes, or two, the first of which inserts and the
\* second deletes elsewhere, told in either order.
UserChanges(n, char) ==
  LET Insert(i) == [at |-> i, del |-> 0, ins |-> <<char>>]
      Delete(j) == [at |-> j, del |-> 1, ins |-> <<>>]
  IN  {<<Insert(i)>> : i \in 0..n} \cup {<<Delete(j)>> : j \in 0..n - 1}
        \cup {<<Insert(0), Delete(j)>> : j \in 1..n - 1}
        \cup {<<Delete(j), Insert(0)>> : j \in 1..n - 1}

Type ==
  /\ typed < MaxTyped
  /\ typed' = typed + 1
  /\ \E changes \in UserChanges(Len(editor), typed + 1) :
       /\ editor' = Edited(editor, changes)
       /\ toHost' = Append(toHost, ChangeMsg(changes, editor', FALSE))
  /\ edits' = [l \in DOMAIN edits |-> [edits[l] EXCEPT !.fresh = FALSE]]
  /\ UNCHANGED <<sessionVars, hostVars, remote, stale>>

\* The editor takes a workspace edit if it was made for the text there is.
EditorApplies(l) ==
  /\ edits[l].state = "sent"
  /\ edits[l].fresh
  /\ editor' = edits[l].text
  /\ toHost' = Append(toHost, ChangeMsg(FullReplace(Len(editor), editor'), editor', TRUE))
  /\ edits' = [m \in DOMAIN edits |-> [edits[m] EXCEPT
                 !.fresh = FALSE, !.state = IF m = l THEN "applied" ELSE @]]
  /\ stale' = IF l = life /\ inSession THEN FALSE ELSE stale
  /\ UNCHANGED <<sessionVars, hostVars, typed, remote>>

EditorReplies(l) ==
  /\ edits[l].state = "applied" \/ (edits[l].state = "sent" /\ ~edits[l].fresh)
  /\ toHost' = Append(toHost, ReplyMsg(l, edits[l].state = "applied"))
  /\ edits' = [edits EXCEPT ![l].state = "answered"]
  /\ UNCHANGED <<editorVars, sessionVars, hostVars, remote, stale>>

-----------------------------------------------------------------------------
(* Changes of the document.                                                *)

IgnoresChange_Never == ~inSession   \* mutant: no guard against own renders

IgnoresChange == ~inSession \/ depth > 0

RendersAfterEdit_Never(text, shown) == renders   \* mutant: no look at where it landed

\* The CRDT may have put the text elsewhere than the user.
RendersAfterEdit(text, shown) == IF text = shown THEN renders ELSE Append(renders, FALSE)

\* handleLocalDocumentChange, for the first message.
HandleLocalDocumentChange ==
  LET m    == Head(toHost)
      next == ApplyTextChanges(shadow, m.changes)
  IN  /\ toHost # <<>>
      /\ m.type = "change"
      /\ toHost' = Tail(toHost)
      /\ document' = m.text
      /\ IF IgnoresChange \/ ~syncReady
         THEN /\ stale' = (stale \/ (inSession /\ (~m.own \/ depth = 0)))
              /\ UNCHANGED <<crdt, shadow, renders>>
         ELSE IF shadow # crdt
         THEN /\ renders' = Append(renders, FALSE)
              /\ UNCHANGED <<crdt, shadow, stale>>
         ELSE IF OutOfRange(shadow, m.changes)
         THEN /\ stale' = TRUE
              /\ UNCHANGED <<crdt, shadow, renders>>
         ELSE IF next # m.text
         THEN /\ renders' = Append(renders, FALSE)
              /\ UNCHANGED <<crdt, shadow, stale>>
         ELSE /\ crdt' \in ChangesToOperations(crdt, m.changes)
              /\ shadow' = next
              /\ renders' = RendersAfterEdit(crdt', next)
              /\ UNCHANGED stale
      /\ UNCHANGED <<editorVars, sessionVars, syncReady, depth, edits, remote>>

-----------------------------------------------------------------------------
(* Rendering.                                                              *)

RenderEnds ==
  /\ renders' = Tail(renders)
  /\ syncReady' = (syncReady \/ Head(renders))

\* The first render begins, when the one before it has ended.
Render ==
  /\ renders # <<>>
  /\ edits[life].state = "none"
  /\ IF document = crdt
     THEN /\ shadow' = crdt
          /\ RenderEnds
          /\ UNCHANGED <<depth, edits>>
     ELSE /\ depth' = depth + 1
          /\ edits' = [edits EXCEPT ![life] =
                         [state |-> "sent", text |-> crdt,
                          fresh |-> \A m \in Range(toHost) : m.type # "change"]]
          /\ UNCHANGED <<shadow, renders, syncReady>>
  /\ UNCHANGED <<editorVars, sessionVars, document, crdt, toHost, remote, stale>>

\* The await of replaceDocumentText returns, also for a session that is over.
RenderReturns ==
  LET m       == Head(toHost)
      current == inSession /\ m.life = life
  IN  /\ toHost # <<>>
      /\ m.type = "reply"
      /\ toHost' = Tail(toHost)
      /\ depth' = IF depth > 0 THEN depth - 1 ELSE 0
      /\ shadow' = IF m.applied /\ current THEN edits[m.life].text ELSE shadow
      /\ edits' = [edits EXCEPT ![m.life] = NoEdit]
      /\ stale' = (stale \/ (current /\ ~m.applied))
      /\ IF current THEN RenderEnds ELSE UNCHANGED <<renders, syncReady>>
      /\ UNCHANGED <<editorVars, sessionVars, document, crdt, remote>>

-----------------------------------------------------------------------------
(* The session.                                                            *)

\* A render that a join waits for is not left behind (SlowRender of RelaySession).
MayChangeSession == \A i \in DOMAIN renders : ~renders[i]

ResetSession(text) ==
  /\ crdt' = <<>>
  /\ shadow' = text
  /\ depth' = 0
  /\ renders' = <<>>
  /\ syncReady' = FALSE
  /\ seedSent' = FALSE
  /\ joined' = "no"
  /\ UNCHANGED <<editorVars, document, toHost, edits, remote>>

Connect ==
  /\ life < MaxLives
  /\ MayChangeSession
  /\ inSession' = TRUE
  /\ life' = life + 1
  /\ seedText' = document
  /\ stale' = FALSE
  /\ ResetSession(document)

LeaveSession ==
  /\ inSession
  /\ MayChangeSession
  /\ inSession' = FALSE
  /\ ResetSession(<<>>)
  /\ UNCHANGED <<life, seedText, stale>>

MayJoin == FastJoin \/ \A l \in DOMAIN edits : l # life => edits[l].state = "none"

\* seedCrdtFromDocument, which seeds once.
Seeded == IF seedSent THEN crdt ELSE seedText \o crdt

\* handleTransportJoined for an empty log, at first or at a reconnect.
JoinedEmpty ==
  /\ inSession
  /\ MayJoin
  /\ joined # "text" \/ EmptiedRoom
  /\ joined' = IF joined = "no" THEN "empty" ELSE joined
  /\ seedSent' = TRUE
  /\ crdt' = Seeded
  /\ renders' = renders
  /\ syncReady' = TRUE
  /\ UNCHANGED <<editorVars, inSession, life, seedText, document, shadow, depth, toHost,
                 edits, remote, stale>>

Others == IF remote < MaxRemote THEN {<<>>, <<-(remote + 1)>>} ELSE {<<>>}

\* The first log that is not empty, or a snapshot, which makes ready at once.
JoinedText ==
  /\ inSession
  /\ joined = "no"
  /\ MayJoin
  /\ joined' = "text"
  /\ crdt' \in Others
  /\ remote' = remote + Len(crdt')
  /\ \E snapshot \in BOOLEAN :
       /\ syncReady' = snapshot
       /\ seedSent' = snapshot
       /\ renders' = Append(renders, ~snapshot)
  /\ UNCHANGED <<editorVars, inSession, life, seedText, document, shadow, depth, toHost,
                 edits, stale>>

RendersAfterOperation_None == renders   \* mutant: waits for the next local edit

RendersAfterOperation == Append(renders, FALSE)

\* handleTransportOperation for an operation that changes the text.
RemoteOperation ==
  /\ inSession
  /\ joined # "no"
  /\ remote < MaxRemote
  /\ remote' = remote + 1
  /\ \/ \E i \in 0..Len(crdt) :
          crdt' = Splice(crdt, [at |-> i, del |-> 0, ins |-> <<-(remote + 1)>>])
     \/ \E i \in DOMAIN crdt : crdt' = RemoveAt(crdt, i)
  /\ renders' = RendersAfterOperation
  /\ UNCHANGED <<editorVars, sessionVars, document, shadow, syncReady, depth, toHost, edits,
                 stale>>

-----------------------------------------------------------------------------
Init ==
  /\ editor = <<0>> /\ document = <<0>>
  /\ toHost = <<>>
  /\ inSession = FALSE /\ life = 0
  /\ crdt = <<>> /\ shadow = <<>> /\ seedText = <<>>
  /\ seedSent = FALSE /\ joined = "no" /\ syncReady = FALSE
  /\ depth = 0
  /\ renders = <<>>
  /\ edits = [l \in 1..MaxLives |-> NoEdit]
  /\ typed = 0 /\ remote = 0
  /\ stale = FALSE

EditorStep == \E l \in 1..MaxLives : EditorApplies(l) \/ EditorReplies(l)
HostStep   == HandleLocalDocumentChange \/ Render \/ RenderReturns

Next == \/ Type \/ EditorStep \/ HostStep
        \/ Connect \/ LeaveSession
        \/ JoinedEmpty \/ JoinedText \/ RemoteOperation

Spec == Init /\ [][Next]_vars

FairSpec == Spec /\ WF_vars(EditorStep \/ HostStep)

-----------------------------------------------------------------------------
(* Properties.                                                             *)

Quiet == toHost = <<>> /\ renders = <<>> /\ \A l \in DOMAIN edits : edits[l].state = "none"

\* When nothing is going on, the guard against own renders is released, or no
\* edit of the user would be shared again; and the user sees the text of the CRDT
\* and the shadow is that text too, whatever was typed, received, seeded and
\* rendered in which order, as long as a render has succeeded since a change was
\* last ignored.
DocumentFollowsCrdt ==
  Quiet => /\ depth = 0
           /\ syncReady /\ ~stale => editor = crdt /\ document = crdt /\ shadow = crdt

\* The extension does not interpret its own render as a local edit
\* (architecture.md:33), nor that of a session that was left meanwhile.
NoEcho == Head(toHost).own => crdt' = crdt

\* An edit that meets no render and a ready session is taken, however many
\* changes it has and in whatever order they are told.
EditInCalmIsTaken ==
  syncReady /\ depth = 0 /\ shadow = crdt /\ shadow = document
    => shadow' = Head(toHost).text

\* A change of the document is shared if the user made it and only then.
OnlyEditsAreTaken == [][HandleLocalDocumentChange => NoEcho /\ EditInCalmIsTaken]_vars

\* What others write is shown in the end, and what an edit became: renders end,
\* one after the other, and with the last of them the user sees the CRDT's text.
TextIsShown == <>[](syncReady /\ ~stale => editor = crdt)
=============================================================================
