--------------------------- MODULE ChatPageProofs ---------------------------
(***************************************************************************)
(* Proofs about ChatPage and the composer in it, for any conversations,    *)
(* texts, files and uploads, and any number of gestures and faults.  The   *)
(* properties of the page are not inductive: what is in the input is kept  *)
(* only because what the draft of the open conversation says otherwise is  *)
(* kept elsewhere too; no upload is forgotten only because a file that is  *)
(* being announced to the server has no upload yet and is announced once.  *)
(***************************************************************************)
EXTENDS ChatPage, TLAPS

\* Drafts, messages and the input: each text belongs to its conversation.
Own(v, c) == v /= NoText => v[1] = c

TextInv ==
    /\ \A c \in Conversations : Own(draft[c], c)
    /\ \A m \in sends \union pending : Own(m.text, m.conv)
    /\ InputIsOwn

\* A text that a change of the input and of one draft cannot lose.
Elsewhere(v) == v \in given \/ \E e \in pending : e.text = v

KeptInv ==
    /\ NoText \notin typed
    /\ TextIsKept
    /\ current /= Nowhere => \/ draft[current] \in {NoText, input}
                             \/ Elsewhere(draft[current])
    /\ current = Nowhere => input \in given \union {NoText}

\* The panel has unsent messages of the open conversation only.
PanelInv ==
    /\ \A e \in panel.unsent : e.conv = current
    /\ panel.kind = "unloaded" => panel.of /= Nowhere
    /\ panel.kind = "messages" => current /= Nowhere
    /\ PanelIsFaithful

\* Items and the uploads the server has for them.
Known(u, f, c) == u \in Uploads /\ uploads[u] /= NoOne /\ uploads[u].file = f /\ uploads[u].conv = c

ItemsInv ==
    /\ \A f \in Files : items[f].status /= "none" => items[f].conv \in Conversations
    /\ \A f \in Listed : items[f].status /= "none" /\ (items[f].conv = current \/ f \in strays)
    /\ \A f \in Files : items[f].id = NoUpload \/ Known(items[f].id, f, items[f].conv)
    /\ \A f \in Listed : items[f].status = "Rejected" =>
          f \in mixed \/ (items[f].id /= NoUpload /\ uploads[items[f].id].verdict = "Rejected")

\* A file that starts has no upload yet, and starts once.
Starting(t) == t.at \in {"cancelling", "intent"}

TasksInv ==
    /\ \A t \in tasks : items[t.file].status /= "none"
    /\ \A t \in tasks : t.at \in {"put", "complete", "poll"} => Known(t.id, t.file, items[t.file].conv)
    /\ \A t \in tasks : Starting(t) => t.id = NoUpload
    /\ \A t \in tasks : Starting(t) /\ t.file \notin mixed =>
          /\ items[t.file].id = NoUpload
          /\ items[t.file].status /= "Failed"
          /\ \A s \in tasks : Starting(s) /\ s.file = t.file => s = t

\* The files of what was posted.
FilesInv ==
    \A m \in sends \union pending : \A u \in m.files :
        uploads[u] /= NoOne /\ (uploads[u].conv = m.conv \/ uploads[u].file \in strays)

ComposerInv == /\ ComposerTypeOK /\ current \in Conversations \union {Nowhere}
               /\ ItemsInv /\ TasksInv /\ NothingIsLeftBehind


\* Types, by the part of the page.
TextTypes ==
    /\ input \in Values
    /\ draft \in [Conversations -> Values]
    /\ pending \subseteq Entry
    /\ sends \subseteq Message
    /\ isSendingMessage \in BOOLEAN
    /\ typed \subseteq Values /\ given \subseteq Values

PageTypes ==
    /\ joining \in Conversations \union {Nowhere}
    /\ loads \subseteq [conv: Conversations, aborted: BOOLEAN]
    /\ panel \in Panel
    /\ stored \in [Conversations -> 0..MaxMessages]

ListTypes ==
    /\ conversationsById \subseteq Conversations /\ access \subseteq Conversations
    /\ lists \subseteq [found: SUBSET Conversations, about: Conversations \union {Nowhere}]
    /\ strays \subseteq Files
    /\ gestures \in Nat /\ faults \in Nat

PageInv == /\ ComposerInv /\ FilesInv
           /\ TextTypes /\ TextInv /\ KeptInv
           /\ PageTypes /\ PanelInv
           /\ ListTypes

USE PlacesAssumption, UploadsAssumption, TextsAssumption, MessagesAssumption

----------------------------------------------------------------------------
(* What the operators of the composer do to one item and one task. *)

LEMMA StepEffect ==
    ASSUME tasks \subseteq Task, NEW t \in tasks, NEW at \in {"intent", "put", "complete", "poll", "wait"},
           NEW id \in Uploads \union {NoUpload}, Step(t, at, id)
    PROVE  /\ tasks' \subseteq Task
           /\ \E s \in Task : /\ s.file = t.file /\ s.at = at /\ s.id = id
                              /\ tasks' = (tasks \ {t}) \union {s}
<1> DEFINE s == [t EXCEPT !.at = at, !.id = id]
<1>1. t = [file |-> t.file, at |-> t.at, id |-> t.id, n |-> t.n] /\ t.file \in Files /\ t.n \in 0..2
    BY DEF Task
<1>2. s \in Task /\ s.file = t.file /\ s.at = at /\ s.id = id
    BY <1>1 DEF Task
<1>. QED  BY <1>2 DEF Step

LEMMA ShowsEffect ==
    ASSUME items \in [Files -> Item], NEW f \in Files, NEW status \in Status, Shows(f, status)
    PROVE  /\ items' \in [Files -> Item]
           /\ \A g \in Files \ {f} : items'[g] = items[g]
           /\ items'[f].status = status
           /\ \A g \in Files : /\ items'[g].listed = items[g].listed
                               /\ items'[g].conv = items[g].conv
                               /\ items'[g].id = items[g].id
                               /\ items'[g].cancelled = items[g].cancelled
BY DEF Shows, Item

LEMMA TakeAwayEffect ==
    ASSUME items \in [Files -> Item], tasks \subseteq Task, NEW S \in SUBSET Files, TakeAway(S)
    PROVE  /\ items' \in [Files -> Item]
           /\ tasks' \subseteq tasks
           /\ \A g \in Files : /\ items'[g].listed = (items[g].listed /\ g \notin S)
                               /\ items'[g].conv = items[g].conv
                               /\ items'[g].id = items[g].id
                               /\ items'[g].status = items[g].status
BY ZenonT(40) DEF TakeAway, Item
LEMMA KnownTyped ==
    ASSUME ComposerTypeOK, NEW u, NEW f, NEW c, Known(u, f, c) PROVE uploads[u] \in Upload
BY DEF ComposerTypeOK, Known
LEMMA UploadReal == ASSUME NEW u \in Upload PROVE u /= NoOne
BY DEF Upload, NoOne

\* What every step of the composer keeps of the uploads.
Grow ==
    \A u \in Uploads :
        uploads[u] /= NoOne =>
            /\ uploads'[u] /= NoOne
            /\ uploads'[u].file = uploads[u].file
            /\ uploads'[u].conv = uploads[u].conv
            /\ uploads[u].verdict = "Rejected" => uploads'[u].verdict = "Rejected"

\* The invariant of the composer, after a step.
Kept == ComposerInv' /\ Grow

\* NothingIsLeftBehind, upload by upload.
Held(u) == \E g \in Files : items[g].listed /\ items[g].id = u

LEMMA LeftIs ==
    /\ NothingIsLeftBehind <=>
          \A u \in Uploads :
              uploads[u] /= NoOne /\ u \notin told /\ u \notin bound
              /\ uploads[u].verdict /= "Rejected" /\ uploads[u].file \notin mixed => Held(u)
    /\ NothingIsLeftBehind' <=>
          \A u \in Uploads :
              uploads'[u] /= NoOne /\ u \notin told' /\ u \notin bound'
              /\ uploads'[u].verdict /= "Rejected" /\ uploads'[u].file \notin mixed' => Held(u)'
<1>1. \A u \in Uploads : u \in IdsOf(Listed) <=> Held(u)  BY DEF IdsOf, Listed, Held
<1>2. \A u \in Uploads : (u \in IdsOf(Listed))' <=> Held(u)'  BY DEF IdsOf, Listed, Held
<1>. QED  BY <1>1, <1>2 DEF NothingIsLeftBehind

LEMMA AddKept ==
    ASSUME ComposerInv, NEW f \in Files, AddFile(f), UNCHANGED <<current, strays>> PROVE Kept
<1> DEFINE t == [file |-> f, at |-> "intent", id |-> NoUpload, n |-> 0]
<1>1. /\ t \in Task /\ t.file = f /\ t.at = "intent" /\ t.id = NoUpload /\ tasks' = tasks \union {t}
    BY DEF AddFile, Task
<1>2. /\ items' \in [Files -> Item]
      /\ \A g \in Files \ {f} : items'[g] = items[g]
      /\ items'[f].listed /\ items'[f].conv = current /\ items'[f].id = NoUpload
      /\ items'[f].status = "Creating" /\ items'[f].cancelled = FALSE
    BY DEF AddFile, ComposerInv, ComposerTypeOK, Absent, Item, Status
<1> HIDE DEF t
<1>3. /\ current \in Conversations /\ items[f].status = "none"
      /\ UNCHANGED <<uploads, told, bound, mixed>>
    BY DEF AddFile, ComposerInv
<1>4. Grow  BY <1>3 DEF Grow
<1>5. ComposerTypeOK'  BY <1>1, <1>2, <1>3 DEF ComposerInv, ComposerTypeOK
<1>6. ItemsInv'  BY <1>2, <1>3 DEF ComposerInv, ItemsInv, Known, Listed
<1>7. TasksInv'
    <2>1. \A s \in tasks : s.file /= f  BY <1>3 DEF ComposerInv, TasksInv
    <2>2. \A s \in tasks : s.file \in Files  BY DEF ComposerInv, ComposerTypeOK, Task
    <2>3. \A s \in tasks : items'[s.file] = items[s.file]  BY <2>1, <2>2, <1>2
    <2>. QED  BY <1>1, <1>2, <1>3, <2>1, <2>2, <2>3 DEF ComposerInv, TasksInv, Known, Starting
<1>8. NothingIsLeftBehind'
    <2>1. IdsOf(Listed) \subseteq IdsOf(Listed)'  BY <1>2, <1>3 DEF IdsOf, Listed, ComposerInv, ItemsInv
    <2>. QED  BY <2>1, <1>3 DEF ComposerInv, NothingIsLeftBehind
<1>. QED  BY <1>3, <1>4, <1>5, <1>6, <1>7, <1>8 DEF Kept, ComposerInv

LEMMA IntentKept ==
    ASSUME ComposerInv, NEW t \in tasks, IntentAnswered(t), UNCHANGED <<current, strays>> PROVE Kept
<1>1. PICK u \in Uploads :
          /\ uploads[u] = NoOne
          /\ uploads' = [uploads EXCEPT ![u] =
                 [file |-> t.file, conv |-> items[t.file].conv, verdict |-> "none"]]
          /\ IF Unwanted(t.file)
             THEN told' = told \union {u} /\ Ends(t) /\ UNCHANGED items
             ELSE /\ items' = [items EXCEPT ![t.file].id = u, ![t.file].status = "Uploading"]
                  /\ Step(t, "put", u)
                  /\ UNCHANGED told
    BY DEF IntentAnswered
<1> DEFINE f == t.file
<1>2. /\ f \in Files /\ t \in Task /\ t.at = "intent" /\ UNCHANGED <<bound, mixed>>
      /\ items[f].conv \in Conversations
    BY DEF IntentAnswered, ComposerInv, ComposerTypeOK, Task, TasksInv, ItemsInv
<1>3. /\ uploads'[u] \in Upload /\ uploads'[u].file = f /\ uploads'[u].conv = items[f].conv
      /\ \A v \in Uploads \ {u} : uploads'[v] = uploads[v]
      /\ uploads' \in [Uploads -> Upload \union {NoOne}]
    BY <1>1, <1>2 DEF ComposerInv, ComposerTypeOK, Upload
<1>4. uploads'[u] /= NoOne  BY <1>3, UploadReal
<1>5. Grow  BY <1>1, <1>3 DEF Grow
<1>6. CASE Unwanted(f)
    <2>1. told' = told \union {u} /\ tasks' = tasks \ {t} /\ UNCHANGED items
        BY <1>1, <1>6 DEF Ends
    <2>2. ComposerTypeOK'  BY <2>1, <1>2, <1>3 DEF ComposerInv, ComposerTypeOK
    <2>3. ItemsInv'  BY ZenonT(40), <2>1, <1>1, <1>2, <1>3 DEF ComposerInv, ItemsInv, Known, Listed
    <2>4. TasksInv'  BY <2>1, <1>1, <1>2, <1>3 DEF ComposerInv, TasksInv, Known, Starting
    <2>5. NothingIsLeftBehind'
        BY <2>1, <1>1, <1>2, <1>3 DEF ComposerInv, NothingIsLeftBehind, IdsOf, Listed
    <2>. QED  BY <2>2, <2>3, <2>4, <2>5, <1>5 DEF Kept, ComposerInv
<1>7. CASE ~ Unwanted(f)
    <2>1. /\ items' = [items EXCEPT ![t.file].id = u, ![t.file].status = "Uploading"]
          /\ Step(t, "put", u) /\ UNCHANGED told
        BY <1>1, <1>7
    <2>2. /\ items' \in [Files -> Item]
          /\ \A g \in Files \ {f} : items'[g] = items[g]
          /\ items'[f].listed = items[f].listed /\ items'[f].conv = items[f].conv
          /\ items'[f].id = u /\ items'[f].status = "Uploading"
        BY <2>1, <1>2 DEF ComposerInv, ComposerTypeOK, Item, Status
    <2>3. PICK s \in Task : s.file = f /\ s.at = "put" /\ s.id = u /\ tasks' = (tasks \ {t}) \union {s}
        BY <2>1, StepEffect DEF ComposerInv, ComposerTypeOK
    <2>4. f \in Listed  BY <1>7 DEF Unwanted
    <2>5. ComposerTypeOK'  BY <2>1, <2>2, <2>3, <1>2, <1>3 DEF ComposerInv, ComposerTypeOK
    <2>6. ItemsInv'
        <3>1. \A v \in Uploads, g \in Files, c \in Conversations \union {Nowhere} :
                  Known(v, g, c) => Known(v, g, c)' /\ uploads'[v] = uploads[v]
            BY <1>1, <1>3 DEF Known
        <3>2. \A g \in Files : g \in Listed' <=> g \in Listed  BY <2>2 DEF Listed
        <3>3. Known(u, f, items[f].conv)'  BY <2>2, <1>1, <1>3, <1>4 DEF Known
        <3>4. /\ ItemsInv /\ Listed \subseteq Files /\ Listed' \subseteq Files
              /\ \A g \in Files : /\ items[g].conv \in Conversations \union {Nowhere}
                                  /\ items[g].id \in Uploads \union {NoUpload}
            BY DEF ComposerInv, ComposerTypeOK, Listed, Item
        <3>. QED  BY <3>1, <3>2, <3>3, <3>4, <2>2, <2>4, <1>1, <1>2 DEF ItemsInv
    <2>7. TasksInv'
        <3>1. \A r \in tasks' : items'[r.file].status /= "none"
            BY <2>2, <2>3, <1>2 DEF ComposerInv, ComposerTypeOK, Task, TasksInv
        <3>2. \A r \in tasks' : r.at \in {"put", "complete", "poll"} =>
                  /\ r.id \in Uploads /\ uploads'[r.id] /= NoOne
                  /\ uploads'[r.id].file = r.file /\ uploads'[r.id].conv = items'[r.file].conv
            BY <2>2, <2>3, <1>1, <1>2, <1>3, <1>4 DEF ComposerInv, ComposerTypeOK, Task, TasksInv, Known
        <3>3. \A r \in tasks' : Starting(r) => r \in tasks \ {t}
            BY <2>3 DEF Starting
        <3>4. ASSUME NEW r \in tasks', Starting(r), r.file \notin mixed'
              PROVE  /\ items'[r.file].id = NoUpload
                     /\ items'[r.file].status /= "Failed"
                     /\ \A q \in tasks' : Starting(q) /\ q.file = r.file => q = r
            <4>1. r \in tasks \ {t} /\ r \in Task /\ r.file \in Files
                BY <3>3, <3>4 DEF ComposerInv, ComposerTypeOK, Task
            <4>2. r.file /= f  BY <4>1, <3>4, <1>2 DEF ComposerInv, TasksInv, Starting
            <4>. QED  BY <4>1, <4>2, <3>3, <3>4, <2>2, <1>2 DEF ComposerInv, TasksInv
        <3>. QED  BY <3>1, <3>2, <3>3, <3>4 DEF TasksInv, Known, ComposerInv, Starting
    <2>8. NothingIsLeftBehind'
        <3>1. SUFFICES ASSUME NEW v \in Uploads, uploads'[v] /= NoOne,
                              v \notin told, v \notin bound, uploads'[v].verdict /= "Rejected",
                              uploads'[v].file \notin mixed
                       PROVE  \E g \in Files : items'[g].listed /\ items'[g].id = v
            BY LeftIs, <2>1, <1>2 DEF Held
        <3>2. CASE v = u  BY <3>2, <2>2, <2>4, <1>2 DEF Listed
        <3>3. CASE v /= u
            <4>1. uploads'[v] = uploads[v]  BY <3>3, <1>3
            <4>2. PICK g \in Listed : items[g].id = v
                BY <4>1, <3>1 DEF ComposerInv, NothingIsLeftBehind, IdsOf
            <4>3. uploads[v].file = g
                BY <4>2 DEF ComposerInv, ItemsInv, Known, Listed
            <4>4. g /= f
                BY <4>1, <4>2, <4>3, <3>1, <1>2 DEF ComposerInv, TasksInv, Starting
            <4>. QED  BY <4>2, <4>4, <2>2 DEF Listed
        <3>. QED  BY <3>2, <3>3
    <2>. QED  BY <2>5, <2>6, <2>7, <2>8, <1>5 DEF Kept, ComposerInv
<1>. QED  BY <1>6, <1>7

\* Task t goes on as Z, and its item shows a status.
Shown(t, Z, status) ==
    /\ tasks' = (tasks \ {t}) \union Z
    /\ Z \subseteq Task
    /\ \A s \in Z : /\ s.file = t.file /\ s.at \in {"complete", "poll", "wait"}
                    /\ s.at /= "wait" => Known(s.id, t.file, items[t.file].conv)
    /\ status \in Status \ {"none"}
    /\ items' \in [Files -> Item]
    /\ \A g \in Files \ {t.file} : items'[g] = items[g]
    /\ items'[t.file].status = status
    /\ \A g \in Files : /\ items'[g].listed = items[g].listed /\ items'[g].conv = items[g].conv
                        /\ items'[g].id = items[g].id

\* A verdict is the item's own or the item is mixed, and a failure that is shown
\* while the file starts anew is another upload's.
Explained(t, status) ==
    /\ mixed \subseteq mixed' /\ mixed' \subseteq Files
    /\ status = "Rejected" => \/ t.file \in mixed'
                              \/ items[t.file].status = "Rejected"
                              \/ /\ items[t.file].id /= NoUpload
                                 /\ uploads'[items[t.file].id].verdict = "Rejected"
    /\ status = "Failed" => t.file \in mixed' \/ \A r \in tasks' : ~ (Starting(r) /\ r.file = t.file)

\* The server knows more of the uploads it knew, and of no others.
Learnt ==
    /\ uploads' \in [Uploads -> Upload \union {NoOne}]
    /\ Grow
    /\ \A u \in Uploads : uploads'[u] /= NoOne => uploads[u] /= NoOne
    /\ told \subseteq told' /\ told' \subseteq Uploads

LEMMA ShownKept ==
    ASSUME ComposerInv, UNCHANGED <<current, strays, bound>>, NEW t \in tasks, NEW Z, NEW status,
           Shown(t, Z, status), Explained(t, status), Learnt
    PROVE  Kept
<1> DEFINE f == t.file
<1> USE DEF Shown, Explained, Learnt
<1>1. f \in Files /\ \A r \in tasks : r \in Task /\ r.file \in Files
    BY DEF ComposerInv, ComposerTypeOK, Task
<1>2. ComposerTypeOK'  BY DEF ComposerInv, ComposerTypeOK, Shown, Explained, Learnt
<1>3. \A u \in Uploads : uploads[u] /= NoOne =>
          uploads'[u] /= NoOne /\ uploads'[u].file = uploads[u].file /\ uploads'[u].conv = uploads[u].conv
          /\ (uploads[u].verdict = "Rejected" => uploads'[u].verdict = "Rejected")
    BY DEF Learnt, Grow
<1>4. ItemsInv'
    <2>1. \A g \in Files : items'[g].status /= "none" => items'[g].conv \in Conversations
        BY <1>1 DEF ComposerInv, ItemsInv, TasksInv
    <2>2. \A g \in Files : items'[g].listed => items'[g].status /= "none" /\ (items'[g].conv = current' \/ g \in strays')
        BY <1>1 DEF ComposerInv, ItemsInv, Listed
    <2>3. \A g \in Files : \/ items'[g].id = NoUpload
                            \/ /\ items'[g].id \in Uploads /\ uploads'[items'[g].id] /= NoOne
                               /\ uploads'[items'[g].id].file = g
                               /\ uploads'[items'[g].id].conv = items'[g].conv
        <3>1. ASSUME NEW g \in Files, items[g].id /= NoUpload
              PROVE  /\ items[g].id \in Uploads /\ uploads'[items[g].id] /= NoOne
                     /\ uploads'[items[g].id].file = g /\ uploads'[items[g].id].conv = items[g].conv
            <4> DEFINE v == items[g].id
            <4>1. Known(v, g, items[g].conv)  BY <3>1 DEF ComposerInv, ItemsInv
            <4>2. v \in Uploads /\ uploads[v] /= NoOne /\ uploads[v].file = g /\ uploads[v].conv = items[g].conv
                BY <4>1 DEF Known
            <4> HIDE DEF v
            <4>3. uploads'[v] /= NoOne /\ uploads'[v].file = g /\ uploads'[v].conv = items[g].conv
                BY <4>2, <1>3
            <4>. QED  BY <4>2, <4>3 DEF v
        <3>. QED  BY <3>1
    <2>4. ASSUME NEW g \in Files, items'[g].listed, items'[g].status = "Rejected", g \notin mixed'
          PROVE  items'[g].id /= NoUpload /\ uploads'[items'[g].id].verdict = "Rejected"
        <3>1. CASE items[g].status = "Rejected"
            <4>1. items[g].id /= NoUpload /\ uploads[items[g].id].verdict = "Rejected"
                BY <2>4, <3>1 DEF ComposerInv, ItemsInv, Listed
            <4>2. items[g].id \in Uploads /\ uploads[items[g].id] /= NoOne
                BY <4>1 DEF ComposerInv, ItemsInv, Known
            <4>. QED  BY <4>1, <4>2, <1>3
        <3>2. CASE items[g].status /= "Rejected"
            <4>1. g = f  BY <2>4, <3>2
            <4>. QED  BY <2>4, <3>2, <4>1
        <3>. QED  BY <3>1, <3>2
    <2>. QED  BY <2>1, <2>2, <2>3, <2>4 DEF ItemsInv, Known, Listed
<1>5. TasksInv'
    <2>1. \A r \in tasks' : r \in Task /\ r.file \in Files /\ items'[r.file].status /= "none"
        BY <1>1 DEF ComposerInv, TasksInv
    <2>2. ASSUME NEW r \in tasks', r.at \in {"put", "complete", "poll"}
          PROVE  /\ r.id \in Uploads /\ uploads'[r.id] /= NoOne
                 /\ uploads'[r.id].file = r.file /\ uploads'[r.id].conv = items'[r.file].conv
        <3>1. Known(r.id, r.file, items[r.file].conv)
            BY <2>2 DEF ComposerInv, TasksInv
        <3>. QED  BY <3>1, <2>1, <1>3 DEF Known
    <2>3. \A r \in tasks' : Starting(r) => r \in tasks /\ r \notin Z  BY DEF Starting
    <2>4. ASSUME NEW r \in tasks', Starting(r), r.file \notin mixed'
          PROVE  /\ items'[r.file].id = NoUpload
                 /\ items'[r.file].status /= "Failed"
                 /\ \A q \in tasks' : Starting(q) /\ q.file = r.file => q = r
        <3>1. /\ r \in tasks /\ r.file \notin mixed
              /\ items[r.file].id = NoUpload /\ items[r.file].status /= "Failed"
              /\ \A q \in tasks : Starting(q) /\ q.file = r.file => q = r
            BY <2>3, <2>4 DEF ComposerInv, TasksInv
        <3>2. items'[r.file].status /= "Failed"  BY <3>1, <2>1, <2>4
        <3>. QED  BY <3>1, <3>2, <2>1, <2>3
    <2>5. \A r \in tasks' : Starting(r) => r.id = NoUpload
        BY <2>3 DEF ComposerInv, TasksInv
    <2>. QED  BY <2>1, <2>2, <2>4, <2>5 DEF TasksInv, Known, Starting
<1>6. NothingIsLeftBehind'
    <2>1. \A u \in Uploads : Held(u) => Held(u)'  BY DEF Held
    <2>. QED  BY <2>1, <1>3, LeftIs DEF ComposerInv
<1>. QED  BY <1>2, <1>4, <1>5, <1>6 DEF Kept, ComposerInv

LEMMA EndedIs ==
    ASSUME NEW t, NEW status, status \in Status \ {"none"}, Ends(t),
           items' \in [Files -> Item],
           \A g \in Files \ {t.file} : items'[g] = items[g],
           items'[t.file].status = status,
           \A g \in Files : /\ items'[g].listed = items[g].listed /\ items'[g].conv = items[g].conv
                            /\ items'[g].id = items[g].id
    PROVE  Shown(t, {}, status)
BY DEF Shown, Ends

LEMMA TaskFacts ==
    ASSUME ComposerInv, NEW t \in tasks
    PROVE  /\ items \in [Files -> Item] /\ tasks \subseteq Task
           /\ uploads \in [Uploads -> Upload \union {NoOne}]
           /\ told \subseteq Uploads /\ mixed \subseteq Files
           /\ t \in Task /\ t.file \in Files
           /\ items[t.file] \in Item /\ items[t.file].status \in Status \ {"none"}
           /\ items[t.file].id \in Uploads \union {NoUpload}
           /\ items[t.file].id /= NoUpload => Known(items[t.file].id, t.file, items[t.file].conv)
           /\ t.at \in {"put", "complete", "poll"} => Known(t.id, t.file, items[t.file].conv)
BY DEF ComposerInv, ComposerTypeOK, ItemsInv, TasksInv, Task, Item

\* Nothing but a status changes, which is shown by a task that ends.
LEMMA EndsShown ==
    ASSUME ComposerInv, NEW t \in tasks, Ends(t), NEW status \in Status \ {"none"}, Shows(t.file, status)
    PROVE  Shown(t, {}, status)
BY EndedIs, ShowsEffect, TaskFacts

LEMMA EndsQuiet ==
    ASSUME ComposerInv, NEW t \in tasks, Ends(t), UNCHANGED items
    PROVE  Shown(t, {}, items[t.file].status)
BY EndedIs, TaskFacts

LEMMA StepShown ==
    ASSUME ComposerInv, NEW t \in tasks, NEW at \in {"complete", "poll", "wait"},
           NEW id \in Uploads \union {NoUpload}, Step(t, at, id),
           at /= "wait" => Known(id, t.file, items[t.file].conv),
           NEW status \in Status \ {"none"}, Shows(t.file, status)
    PROVE  \E Z : Shown(t, Z, status)
<1>1. PICK s \in Task : s.file = t.file /\ s.at = at /\ s.id = id /\ tasks' = (tasks \ {t}) \union {s}
    BY StepEffect, TaskFacts
<1>2. Shown(t, {s}, status)
    BY <1>1, TaskFacts, ShowsEffect DEF Shown
<1>. QED  BY <1>2

LEMMA StepQuiet ==
    ASSUME ComposerInv, NEW t \in tasks, NEW at \in {"complete", "poll", "wait"},
           NEW id \in Uploads \union {NoUpload}, Step(t, at, id),
           at /= "wait" => Known(id, t.file, items[t.file].conv),
           UNCHANGED items
    PROVE  \E Z : Shown(t, Z, items[t.file].status)
<1>1. PICK s \in Task : s.file = t.file /\ s.at = at /\ s.id = id /\ tasks' = (tasks \ {t}) \union {s}
    BY StepEffect, TaskFacts
<1>2. Shown(t, {s}, items[t.file].status)
    BY <1>1, TaskFacts DEF Shown
<1>. QED  BY <1>2

LEMMA AsksShown ==
    ASSUME ComposerInv, NEW t \in tasks, Asks(t), NEW status \in Status \ {"none"}, Shows(t.file, status)
    PROVE  \E Z : Shown(t, Z, status)
<1> DEFINE id == items[t.file].id
<1>1. CASE items[t.file].cancelled \/ id = NoUpload
    BY <1>1, EndsShown DEF Asks
<1>2. CASE ~ (items[t.file].cancelled \/ id = NoUpload)
    <2>1. Step(t, "poll", id) /\ Known(id, t.file, items[t.file].conv) /\ id \in Uploads
        BY <1>2, TaskFacts DEF Asks, Known
    <2>. QED  BY <2>1, StepShown
<1>. QED  BY <1>1, <1>2

LEMMA AsksQuiet ==
    ASSUME ComposerInv, NEW t \in tasks, Asks(t), UNCHANGED items
    PROVE  \E Z : Shown(t, Z, items[t.file].status)
<1> DEFINE id == items[t.file].id
<1>1. CASE items[t.file].cancelled \/ id = NoUpload
    BY <1>1, EndsQuiet DEF Asks
<1>2. CASE ~ (items[t.file].cancelled \/ id = NoUpload)
    <2>1. Step(t, "poll", id) /\ Known(id, t.file, items[t.file].conv) /\ id \in Uploads
        BY <1>2, TaskFacts DEF Asks, Known
    <2>. QED  BY <2>1, StepQuiet
<1>. QED  BY <1>1, <1>2

LEMMA SameUploads ==
    ASSUME ComposerInv, uploads' = uploads, told \subseteq told', told' \subseteq Uploads
    PROVE  Learnt
<1>1. uploads' \in [Uploads -> Upload \union {NoOne}]  BY DEF ComposerInv, ComposerTypeOK
<1>2. Grow  BY DEF Grow
<1>. QED  BY <1>1, <1>2 DEF Learnt

\* A status that stays, of a task that is no start or was the only one.
LEMMA QuietExplained ==
    ASSUME ComposerInv, NEW t \in tasks, UNCHANGED mixed, \A r \in tasks' : Starting(r) => r \in tasks
    PROVE  Explained(t, items[t.file].status)
BY TaskFacts DEF ComposerInv, TasksInv, Explained

LEMMA PutKept ==
    ASSUME ComposerInv, NEW t \in tasks, PutDone(t), UNCHANGED <<current, strays>> PROVE Kept
<1>1. t.at = "put" /\ UNCHANGED <<uploads, bound, mixed>>  BY DEF PutDone
<1>2. Known(t.id, t.file, items[t.file].conv) /\ t.id \in Uploads  BY <1>1, TaskFacts DEF Known
<1>3. CASE items[t.file].cancelled \/ t.file \notin Listed
    <2>1. told' = told \union {t.id} /\ Ends(t) /\ UNCHANGED items  BY <1>3 DEF PutDone
    <2>2. Explained(t, items[t.file].status)  BY <1>1, <2>1, QuietExplained DEF Ends
    <2>3. Learnt  BY <1>1, <1>2, <2>1, TaskFacts, SameUploads
    <2>. QED  BY <1>1, <2>1, <2>2, <2>3, EndsQuiet, ShownKept
<1>4. CASE ~ (items[t.file].cancelled \/ t.file \notin Listed)
    <2>1. Shows(t.file, "Uploaded") /\ Step(t, "complete", t.id) /\ UNCHANGED told
        BY <1>4 DEF PutDone
    <2>2. "Uploaded" \in Status \ {"none"} /\ Explained(t, "Uploaded")
        BY <1>1, TaskFacts DEF Status, Explained
    <2>3. Learnt  BY <1>1, <2>1, TaskFacts, SameUploads
    <2>4. \E Z : Shown(t, Z, "Uploaded")  BY <1>2, <2>1, <2>2, StepShown
    <2>. QED  BY <1>1, <2>2, <2>3, <2>4, ShownKept
<1>. QED  BY <1>3, <1>4

LEMMA CompleteKept ==
    ASSUME ComposerInv, NEW t \in tasks, Completed(t), UNCHANGED <<current, strays>> PROVE Kept
<1>1. Shows(t.file, "Uploaded") /\ Asks(t) /\ UNCHANGED <<uploads, told, bound, mixed>>
    BY DEF Completed
<1>2. "Uploaded" \in Status \ {"none"} /\ Explained(t, "Uploaded")
    BY <1>1, TaskFacts DEF Status, Explained
<1>3. Learnt  BY <1>1, TaskFacts, SameUploads
<1>4. \E Z : Shown(t, Z, "Uploaded")  BY <1>1, <1>2, AsksShown
<1>. QED  BY <1>1, <1>2, <1>3, <1>4, ShownKept

LEMMA AgainKept ==
    ASSUME ComposerInv, NEW t \in tasks, PollAgain(t), UNCHANGED <<current, strays>> PROVE Kept
<1>1. t.at = "wait" /\ Asks(t) /\ UNCHANGED <<items, uploads, told, bound, mixed>>
    BY DEF PollAgain
<1>2. \A r \in tasks' : Starting(r) => r \in tasks
    <2>1. CASE items[t.file].cancelled \/ items[t.file].id = NoUpload
        BY <1>1, <2>1 DEF Asks, Ends
    <2>2. CASE ~ (items[t.file].cancelled \/ items[t.file].id = NoUpload)
        <3>1. Step(t, "poll", items[t.file].id)  BY <1>1, <2>2 DEF Asks
        <3>2. \E s \in Task : s.at = "poll" /\ tasks' = (tasks \ {t}) \union {s}
            BY <3>1, StepEffect, TaskFacts
        <3>. QED  BY <3>2 DEF Starting
    <2>. QED  BY <2>1, <2>2
<1>3. Explained(t, items[t.file].status)  BY <1>1, <1>2, QuietExplained
<1>4. Learnt  BY <1>1, TaskFacts, SameUploads
<1>5. \E Z : Shown(t, Z, items[t.file].status)  BY <1>1, AsksQuiet
<1>. QED  BY <1>1, <1>3, <1>4, <1>5, ShownKept

LEMMA FailsKept ==
    ASSUME ComposerInv, NEW t \in tasks, TaskFails(t), UNCHANGED <<current, strays>> PROVE Kept
<1>1. /\ t.at \in {"intent", "put", "complete", "poll"}
      /\ Ends(t) /\ tasks' = tasks \ {t}
      /\ mixed' = IF t.id /= items[t.file].id THEN mixed \union {t.file} ELSE mixed
      /\ UNCHANGED <<uploads, told, bound>>
    BY DEF TaskFails, Ends
<1>2. mixed \subseteq mixed' /\ mixed' \subseteq Files  BY <1>1, TaskFacts
<1>3. t.file \in mixed' \/ \A r \in tasks' : ~ (Starting(r) /\ r.file = t.file)
    <2>1. SUFFICES ASSUME t.file \notin mixed', NEW r \in tasks', Starting(r), r.file = t.file
                   PROVE FALSE
        OBVIOUS
    <2>2. r \in tasks /\ r /= t /\ r.file \notin mixed /\ t.file \notin mixed  BY <1>1, <1>2, <2>1
    <2>3. items[t.file].id = NoUpload /\ t.id = NoUpload
        BY <1>1, <2>1, <2>2 DEF ComposerInv, TasksInv
    <2>4. t.at = "intent"  BY <1>1, <2>3, TaskFacts DEF Known
    <2>. QED  BY <2>1, <2>2, <2>4 DEF ComposerInv, TasksInv, Starting
<1>6. Learnt  BY <1>1, TaskFacts, SameUploads
<1>4. CASE items[t.file].cancelled
    <2>1. UNCHANGED items  BY <1>4 DEF TaskFails
    <2>2. Explained(t, items[t.file].status)  BY <1>2, <1>3 DEF Explained
    <2>. QED  BY <1>1, <2>1, <2>2, EndsQuiet, <1>6, ShownKept
<1>5. CASE ~ items[t.file].cancelled
    <2>1. Shows(t.file, "Failed") /\ "Failed" \in Status \ {"none"}  BY <1>5 DEF TaskFails, Status
    <2>2. Explained(t, "Failed")  BY <1>2, <1>3 DEF Explained
    <2>. QED  BY <1>1, <2>1, <2>2, EndsShown, <1>6, ShownKept
<1>. QED  BY <1>4, <1>5

LEMMA PollKept ==
    ASSUME ComposerInv, NEW t \in tasks, PollAnswered(t), UNCHANGED <<current, strays>> PROVE Kept
<1>1. PICK answer \in Answers(t.id) :
        \/ /\ answer \in Terminal
           /\ uploads' = [uploads EXCEPT ![t.id].verdict = answer]
           /\ Shows(t.file, answer)
           /\ Ends(t)
        \/ /\ answer \notin Terminal
           /\ UNCHANGED uploads
           /\ \/ Shows(t.file, answer) /\ Step(t, "wait", NoUpload)
              \/ Shows(t.file, "TimedOut") /\ Ends(t)
    BY DEF PollAnswered
<1>2. /\ t.at = "poll" /\ UNCHANGED <<told, bound>>
      /\ mixed' = IF t.id /= items[t.file].id THEN mixed \union {t.file} ELSE mixed
    BY DEF PollAnswered
<1>3. mixed \subseteq mixed' /\ mixed' \subseteq Files  BY <1>2, TaskFacts
<1>4. Known(t.id, t.file, items[t.file].conv) /\ t.id \in Uploads /\ uploads[t.id] \in Upload
    BY <1>2, TaskFacts DEF Known
<1>5. CASE answer \in Terminal
    <2>1. /\ uploads' = [uploads EXCEPT ![t.id].verdict = answer]
          /\ Shows(t.file, answer) /\ Ends(t)
        BY <1>1, <1>5
    <2>2. answer \in {"Ready", "Rejected"}  BY <1>5 DEF Terminal, Bad
    <2>3. /\ uploads'[t.id] \in Upload /\ uploads'[t.id].file = uploads[t.id].file
          /\ uploads'[t.id].conv = uploads[t.id].conv /\ uploads'[t.id].verdict = answer
          /\ \A u \in Uploads \ {t.id} : uploads'[u] = uploads[u]
          /\ uploads' \in [Uploads -> Upload \union {NoOne}]
        BY <2>1, <2>2, <1>4, TaskFacts DEF Upload
    <2>4. uploads'[t.id] /= NoOne  BY <2>3, UploadReal
    <2>5. uploads[t.id].verdict = "Rejected" => answer = "Rejected"
        BY <1>5, <2>2 DEF Answers, Terminal, Bad
    <2>6. Learnt
        BY <2>3, <2>4, <2>5, <1>2, <1>4, TaskFacts DEF Learnt, Grow, Known
    <2>7. answer \in Status \ {"none"}  BY <2>2 DEF Status
    <2>8. Explained(t, answer)  BY <1>2, <1>3, <1>4, <2>2, <2>3 DEF Explained
    <2>. QED  BY <1>2, <2>1, <2>6, <2>7, <2>8, EndsShown, ShownKept
<1>6. CASE answer \notin Terminal
    <2>1. answer = "Uploaded"
        <3>1. uploads[t.id].verdict \in {"none", "Ready", "Rejected"}  BY <1>4 DEF Upload
        <3>. QED  BY <3>1, <1>6 DEF Answers, Terminal, Bad
    <2>2. /\ "Uploaded" \in Status \ {"none"} /\ "TimedOut" \in Status \ {"none"}
          /\ Explained(t, "Uploaded") /\ Explained(t, "TimedOut")
        BY <1>3 DEF Status, Explained
    <2>3. Learnt  BY <1>1, <1>2, <1>6, TaskFacts, SameUploads
    <2>4. CASE Shows(t.file, "Uploaded") /\ Step(t, "wait", NoUpload)
        <3>1. \E Z : Shown(t, Z, "Uploaded")  BY <2>2, <2>4, StepShown
        <3>. QED  BY <1>2, <2>2, <2>3, <3>1, ShownKept
    <2>5. CASE Shows(t.file, "TimedOut") /\ Ends(t)
        BY <1>2, <2>2, <2>3, <2>5, EndsShown, ShownKept
    <2>. QED  BY <1>1, <1>6, <2>1, <2>4, <2>5
<1>. QED  BY <1>5, <1>6

LEMMA FewerItems ==
    ASSUME ComposerInv,
           \A g \in Files : /\ items'[g].listed => items[g].listed /\ current' = current
                            /\ items'[g].conv = items[g].conv
                            /\ items'[g].id = items[g].id
                            /\ items'[g].status = items[g].status,
           uploads' = uploads, strays' = strays, mixed' = mixed
    PROVE  ItemsInv'
<1>1. \A g \in Files : items'[g].status /= "none" => items'[g].conv \in Conversations
    BY DEF ComposerInv, ItemsInv
<1>2. \A g \in Files : items'[g].listed => items'[g].status /= "none" /\ (items'[g].conv = current' \/ g \in strays')
    BY DEF ComposerInv, ItemsInv, Listed
<1>3. \A g \in Files : items'[g].id = NoUpload \/ Known(items[g].id, g, items[g].conv)
    BY DEF ComposerInv, ItemsInv
<1>4. \A g \in Files : items'[g].listed /\ items'[g].status = "Rejected" =>
          g \in mixed' \/ (items'[g].id /= NoUpload /\ uploads'[items'[g].id].verdict = "Rejected")
    BY DEF ComposerInv, ItemsInv, Listed
<1>. QED  BY <1>1, <1>2, <1>3, <1>4 DEF ItemsInv, Known, Listed

\* Items are taken out of the list. The server is told of the uploads, or has
\* refused them.
LEMMA TakenKept ==
    ASSUME ComposerInv, NEW S \in SUBSET Files, TakeAway(S), strays' = strays,
           current' = current \/ (current' \in Conversations \union {Nowhere} /\ Listed \subseteq S),
           told \subseteq told', told' \subseteq Uploads,
           \A g \in S \intersect Listed : \/ items[g].id \in told' \union {NoUpload}
                                          \/ g \in mixed
                                          \/ uploads[items[g].id].verdict = "Rejected"
    PROVE  Kept
<1>1. /\ items' \in [Files -> Item] /\ tasks' \subseteq tasks
      /\ \A g \in Files : /\ items'[g].listed = (items[g].listed /\ g \notin S)
                          /\ items'[g].conv = items[g].conv
                          /\ items'[g].id = items[g].id
                          /\ items'[g].status = items[g].status
    BY TakeAwayEffect DEF ComposerInv, ComposerTypeOK
<1>2. UNCHANGED <<uploads, bound, mixed>>  BY DEF TakeAway
<1>3. Grow  BY <1>2 DEF Grow
<1>4. ComposerTypeOK' /\ current' \in Conversations \union {Nowhere}
    BY <1>1, <1>2 DEF ComposerInv, ComposerTypeOK
<1>5. ItemsInv'
    <2>1. \A g \in Files : items'[g].listed => items[g].listed /\ current' = current
        BY <1>1 DEF Listed
    <2>. QED  BY <2>1, <1>1, <1>2, FewerItems
<1>6. TasksInv'
    <2>1. \A t \in tasks : t.file \in Files  BY DEF ComposerInv, ComposerTypeOK, Task
    <2>. QED  BY <2>1, <1>1, <1>2 DEF ComposerInv, TasksInv, Known, Starting
<1>7. NothingIsLeftBehind'
    <2>1. ASSUME NEW u \in Uploads, uploads'[u] /= NoOne, u \notin told', u \notin bound',
                 uploads'[u].verdict /= "Rejected", uploads'[u].file \notin mixed'
          PROVE  Held(u)'
        <3>1. Held(u)  BY <2>1, <1>2, LeftIs DEF ComposerInv
        <3>2. PICK g \in Files : items[g].listed /\ items[g].id = u  BY <3>1 DEF Held
        <3>3. uploads[u].file = g  BY <3>2 DEF ComposerInv, ItemsInv, Known
        <3>4. g \notin S  BY <3>2, <3>3, <2>1, <1>2 DEF Listed
        <3>. QED  BY <3>2, <3>4, <1>1 DEF Held
    <2>. QED  BY <2>1, LeftIs
<1>. QED  BY <1>3, <1>4, <1>5, <1>6, <1>7 DEF Kept, ComposerInv

LEMMA CancelKept ==
    ASSUME ComposerInv, NEW S \in SUBSET Listed, Cancel(S), strays' = strays,
           current' = current \/ (current' \in Conversations \union {Nowhere} /\ Listed \subseteq S)
    PROVE  Kept
<1>1. S \in SUBSET Files  BY DEF Listed
<1>2. \A g \in S : items[g].id \in Uploads \union {NoUpload}
    BY <1>1 DEF ComposerInv, ComposerTypeOK, Item
<1>3. told' = told \union IdsOf(S) /\ TakeAway(S)  BY DEF Cancel
<1>4. told \subseteq told' /\ told' \subseteq Uploads
    BY <1>2, <1>3 DEF ComposerInv, ComposerTypeOK, IdsOf
<1>5. \A g \in S \intersect Listed : items[g].id \in told' \union {NoUpload}
    BY <1>3 DEF IdsOf
<1>. QED  BY <1>1, <1>3, <1>4, <1>5, TakenKept

LEMMA RemoveKept ==
    ASSUME ComposerInv, NEW f \in Files, Remove(f), UNCHANGED <<current, strays>> PROVE Kept
<1> DEFINE S == {f}
<1>1. S \in SUBSET Files /\ TakeAway(S) /\ told' = told  BY DEF Remove
<1>2. f \in Listed /\ items[f].status = "Rejected"  BY DEF Remove, Selected, Bad
<1>3. \A g \in S \intersect Listed : \/ items[g].id \in told' \union {NoUpload}
                                     \/ g \in mixed
                                     \/ uploads[items[g].id].verdict = "Rejected"
    BY <1>2 DEF ComposerInv, ItemsInv
<1>4. told \subseteq told' /\ told' \subseteq Uploads  BY <1>1 DEF ComposerInv, ComposerTypeOK
<1> HIDE DEF S
<1>5. /\ strays' = strays
      /\ current' = current \/ (current' \in Conversations \union {Nowhere} /\ Listed \subseteq S)
    OBVIOUS
<1>. QED  BY <1>1, <1>3, <1>4, <1>5, TakenKept

LEMMA RetryKept ==
    ASSUME ComposerInv, NEW f \in Files, Retry(f), UNCHANGED <<current, strays>> PROVE Kept
<1> USE DEF ComposerInv, ComposerTypeOK, ItemsInv, TasksInv, Known, Item, Task, Upload, NoOne, Status,
            Listed, IdsOf, Retry
<1>1. ComposerTypeOK'  OBVIOUS
<1>2. ItemsInv'
    <2>1. /\ uploads' = uploads /\ mixed' = mixed
          /\ \A g \in Files : /\ items'[g].listed = items[g].listed
                              /\ items'[g].conv = items[g].conv
                              /\ g = f => items'[g].id = NoUpload /\ items'[g].status = "Creating"
                              /\ g /= f => items'[g] = items[g]
        OBVIOUS
    <2>2. f \in Listed  OBVIOUS
    <2>3. \A g \in Files : g \in Listed' <=> g \in Listed  BY <2>1
    <2>4. \A u, g, c : Known(u, g, c)' <=> Known(u, g, c)  BY <2>1
    <2>5. ItemsInv /\ Listed \subseteq Files /\ Listed' \subseteq Files  OBVIOUS
    <2> HIDE DEF ComposerInv, ComposerTypeOK, TasksInv, Known, Item, Task, Upload, NoOne, Status,
                 Listed, IdsOf, Retry
    <2>. QED  BY <2>1, <2>2, <2>3, <2>4, <2>5
<1>3. TasksInv'  BY SMTT(30) DEF Starting
<1>4. NothingIsLeftBehind'  BY DEF NothingIsLeftBehind
<1>5. Grow  BY DEF Grow
<1>. QED  BY <1>1, <1>2, <1>3, <1>4, <1>5 DEF Kept

LEMMA RetryGoesOnKept ==
    ASSUME ComposerInv, NEW t \in tasks, RetryGoesOn(t), UNCHANGED <<current, strays>> PROVE Kept
<1> DEFINE f == t.file
<1>1. /\ t \in Task /\ f \in Files /\ t.at = "cancelling" /\ t.id = NoUpload
      /\ UNCHANGED <<uploads, told, bound, mixed>>
    BY TaskFacts DEF RetryGoesOn, ComposerInv, TasksInv, Starting
<1>2. f \in mixed \/ (items[f].id = NoUpload /\ \A s \in tasks : Starting(s) /\ s.file = f => s = t)
    BY <1>1 DEF ComposerInv, TasksInv, Starting
<1>3. Learnt  BY <1>1, TaskFacts, SameUploads
<1>4. CASE items[f].cancelled \/ f \notin Listed
    <2>1. Ends(t) /\ UNCHANGED items  BY <1>4 DEF RetryGoesOn
    <2>2. Explained(t, items[f].status)  BY <2>1, <1>1, QuietExplained DEF Ends
    <2>. QED  BY <2>1, <2>2, <1>1, <1>3, EndsQuiet, ShownKept
<1>5. CASE ~ (items[f].cancelled \/ f \notin Listed) /\ current /= items[f].conv
    <2>1. /\ tasks' = tasks \ {t}
          /\ items' = [items EXCEPT ![f].listed = FALSE, ![f].cancelled = TRUE]
        BY <1>5 DEF RetryGoesOn, Ends
    <2>2. /\ items' \in [Files -> Item]
          /\ \A g \in Files : /\ items'[g].listed = (items[g].listed /\ g /= f)
                              /\ items'[g].conv = items[g].conv
                              /\ items'[g].id = items[g].id
                              /\ items'[g].status = items[g].status
        BY ZenonT(40), <2>1, <1>1, TaskFacts DEF Item
    <2>3. Grow  BY <1>3 DEF Learnt
    <2>4. ComposerTypeOK'  BY <2>1, <2>2, <1>1 DEF ComposerInv, ComposerTypeOK
    <2>5. ItemsInv'  BY <2>2, <1>1, FewerItems
    <2>6. TasksInv'
        <3>1. \A s \in tasks : s.file \in Files  BY DEF ComposerInv, ComposerTypeOK, Task
        <3>2. \A v, g, c : Known(v, g, c)' <=> Known(v, g, c)  BY <1>1 DEF Known
        <3>3. TasksInv /\ tasks' \subseteq tasks  BY <2>1 DEF ComposerInv
        <3>. QED  BY <3>1, <3>2, <3>3, <2>2, <1>1 DEF TasksInv
    <2>7. NothingIsLeftBehind'
        <3>1. ASSUME NEW u \in Uploads, uploads'[u] /= NoOne, u \notin told', u \notin bound',
                     uploads'[u].verdict /= "Rejected", uploads'[u].file \notin mixed'
              PROVE  Held(u)'
            <4>1. Held(u)  BY <3>1, <1>1, LeftIs DEF ComposerInv
            <4>2. PICK g \in Files : items[g].listed /\ items[g].id = u  BY <4>1 DEF Held
            <4>3. uploads[u].file = g  BY <4>2 DEF ComposerInv, ItemsInv, Known
            <4>4. g /= f  BY <4>2, <4>3, <3>1, <1>1, <1>2
            <4>. QED  BY <4>2, <4>4, <2>2 DEF Held
        <3>. QED  BY <3>1, LeftIs
    <2>. QED  BY <2>3, <2>4, <2>5, <2>6, <2>7 DEF Kept, ComposerInv
<1>6. CASE ~ (items[f].cancelled \/ f \notin Listed) /\ current = items[f].conv
    <2>1. Step(t, "intent", NoUpload) /\ UNCHANGED items  BY <1>6 DEF RetryGoesOn
    <2>2. PICK s \in Task : s.file = f /\ s.at = "intent" /\ s.id = NoUpload /\ tasks' = (tasks \ {t}) \union {s}
        BY <2>1, StepEffect, TaskFacts
    <2>3. ComposerTypeOK'  BY <2>1, <2>2, <1>1 DEF ComposerInv, ComposerTypeOK
    <2>4. ItemsInv'  BY <2>1, <1>1 DEF ComposerInv, ItemsInv, Known, Listed
    <2>5. TasksInv'
        <3>1. \A r \in tasks' : Starting(r) => r = s \/ r \in tasks \ {t}  BY <2>2
        <3>2. \A r \in tasks' : items[r.file].status /= "none"  BY <2>2 DEF ComposerInv, TasksInv
        <3>3. \A r \in tasks' : r.at \in {"put", "complete", "poll"} => r \in tasks  BY <2>2
        <3>4. \A r \in tasks' : Starting(r) => r.id = NoUpload  BY <2>2 DEF ComposerInv, TasksInv
        <3>5. ASSUME NEW r \in tasks', Starting(r), r.file \notin mixed
              PROVE  /\ items[r.file].id = NoUpload /\ items[r.file].status /= "Failed"
                     /\ \A q \in tasks' : Starting(q) /\ q.file = r.file => q = r
            <4>1. Starting(t)  BY <1>1 DEF Starting
            <4>2. CASE r.file = f
                BY <4>1, <4>2, <3>1, <3>5, <1>2, <2>2 DEF ComposerInv, TasksInv
            <4>3. CASE r.file /= f
                BY <4>3, <3>1, <3>5, <2>2 DEF ComposerInv, TasksInv
            <4>. QED  BY <4>2, <4>3
        <3>. QED  BY <3>2, <3>3, <3>4, <3>5, <2>1, <1>1 DEF ComposerInv, TasksInv, Known, Starting
    <2>6. NothingIsLeftBehind'  BY <2>1, <1>1 DEF ComposerInv, NothingIsLeftBehind, IdsOf, Listed
    <2>7. Grow  BY <1>3 DEF Learnt
    <2>. QED  BY <2>3, <2>4, <2>5, <2>6, <2>7 DEF Kept, ComposerInv
<1>. QED  BY <1>4, <1>5, <1>6

LEMMA CheckKept ==
    ASSUME ComposerInv, NEW f \in Files, CheckStatus(f), UNCHANGED <<current, strays>> PROVE Kept
<1> USE DEF ComposerInv, ComposerTypeOK, ItemsInv, TasksInv, Known, Item, Task, Upload, NoOne, Status,
            Listed, IdsOf, CheckStatus
<1>1. ComposerTypeOK'  OBVIOUS
<1>2. ItemsInv'  OBVIOUS
<1>3. TasksInv'  BY DEF Starting
<1>4. NothingIsLeftBehind'  BY DEF NothingIsLeftBehind
<1>5. Grow  BY DEF Grow
<1>. QED  BY <1>1, <1>2, <1>3, <1>4, <1>5 DEF Kept

LEMMA ClearKept ==
    ASSUME ComposerInv, NEW ids \in SUBSET Uploads, ClearBound(ids), UNCHANGED <<current, strays>> PROVE Kept
<1>1. /\ items' \in [Files -> Item]
      /\ \A g \in Files : /\ items'[g].listed = (items[g].listed /\ ~ (items[g].id \in ids))
                          /\ items'[g].conv = items[g].conv
                          /\ items'[g].id = items[g].id
                          /\ items'[g].status = items[g].status
    <2>1. \A g \in Files : items[g] \in Item /\ items[g].listed \in BOOLEAN
        BY DEF ComposerInv, ComposerTypeOK, Item
    <2>2. items' = [g \in Files |->
              IF g \in Listed /\ items[g].id \in ids THEN [items[g] EXCEPT !.listed = FALSE] ELSE items[g]]
        BY DEF ClearBound
    <2>3. \A g \in Files : [items[g] EXCEPT !.listed = FALSE] \in Item  BY <2>1 DEF Item
    <2>4. items' \in [Files -> Item]  BY <2>1, <2>2, <2>3
    <2>5. ASSUME NEW g \in Files
          PROVE  /\ items'[g].listed = (items[g].listed /\ ~ (items[g].id \in ids))
                 /\ items'[g].conv = items[g].conv
                 /\ items'[g].id = items[g].id
                 /\ items'[g].status = items[g].status
        <3>1. CASE g \in Listed /\ items[g].id \in ids
            <4>1. items'[g] = [items[g] EXCEPT !.listed = FALSE]  BY <2>2, <3>1
            <4>. QED  BY ZenonT(40), <4>1, <3>1, <2>1 DEF Item, Listed
        <3>2. CASE ~ (g \in Listed /\ items[g].id \in ids)
            <4>1. items'[g] = items[g]  BY <2>2, <3>2
            <4>. QED  BY <4>1, <3>2, <2>1 DEF Listed
        <3>. QED  BY <3>1, <3>2
    <2>. QED  BY <2>4, <2>5
<1>2. bound' = bound \union ids /\ UNCHANGED <<tasks, uploads, told, mixed>>  BY DEF ClearBound
<1>3. Grow  BY <1>2 DEF Grow
<1>4. ComposerTypeOK'  BY <1>1, <1>2 DEF ComposerInv, ComposerTypeOK
<1>5. ItemsInv'  BY <1>1, <1>2, FewerItems
<1>6. TasksInv'
    <2>1. \A s \in tasks : s.file \in Files  BY DEF ComposerInv, ComposerTypeOK, Task
    <2>. QED  BY <2>1, <1>1, <1>2 DEF ComposerInv, TasksInv, Known, Starting
<1>7. NothingIsLeftBehind'
    <2>1. \A u \in Uploads \ bound' : Held(u) => Held(u)'  BY <1>1, <1>2 DEF Held
    <2>. QED  BY <2>1, <1>2, LeftIs DEF ComposerInv
<1>. QED  BY <1>3, <1>4, <1>5, <1>6, <1>7 DEF Kept, ComposerInv

----------------------------------------------------------------------------
(* What is left alone. *)

LEMMA QuietComposer ==
    ASSUME ComposerInv, UNCHANGED <<current, strays, composerVars>> PROVE Kept
<1>1. ComposerInv'
    BY DEF ComposerInv, composerVars, ComposerTypeOK, ItemsInv, TasksInv, NothingIsLeftBehind, Known,
           Listed, IdsOf, Starting
<1>2. Grow  BY DEF Grow, composerVars
<1>. QED  BY <1>1, <1>2 DEF Kept

LEMMA QuietFiles ==
    ASSUME ComposerInv, FilesInv, TextTypes, Grow, strays \subseteq strays', UNCHANGED <<sends, pending>>
    PROVE  FilesInv'
<1>1. \A m \in sends \union pending : m.files \subseteq Uploads
    BY DEF TextTypes, Message, Entry
<1>. QED  BY <1>1 DEF FilesInv, Grow

LEMMA QuietText ==
    ASSUME TextTypes, TextInv, KeptInv, UNCHANGED <<current, textVars>>
    PROVE  TextTypes' /\ TextInv' /\ KeptInv'
BY DEF TextTypes, TextInv, KeptInv, InputIsOwn, TextIsKept, Elsewhere, Own, textVars

LEMMA QuietPanel ==
    ASSUME PageTypes, PanelInv, UNCHANGED <<current, pageVars, pending>>
    PROVE  PageTypes' /\ PanelInv'
BY DEF PageTypes, PanelInv, PanelIsFaithful, Stored, Unsent, pageVars

LEMMA QuietLists ==
    ASSUME ListTypes, UNCHANGED listVars, Gesture \/ Fault \/ NoBudget
    PROVE  ListTypes'
BY DEF ListTypes, listVars, Gesture, Fault, NoBudget

----------------------------------------------------------------------------
(* The panel. *)

\* A notice in the panel.
LEMMA NoticeTyped ==
    ASSUME NEW kind \in {"idle", "loading", "unopened", "unloaded", "removed"},
           NEW c \in Conversations \union {Nowhere}
    PROVE  /\ State(kind, c) \in Panel
           /\ State(kind, c).kind = kind /\ State(kind, c).of = c /\ State(kind, c).unsent = {}
BY DEF State, Panel

LEMMA NoticePanel ==
    ASSUME NEW kind \in {"idle", "loading", "unopened", "unloaded", "removed"},
           NEW c \in Conversations \union {Nowhere}, panel' = State(kind, c),
           kind = "unloaded" => c /= Nowhere
    PROVE  panel' \in Panel /\ PanelInv'
BY NoticeTyped DEF PanelInv, PanelIsFaithful

LEMMA LoadPanel ==
    ASSUME PageTypes, NEW c \in Conversations, Load(c), joining' \in Conversations \union {Nowhere}, stored' = stored
    PROVE  PageTypes' /\ PanelInv'
<1> DEFINE l == [conv |-> c, aborted |-> FALSE]
<1>4. l \in [conv: Conversations, aborted: BOOLEAN]  OBVIOUS
<1>5. loads' = loads \union {l}  BY DEF Load
<1> HIDE DEF l
<1>1. loads' \subseteq [conv: Conversations, aborted: BOOLEAN]  BY <1>4, <1>5 DEF PageTypes
<1>2. panel' = State("loading", c)  BY DEF Load
<1>3. panel' \in Panel /\ PanelInv'  BY <1>2, NoticePanel
<1>. QED  BY <1>1, <1>3 DEF PageTypes

LEMMA AbortTyped ==
    ASSUME PageTypes, NEW c PROVE Abort(c) \subseteq [conv: Conversations, aborted: BOOLEAN]
BY DEF PageTypes, Abort

LEMMA JoinAnsweredStep == ASSUME PageInv, JoinAnswered PROVE PageInv'
<1> USE DEF PageInv
<1>1. /\ joining \in Conversations /\ joining' = Nowhere /\ Load(joining) /\ NoBudget
      /\ UNCHANGED <<current, composerVars, stored, textVars, listVars>>
    BY DEF JoinAnswered, PageTypes
<1>2. Kept  BY <1>1, QuietComposer DEF listVars
<1>3. FilesInv'  BY <1>1, <1>2, QuietFiles DEF Kept, listVars, textVars
<1>4. PageTypes' /\ PanelInv'  BY <1>1, LoadPanel
<1>. QED  BY <1>1, <1>2, <1>3, <1>4, QuietText, QuietLists DEF Kept

LEMMA JoinFailsStep == ASSUME PageInv, JoinFails PROVE PageInv'
<1> USE DEF PageInv
<1>1. /\ joining \in Conversations /\ joining' = Nowhere /\ panel' = State("unopened", joining) /\ Fault
      /\ UNCHANGED <<current, composerVars, loads, stored, textVars, listVars>>
    BY DEF JoinFails, PageTypes
<1>2. Kept  BY <1>1, QuietComposer DEF listVars
<1>3. FilesInv'  BY <1>1, <1>2, QuietFiles DEF Kept, listVars, textVars
<1>4. panel' \in Panel /\ PanelInv'  BY <1>1, NoticePanel
<1>5. PageTypes'  BY <1>1, <1>4 DEF PageTypes
<1>. QED  BY <1>1, <1>2, <1>3, <1>4, <1>5, QuietText, QuietLists DEF Kept

LEMMA LoadFailsStep == ASSUME PageInv, NEW l \in loads, LoadFails(l) PROVE PageInv'
<1> USE DEF PageInv
<1>1. /\ l.conv \in Conversations /\ loads' = loads \ {l} /\ panel' = State("unloaded", l.conv)
      /\ NoBudget \/ Fault
      /\ UNCHANGED <<current, composerVars, joining, stored, textVars, listVars>>
    BY DEF LoadFails, PageTypes
<1>2. Kept  BY <1>1, QuietComposer DEF listVars
<1>3. FilesInv'  BY <1>1, <1>2, QuietFiles DEF Kept, listVars, textVars
<1>4. panel' \in Panel /\ PanelInv'  BY <1>1, NoticePanel
<1>5. PageTypes'  BY <1>1, <1>4 DEF PageTypes
<1>. QED  BY <1>1, <1>2, <1>3, <1>4, <1>5, QuietText, QuietLists DEF Kept

LEMMA RetryLoadStep == ASSUME PageInv, RetryLoad PROVE PageInv'
<1> USE DEF PageInv
<1>1. /\ panel.kind = "unloaded" /\ Gesture /\ Load(panel.of)
      /\ UNCHANGED <<current, composerVars, joining, stored, textVars, listVars>>
    BY DEF RetryLoad
<1>2. Kept  BY <1>1, QuietComposer DEF listVars
<1>3. FilesInv'  BY <1>1, <1>2, QuietFiles DEF Kept, listVars, textVars
<1>4. panel.of \in Conversations  BY <1>1 DEF PageTypes, PanelInv, Panel
<1>5. joining' \in Conversations \union {Nowhere}  BY <1>1 DEF PageTypes
<1>6. PageTypes' /\ PanelInv'  BY <1>1, <1>4, <1>5, LoadPanel
<1>. QED  BY <1>1, <1>2, <1>3, <1>6, QuietText, QuietLists DEF Kept

LEMMA StoredTyped ==
    ASSUME PageTypes, NEW c \in Conversations
    PROVE  Stored(c) \subseteq Conversations \X (1..MaxMessages)
BY DEF PageTypes, Stored

LEMMA UnsentTyped ==
    ASSUME TextTypes, NEW c PROVE Unsent(c) \subseteq Entry
BY DEF TextTypes, Unsent

LEMMA LoadAnsweredStep == ASSUME PageInv, NEW l \in loads, LoadAnswered(l) PROVE PageInv'
<1> USE DEF PageInv
<1>1. /\ l.conv \in Conversations /\ loads' = loads \ {l} /\ NoBudget
      /\ UNCHANGED <<current, composerVars, joining, stored, textVars, listVars>>
    BY DEF LoadAnswered, PageTypes
<1>2. Kept  BY <1>1, QuietComposer DEF listVars
<1>3. FilesInv'  BY <1>1, <1>2, QuietFiles DEF Kept, listVars, textVars
<1>4. panel' \in Panel /\ PanelInv'
    <2>1. CASE l.conv /= current
        <3>1. panel' = panel  BY <2>1 DEF LoadAnswered, StillOpen
        <3>. QED  BY <1>1, <3>1 DEF PageTypes, PanelInv, PanelIsFaithful, Stored, Unsent, textVars
    <2>2. CASE l.conv = current
        <3>1. PICK kind \in {"empty", "messages"} :
                  panel' = [kind |-> kind, of |-> current, rows |-> Stored(current), unsent |-> Unsent(current)]
            BY <2>2 DEF LoadAnswered, StillOpen
        <3>2. panel' \in Panel  BY <1>1, <2>2, <3>1, StoredTyped, UnsentTyped DEF Panel
        <3>3. PanelInv'
            BY <1>1, <2>2, <3>1 DEF PanelInv, PanelIsFaithful, Stored, Unsent, textVars
        <3>. QED  BY <3>2, <3>3
    <2>. QED  BY <2>1, <2>2
<1>5. PageTypes'  BY <1>1, <1>4 DEF PageTypes
<1>. QED  BY <1>1, <1>2, <1>3, <1>4, <1>5, QuietText, QuietLists DEF Kept

\* displayMessage keeps the panel that it finds faithful so.
LEMMA DisplayedRows ==
    ASSUME PageTypes, PanelInv, current \in Conversations \union {Nowhere},
           NEW c \in Conversations, stored[c] < MaxMessages
    PROVE  /\ Displayed(c) \in Panel
           /\ Displayed(c).kind = panel.kind /\ Displayed(c).of = panel.of /\ Displayed(c).unsent = panel.unsent
           /\ panel.kind = "messages" =>
                  Displayed(c).rows = {<<current, n>> : n \in 1..([stored EXCEPT ![c] = @ + 1])[current]}
<1>1. /\ <<c, stored[c] + 1>> \in Conversations \X (1..MaxMessages)
      /\ panel.rows \subseteq Conversations \X (1..MaxMessages)
    BY DEF PageTypes, Panel
<1>2. Displayed(c) \in Panel
    BY <1>1 DEF PageTypes, Panel, Displayed
<1>3. Displayed(c).kind = panel.kind /\ Displayed(c).of = panel.of /\ Displayed(c).unsent = panel.unsent
    BY DEF PageTypes, Panel, Displayed
<1>4. ASSUME panel.kind = "messages"
      PROVE  Displayed(c).rows = {<<current, n>> : n \in 1..([stored EXCEPT ![c] = @ + 1])[current]}
    <2>1. panel.rows = Stored(current) /\ current \in Conversations
        BY <1>4 DEF PanelInv, PanelIsFaithful
    <2>2. CASE current = c
        <3>1. Displayed(c).rows = panel.rows \union {<<c, stored[c] + 1>>}
            BY <2>2 DEF Displayed, PageTypes, Panel
        <3>2. ([stored EXCEPT ![c] = @ + 1])[current] = stored[c] + 1 /\ stored[c] \in Nat
            BY <2>2 DEF PageTypes
        <3>3. 1..(stored[c] + 1) = 1..stored[c] \union {stored[c] + 1}  BY <3>2
        <3>. QED  BY <3>1, <3>2, <3>3, <2>1, <2>2 DEF Stored
    <2>3. CASE current /= c
        BY <2>1, <2>3 DEF Displayed, Stored, PageTypes
    <2>. QED  BY <2>2, <2>3
<1>. QED  BY <1>2, <1>3, <1>4

LEMMA ArrivesStep == ASSUME PageInv, NEW c \in Conversations, Arrives(c) PROVE PageInv'
<1> USE DEF PageInv
<1>1. /\ stored[c] < MaxMessages /\ stored' = [stored EXCEPT ![c] = @ + 1] /\ panel' = Displayed(c) /\ NoBudget
      /\ UNCHANGED <<current, composerVars, joining, loads, textVars, listVars>>
    BY DEF Arrives
<1>2. Kept  BY <1>1, QuietComposer DEF listVars
<1>3. FilesInv'  BY <1>1, <1>2, QuietFiles DEF Kept, listVars, textVars
<1>4. PageTypes'
    BY <1>1, DisplayedRows DEF PageTypes, ComposerInv
<1>5. PanelInv'
    <2>1. /\ panel'.kind = panel.kind /\ panel'.of = panel.of /\ panel'.unsent = panel.unsent
          /\ panel.kind = "messages" => panel'.rows = {<<current, n>> : n \in 1..stored'[current]}
        BY <1>1, DisplayedRows DEF ComposerInv
    <2>2. UNCHANGED <<current, pending>>  BY <1>1 DEF textVars
    <2>. QED  BY <2>1, <2>2 DEF PanelInv, PanelIsFaithful, Stored, Unsent
<1>. QED  BY <1>1, <1>2, <1>3, <1>4, <1>5, QuietText, QuietLists DEF Kept

----------------------------------------------------------------------------
(* The texts. *)

LEMMA OpenStep == ASSUME PageInv, NEW c \in Conversations, Open(c) PROVE PageInv'
<1> USE DEF PageInv
<1>1. /\ c /= current /\ current' = c /\ input' = draft[c] /\ panel' = State("loading", c) /\ joining' = c
      /\ UNCHANGED <<stored, pending, sends, isSendingMessage, typed, given, listVars>> /\ Gesture
    BY DEF Open, SwitchChatContext
<1>2. ListTypes'  BY <1>1, QuietLists
<1>3. panel' \in Panel /\ PanelInv'  BY <1>1, NoticePanel
<1>4. CASE current = Nowhere
    <2>1. UNCHANGED <<draft, loads, composerVars>>  BY <1>4 DEF Open, SwitchChatContext
    <2>2. ComposerInv'
        <3>1. \A f \in Listed : f \in strays
            BY <1>4 DEF ComposerInv, ItemsInv, Listed
        <3>2. ItemsInv'
            BY <3>1, <2>1, <1>1 DEF ComposerInv, ItemsInv, Known, Listed, composerVars, listVars
        <3>3. ComposerTypeOK' /\ TasksInv' /\ NothingIsLeftBehind'
            BY <2>1 DEF ComposerInv, composerVars, ComposerTypeOK, TasksInv, NothingIsLeftBehind, Known,
                        Listed, IdsOf, Starting
        <3>. QED  BY <3>2, <3>3, <1>1 DEF ComposerInv
    <2>3. Grow  BY <2>1 DEF Grow, composerVars
    <2>4. FilesInv'  BY <2>3, <1>1, QuietFiles DEF listVars
    <2>5. TextTypes'  BY <2>1, <1>1 DEF TextTypes
    <2>6. TextInv'  BY <2>1, <1>1 DEF TextInv, Own, InputIsOwn
    <2>7. KeptInv'
        <3>1. \A v \in typed : \/ \E d \in Conversations : draft[d] = v
                               \/ \E e \in pending : e.text = v
                               \/ v \in given
            BY <1>4 DEF KeptInv, TextIsKept
        <3>. QED  BY <3>1, <2>1, <1>1 DEF KeptInv, TextIsKept, Elsewhere
    <2>8. PageTypes'  BY <2>1, <1>1, <1>3 DEF PageTypes
    <2>. QED  BY <1>2, <1>3, <2>2, <2>4, <2>5, <2>6, <2>7, <2>8
<1>5. CASE current /= Nowhere
    <2>1. draft' = [draft EXCEPT ![current] = input] /\ loads' = Abort(current) /\ Cancel(Listed)
        BY <1>5 DEF Open, SwitchChatContext, AbandonedItems
    <2>2. Kept  BY <2>1, <1>1, CancelKept DEF listVars
    <2>3. FilesInv'  BY <2>2, <1>1, QuietFiles DEF Kept, listVars
    <2>4. current \in Conversations  BY <1>5 DEF ComposerInv
    <2>5. TextTypes'  BY <2>1, <1>1 DEF TextTypes
    <2>6. TextInv'  BY <2>1, <2>4, <1>1 DEF TextInv, Own, InputIsOwn, TextTypes
    <2>7. KeptInv'
        <3>1. ASSUME NEW v \in typed
              PROVE  \/ \E d \in Conversations : draft'[d] = v
                     \/ Elsewhere(v)
            <4>1. CASE v = input  BY <4>1, <2>1, <2>4 DEF TextTypes
            <4>2. CASE \E d \in Conversations : draft[d] = v /\ v /= input
                <5>1. PICK d \in Conversations : draft[d] = v /\ v /= input  BY <4>2
                <5>2. CASE d = current  BY <5>1, <5>2 DEF KeptInv
                <5>3. CASE d /= current  BY <5>1, <5>3, <2>1 DEF TextTypes
                <5>. QED  BY <5>2, <5>3
            <4>3. CASE Elsewhere(v)  BY <4>3
            <4>. QED  BY <4>1, <4>2, <4>3 DEF KeptInv, TextIsKept, Elsewhere
        <3>2. draft'[c] = input'  BY <1>1, <2>1 DEF TextTypes
        <3>. QED  BY <3>1, <3>2, <1>1 DEF KeptInv, TextIsKept, Elsewhere
    <2>8. PageTypes'  BY <2>1, <1>1, <1>3, AbortTyped DEF PageTypes
    <2>. QED  BY <1>2, <1>3, <2>2, <2>3, <2>5, <2>6, <2>7, <2>8 DEF Kept
<1>. QED  BY <1>4, <1>5

LEMMA TypeStep == ASSUME PageInv, NEW t \in Texts, Type(t) PROVE PageInv'
<1> USE DEF PageInv
<1> DEFINE x == <<current, t>>
<1>1. /\ current /= Nowhere /\ x /= input /\ Gesture /\ input' = x
      /\ draft' = [draft EXCEPT ![current] = x]
      /\ typed' = typed \union {x}
      /\ given' = (given \union ({input} \ {NoText})) \ {x}
      /\ UNCHANGED <<current, composerVars, pageVars, pending, sends, isSendingMessage, listVars>>
    BY DEF Type, InputIsEnabled
<1>2. current \in Conversations  BY <1>1 DEF ComposerInv
<1>3. x \in Values /\ x /= NoText /\ x[1] = current  BY <1>2 DEF Values
<1> HIDE DEF x
<1>4. Kept  BY <1>1, QuietComposer DEF listVars
<1>5. FilesInv'  BY <1>1, <1>4, QuietFiles DEF Kept, listVars
<1>6. TextTypes'  BY <1>1, <1>2, <1>3 DEF TextTypes
<1>7. TextInv'
    BY <1>1, <1>2, <1>3 DEF TextInv, Own, InputIsOwn, TextTypes
<1>8. KeptInv'
    <2>1. NoText \notin typed'  BY <1>1, <1>3 DEF KeptInv
    <2>2. ASSUME NEW v \in typed', v /= x
          PROVE  \/ \E d \in Conversations : draft'[d] = v
                 \/ \E e \in pending' : e.text = v
                 \/ v \in given'
        <3>1. v \in typed /\ v /= NoText  BY <2>1, <2>2, <1>1
        <3>2. CASE v = input  BY <3>1, <3>2, <2>2, <1>1
        <3>3. CASE \E d \in Conversations : draft[d] = v /\ v /= input
            <4>1. PICK d \in Conversations : draft[d] = v /\ v /= input  BY <3>3
            <4>2. CASE d = current
                BY <4>1, <4>2, <3>1, <2>2, <1>1 DEF KeptInv, Elsewhere
            <4>3. CASE d /= current  BY <4>1, <4>3, <1>1 DEF TextTypes
            <4>. QED  BY <4>2, <4>3
        <3>4. CASE Elsewhere(v)  BY <3>4, <2>2, <1>1 DEF Elsewhere
        <3>. QED  BY <3>1, <3>2, <3>3, <3>4 DEF KeptInv, TextIsKept, Elsewhere
    <2>3. draft'[current] = input'  BY <1>1, <1>2 DEF TextTypes
    <2>. QED  BY <2>1, <2>2, <2>3, <1>1 DEF KeptInv, TextIsKept
<1>9. PageTypes' /\ PanelInv'  BY <1>1, QuietPanel
<1>. QED  BY <1>1, <1>4, <1>5, <1>6, <1>7, <1>8, <1>9, QuietLists DEF Kept

----------------------------------------------------------------------------
(* Messages. *)

LEMMA RowFacts ==
    ASSUME NEW m \in Message
    PROVE  /\ \A s \in {"pending", "failed"} : /\ Row(m, s) \in Entry
                                               /\ Row(m, s).conv = m.conv
                                               /\ Row(m, s).text = m.text
                                               /\ Row(m, s).files = m.files
           /\ RowsOf(m) \subseteq Entry
           /\ \A e \in RowsOf(m) : e.conv = m.conv /\ e.text = m.text /\ e.files = m.files
BY DEF Row, RowsOf, Message, Entry

\* The entry of a message takes the place of one in another state.
Renewed(m, s) == (pending \ RowsOf(m)) \union {Row(m, s)}

LEMMA RenewedKeeps ==
    ASSUME NEW m \in Message, NEW s \in {"pending", "failed"}, pending' = Renewed(m, s), given' = given,
           TextTypes
    PROVE  /\ pending' \subseteq Entry
           /\ Elsewhere(m.text)'
           /\ \A v : Elsewhere(v) => v \in given' \/ \E e \in pending' : e.text = v
           /\ \A e \in pending' : e \in pending \/ (e.conv = m.conv /\ e.text = m.text /\ e.files = m.files)
BY RowFacts DEF Elsewhere, Renewed, TextTypes

LEMMA RenderedPanel ==
    ASSUME PageTypes, PanelInv, NEW m \in Message, NEW s \in {"pending", "failed"},
           current \in Conversations \union {Nowhere},
           pending' = Renewed(m, s), panel' = Rendered(m, s), UNCHANGED <<current, stored>>
    PROVE  panel' \in Panel /\ PanelInv'
<1>1. panel \in Panel /\ panel.unsent \subseteq Entry  BY DEF PageTypes, Panel
<1>2. CASE current /= m.conv
    <2>1. panel' = panel  BY <1>2 DEF Rendered
    <2>2. \A e : e.conv = current => (e \in pending <=> e \in pending')
        BY <1>2, RowFacts DEF Renewed
    <2>. QED  BY <2>1, <2>2, <1>1 DEF PanelInv, PanelIsFaithful, Stored, Unsent
<1>3. CASE current = m.conv /\ (panel.kind \in {"messages", "patched"} \/ panel.unsent \intersect RowsOf(m) /= {})
    <2> DEFINE q == (panel.unsent \ RowsOf(m)) \union {Row(m, s)}
    <2>1. panel' = [panel EXCEPT !.unsent = q]  BY <1>3 DEF Rendered
    <2>2. q \subseteq Entry /\ \A e \in q : e \in panel.unsent \/ e.conv = current
        BY <1>1, <1>3, RowFacts
    <2>3. panel.unsent = Unsent(current) => q = {e \in pending' : e.conv = current}
        BY <1>3, RowFacts DEF Renewed, Unsent
    <2> HIDE DEF q
    <2>4. /\ panel' \in Panel /\ panel'.kind = panel.kind /\ panel'.of = panel.of
          /\ panel'.rows = panel.rows /\ panel'.unsent = q
        BY <2>1, <2>2, <1>1 DEF Panel
    <2>. QED  BY <2>2, <2>3, <2>4 DEF PanelInv, PanelIsFaithful, Stored, Unsent
<1>4. CASE current = m.conv /\ ~ (panel.kind \in {"messages", "patched"} \/ panel.unsent \intersect RowsOf(m) /= {})
    <2>1. panel' = [kind |-> "patched", of |-> m.conv, rows |-> {}, unsent |-> {Row(m, s)}]
        BY <1>4 DEF Rendered
    <2>2. m.conv \in Conversations  BY DEF Message
    <2>. QED  BY <2>1, <2>2, <1>4, RowFacts DEF Panel, PanelInv, PanelIsFaithful
<1>. QED  BY <1>2, <1>3, <1>4

\* What Post leaves, whatever becomes of the input.
LEMMA PostStep ==
    ASSUME PageInv, NEW m \in Message, Post(m), Gesture,
           m.conv = current, current \in Conversations, Own(m.text, current),
           input' = input \/ (input' = NoText /\ m.text = input),
           \A u \in m.files : uploads[u] /= NoOne /\ (uploads[u].conv = m.conv \/ uploads[u].file \in strays)
    PROVE  PageInv'
<1> USE DEF PageInv
<1>1. /\ draft' = [draft EXCEPT ![current] = m.text]
      /\ pending' = Renewed(m, "pending")
      /\ panel' = Rendered(m, "pending")
      /\ sends' = sends \union {m} /\ isSendingMessage' = TRUE
      /\ UNCHANGED <<current, composerVars, joining, loads, stored, typed, given, listVars>>
    BY DEF Post, Renewed
<1>2. Kept  BY <1>1, QuietComposer DEF listVars
<1>3. /\ pending' \subseteq Entry /\ Elsewhere(m.text)'
      /\ \A v : Elsewhere(v) => v \in given' \/ \E e \in pending' : e.text = v
      /\ \A e \in pending' : e \in pending \/ (e.conv = m.conv /\ e.text = m.text /\ e.files = m.files)
    BY <1>1, RenewedKeeps
<1>4. FilesInv'
    <2>1. uploads' = uploads /\ strays' = strays  BY <1>1 DEF composerVars, listVars
    <2>. QED  BY <2>1, <1>1, <1>3 DEF FilesInv
<1>5. m.text \in Values /\ NoText \in Values  BY DEF Message, Values
<1>6. TextTypes'  BY <1>1, <1>3, <1>5 DEF TextTypes
<1>7. TextInv'
    <2>1. \A c \in Conversations : draft'[c] = IF c = current THEN m.text ELSE draft[c]
        BY <1>1 DEF TextTypes
    <2>2. \A n \in sends' \union pending' : Own(n.text, n.conv)
        BY <1>1, <1>3 DEF TextInv
    <2>3. InputIsOwn'  BY <1>1 DEF TextInv, InputIsOwn
    <2>. QED  BY <2>1, <2>2, <2>3 DEF TextInv, Own
<1>8. KeptInv'
    <2>1. ASSUME NEW v \in typed
          PROVE  \/ v = input' \/ \E d \in Conversations : draft'[d] = v
                 \/ \E e \in pending' : e.text = v
                 \/ v \in given'
        <3>1. CASE v = input  BY <3>1, <1>3 DEF Elsewhere
        <3>2. CASE \E d \in Conversations : draft[d] = v /\ v /= input
            <4>1. PICK d \in Conversations : draft[d] = v /\ v /= input  BY <3>2
            <4>2. CASE d = current  BY <4>1, <4>2, <1>3 DEF KeptInv
            <4>3. CASE d /= current  BY <4>1, <4>3, <1>1 DEF TextTypes
            <4>. QED  BY <4>2, <4>3
        <3>3. CASE Elsewhere(v)  BY <3>3, <1>3
        <3>. QED  BY <3>1, <3>2, <3>3 DEF KeptInv, TextIsKept, Elsewhere
    <2>2. draft'[current] = m.text  BY <1>1 DEF TextTypes
    <2>. QED  BY <2>1, <2>2, <1>1, <1>3 DEF KeptInv, TextIsKept, Elsewhere
<1>9. panel' \in Panel /\ PanelInv'  BY <1>1, RenderedPanel
<1>10. PageTypes'  BY <1>1, <1>9 DEF PageTypes
<1>. QED  BY <1>1, <1>2, <1>4, <1>6, <1>7, <1>8, <1>9, <1>10, QuietLists DEF Kept

LEMMA SendStep == ASSUME PageInv, Send PROVE PageInv'
<1> USE DEF PageInv
<1> DEFINE m == [conv |-> current, text |-> input, files |-> ReadyIds]
<1>1. current \in Conversations /\ Gesture /\ input' = NoText /\ Post(m)
    BY DEF Send, InputIsEnabled, ComposerInv
<1>2. ASSUME NEW u \in ReadyIds
      PROVE  u \in Uploads /\ uploads[u] /= NoOne /\ (uploads[u].conv = current \/ uploads[u].file \in strays)
    <2>1. PICK f \in Listed : items[f].id = u /\ u /= NoUpload  BY DEF ReadyIds, IdsOf
    <2>2. Known(u, f, items[f].conv)  BY <2>1 DEF ComposerInv, ItemsInv, Listed
    <2>3. items[f].conv = current \/ f \in strays  BY DEF ComposerInv, ItemsInv
    <2>. QED  BY <2>2, <2>3 DEF Known
<1>3. m \in Message /\ m.conv = current /\ m.text = input /\ m.files = ReadyIds
    BY <1>1, <1>2 DEF Message, TextTypes
<1> HIDE DEF m
<1>4. Own(m.text, current)  BY <1>1, <1>3 DEF TextInv, InputIsOwn, Own
<1>. QED  BY <1>1, <1>2, <1>3, <1>4, PostStep

LEMMA RetrySendStep == ASSUME PageInv, RetrySend PROVE PageInv'
<1> USE DEF PageInv
<1>1. PICK e \in panel.unsent :
          /\ e.state = "failed" /\ e \in pending /\ Gesture /\ UNCHANGED input
          /\ Post([conv |-> e.conv, text |-> e.text, files |-> e.files])
    BY DEF RetrySend
<1> DEFINE m == [conv |-> e.conv, text |-> e.text, files |-> e.files]
<1>2. e \in Entry /\ e.conv = current  BY <1>1 DEF TextTypes, PanelInv
<1>3. m \in Message /\ m.conv = current /\ m.text = e.text /\ m.files = e.files /\ current \in Conversations /\ Post(m)
    BY <1>1, <1>2 DEF Message, Entry
<1> HIDE DEF m
<1>4. Own(m.text, current)  BY <1>1, <1>2, <1>3 DEF TextInv
<1>5. \A u \in m.files : uploads[u] /= NoOne /\ (uploads[u].conv = m.conv \/ uploads[u].file \in strays)
    BY <1>1, <1>2, <1>3 DEF FilesInv
<1>. QED  BY <1>1, <1>3, <1>4, <1>5, PostStep

\* What is delivered takes its text along, its entry and its draft.
LEMMA DeliveredText ==
    ASSUME PageInv, NEW m \in sends, Delivered(m), pending' = pending \ RowsOf(m),
           UNCHANGED <<current, input, typed>>,
           isSendingMessage' \in BOOLEAN, sends' \subseteq sends
    PROVE  TextTypes' /\ TextInv' /\ KeptInv'
<1> USE DEF PageInv
<1>1. /\ m \in Message /\ m.conv \in Conversations
      /\ draft' = [draft EXCEPT ![m.conv] = IF @ = m.text THEN NoText ELSE @]
      /\ given' = given \union ({m.text} \ {NoText})
    BY DEF Delivered, TextTypes, Message
<1>2. m.text \in Values /\ NoText \in Values  BY <1>1 DEF Message, Values
<1>3. \A c \in Conversations : draft'[c] = draft[c] \/ (draft'[c] = NoText /\ draft[c] = m.text)
    BY <1>1 DEF TextTypes
<1>4. draft' \in [Conversations -> Values]  BY <1>1, <1>2 DEF TextTypes
<1>5. TextTypes'  BY <1>1, <1>2, <1>4 DEF TextTypes
<1>6. TextInv'  BY <1>1, <1>3 DEF TextInv, Own, InputIsOwn
<1>7. KeptInv'
    <2>1. ASSUME NEW v, v /= NoText, Elsewhere(v) \/ v = m.text
          PROVE  v \in given' \/ \E e \in pending' : e.text = v
        <3>1. CASE v = m.text  BY <2>1, <3>1, <1>1
        <3>2. CASE v \in given  BY <3>2, <1>1
        <3>3. CASE v /= m.text /\ \E e \in pending : e.text = v  BY <3>3, <1>1, RowFacts
        <3>. QED  BY <2>1, <3>1, <3>2, <3>3 DEF Elsewhere
    <2>2. ASSUME NEW v \in typed
          PROVE  \/ v = input' \/ \E d \in Conversations : draft'[d] = v
                 \/ \E e \in pending' : e.text = v
                 \/ v \in given'
        <3>1. v /= NoText  BY DEF KeptInv
        <3>2. CASE \E d \in Conversations : draft[d] = v  BY <3>1, <3>2, <1>3, <2>1
        <3>. QED  BY <3>1, <3>2, <2>1 DEF KeptInv, TextIsKept, Elsewhere
    <2>3. ASSUME current /= Nowhere, draft'[current] \notin {NoText, input}
          PROVE  draft'[current] \in given' \/ \E e \in pending' : e.text = draft'[current]
        <3>1. draft'[current] = draft[current]  BY <2>3, <1>3 DEF ComposerInv
        <3>2. Elsewhere(draft[current])  BY <2>3, <3>1 DEF KeptInv
        <3>. QED  BY <3>1, <3>2, <2>1, <2>3
    <2>4. NoText \notin typed' /\ (current' = Nowhere => input' \in given' \union {NoText})
        BY <1>1 DEF KeptInv
    <2>5. current' /= Nowhere => \/ draft'[current'] \in {NoText, input'}
                                \/ draft'[current'] \in given'
                                \/ \E e \in pending' : e.text = draft'[current']
        BY <2>3
    <2>. QED  BY <2>2, <2>4, <2>5 DEF KeptInv, TextIsKept, Elsewhere
<1>. QED  BY <1>5, <1>6, <1>7

\* What ingest does to the texts and the panel.
LEMMA IngestStep ==
    ASSUME PageInv, NEW m \in sends, Ingest(m), UNCHANGED <<current, input, typed>>,
           isSendingMessage' \in BOOLEAN, sends' \subseteq sends
    PROVE  /\ TextTypes' /\ TextInv' /\ KeptInv'
           /\ panel' \in Panel /\ PanelInv' /\ stored' \in [Conversations -> 0..MaxMessages]
           /\ pending' \subseteq pending
<1> USE DEF PageInv
<1>1. /\ m \in Message /\ m.conv \in Conversations
      /\ stored[m.conv] < MaxMessages /\ stored' = [stored EXCEPT ![m.conv] = @ + 1]
      /\ pending' = pending \ RowsOf(m)
      /\ panel' = [Displayed(m.conv) EXCEPT !.unsent = @ \ RowsOf(m)]
      /\ Delivered(m)
    BY DEF Ingest, TextTypes, Message
<1>2. TextTypes' /\ TextInv' /\ KeptInv'  BY <1>1, DeliveredText
<1>3. /\ Displayed(m.conv) \in Panel
      /\ Displayed(m.conv).kind = panel.kind /\ Displayed(m.conv).of = panel.of
      /\ Displayed(m.conv).unsent = panel.unsent
      /\ panel.kind = "messages" =>
             Displayed(m.conv).rows = {<<current, n>> : n \in 1..stored'[current]}
    BY <1>1, DisplayedRows DEF ComposerInv
<1>4. /\ panel' \in Panel /\ panel'.kind = panel.kind /\ panel'.of = panel.of
      /\ panel'.unsent = panel.unsent \ RowsOf(m) /\ panel'.rows = Displayed(m.conv).rows
    BY <1>1, <1>3 DEF Panel
<1>5. PanelInv'
    BY <1>1, <1>3, <1>4 DEF PanelInv, PanelIsFaithful, Stored, Unsent
<1>6. stored' \in [Conversations -> 0..MaxMessages]  BY <1>1 DEF PageTypes
<1>. QED  BY <1>1, <1>2, <1>4, <1>5, <1>6

LEMMA FilesFewer ==
    ASSUME ComposerInv, FilesInv, TextTypes, Grow, strays' = strays, sends' \subseteq sends, pending' \subseteq pending
    PROVE  FilesInv'
<1>1. \A m \in sends \union pending : m.files \subseteq Uploads
    BY DEF TextTypes, Message, Entry
<1>. QED  BY <1>1 DEF FilesInv, Grow

LEMMA EventStep == ASSUME PageInv, NEW m \in sends, EventOvertakes(m) PROVE PageInv'
<1> USE DEF PageInv
<1>1. /\ Ingest(m) /\ NoBudget
      /\ UNCHANGED <<current, composerVars, joining, loads, input, sends, isSendingMessage, typed, listVars>>
    BY DEF EventOvertakes
<1>2. Kept  BY <1>1, QuietComposer DEF listVars
<1>3. isSendingMessage' \in BOOLEAN  BY <1>1 DEF TextTypes
<1>4. /\ TextTypes' /\ TextInv' /\ KeptInv'
      /\ panel' \in Panel /\ PanelInv' /\ stored' \in [Conversations -> 0..MaxMessages]
      /\ pending' \subseteq pending
    BY <1>1, <1>3, IngestStep
<1>5. FilesInv'  BY <1>1, <1>2, <1>4, FilesFewer DEF Kept, listVars
<1>6. PageTypes'  BY <1>1, <1>4 DEF PageTypes
<1>. QED  BY <1>1, <1>2, <1>4, <1>5, <1>6, QuietLists DEF Kept

LEMMA SendAnsweredStep == ASSUME PageInv, NEW m \in sends, SendAnswered(m) PROVE PageInv'
<1> USE DEF PageInv
<1>1. /\ sends' = sends \ {m} /\ isSendingMessage' = FALSE /\ ClearBound(m.files) /\ NoBudget
      /\ UNCHANGED <<current, joining, loads, input, typed, listVars>>
    BY DEF SendAnswered
<1>2. m \in Message /\ m.files \subseteq Uploads  BY DEF TextTypes, Message
<1>3. Kept  BY <1>1, <1>2, ClearKept DEF listVars
<1>4. /\ TextTypes' /\ TextInv' /\ KeptInv'
      /\ panel' \in Panel /\ PanelInv' /\ stored' \in [Conversations -> 0..MaxMessages]
      /\ pending' \subseteq pending
    <2>1. CASE pending \intersect RowsOf(m) /= {}
        <3>1. Ingest(m)  BY <2>1 DEF SendAnswered
        <3>. QED  BY <1>1, <3>1, IngestStep
    <2>2. CASE pending \intersect RowsOf(m) = {}
        <3>1. Delivered(m) /\ UNCHANGED <<stored, pending, panel>>  BY <2>2 DEF SendAnswered
        <3>2. TextTypes' /\ TextInv' /\ KeptInv'
            <4>1. pending' = pending \ RowsOf(m)  BY <2>2, <3>1
            <4>. QED  BY <1>1, <3>1, <4>1, DeliveredText
        <3>3. panel' \in Panel /\ PanelInv' /\ stored' \in [Conversations -> 0..MaxMessages]
            BY <1>1, <3>1 DEF PageTypes, PanelInv, PanelIsFaithful, Stored, Unsent
        <3>. QED  BY <3>1, <3>2, <3>3
    <2>. QED  BY <2>1, <2>2
<1>5. FilesInv'  BY <1>1, <1>3, <1>4, FilesFewer DEF Kept, listVars
<1>6. PageTypes'  BY <1>1, <1>4 DEF PageTypes
<1>. QED  BY <1>1, <1>3, <1>4, <1>5, <1>6, QuietLists DEF Kept

LEMMA SendFailsStep == ASSUME PageInv, NEW m \in sends, SendFails(m) PROVE PageInv'
<1> USE DEF PageInv
<1>1. /\ Fault /\ pending' = Renewed(m, "failed") /\ panel' = Rendered(m, "failed")
      /\ sends' = sends \ {m} /\ isSendingMessage' = FALSE
      /\ UNCHANGED <<current, composerVars, joining, loads, stored, draft, typed, given, listVars>>
    BY DEF SendFails, KeptEntry, Renewed
<1>2. m \in Message /\ m.conv \in Conversations /\ m.text \in Values  BY DEF TextTypes, Message
<1>3. \/ input' = input
      \/ /\ input = NoText /\ current = m.conv
         /\ input' \in {draft[m.conv], m.text} /\ (draft[m.conv] /= NoText => input' = draft[m.conv])
    BY DEF SendFails, RestoredHere
<1>4. Kept  BY <1>1, QuietComposer DEF listVars
<1>5. /\ pending' \subseteq Entry
      /\ \A v : Elsewhere(v) => v \in given' \/ \E e \in pending' : e.text = v
      /\ \A e \in pending' : e \in pending \/ (e.conv = m.conv /\ e.text = m.text /\ e.files = m.files)
    BY <1>1, <1>2, RenewedKeeps
<1>6. FilesInv'
    <2>1. uploads' = uploads /\ strays' = strays  BY <1>1 DEF composerVars, listVars
    <2>. QED  BY <2>1, <1>1, <1>5 DEF FilesInv
<1>7. TextTypes'
    <2>1. input' \in Values  BY <1>2, <1>3 DEF TextTypes
    <2>. QED  BY <2>1, <1>1, <1>5 DEF TextTypes
<1>8. TextInv'
    <2>1. \A n \in sends' \union pending' : Own(n.text, n.conv)  BY <1>1, <1>5 DEF TextInv
    <2>2. Own(m.text, m.conv) /\ Own(draft[m.conv], m.conv)  BY <1>2 DEF TextInv
    <2>3. InputIsOwn'  BY <2>2, <1>1, <1>3 DEF TextInv, InputIsOwn, Own
    <2>. QED  BY <2>1, <2>3, <1>1 DEF TextInv
<1>9. KeptInv'
    <2>1. ASSUME NEW v \in typed
          PROVE  \/ v = input' \/ \E d \in Conversations : draft'[d] = v
                 \/ \E e \in pending' : e.text = v
                 \/ v \in given'
        <3>1. v /= NoText  BY DEF KeptInv
        <3>2. CASE v = input  BY <3>1, <3>2, <1>3
        <3>3. CASE Elsewhere(v)  BY <3>3, <1>5
        <3>. QED  BY <3>2, <3>3, <1>1 DEF KeptInv, TextIsKept, Elsewhere
    <2>2. current' /= Nowhere => \/ draft'[current'] \in {NoText, input'}
                                \/ draft'[current'] \in given'
                                \/ \E e \in pending' : e.text = draft'[current']
        BY <1>1, <1>3, <1>5 DEF KeptInv
    <2>3. NoText \notin typed' /\ (current' = Nowhere => input' \in given' \union {NoText})
        BY <1>1, <1>2, <1>3 DEF KeptInv
    <2>4. typed' = typed  BY <1>1
    <2>. QED  BY <2>1, <2>2, <2>3, <2>4 DEF KeptInv, TextIsKept, Elsewhere
<1>10. panel' \in Panel /\ PanelInv'  BY <1>1, <1>2, RenderedPanel DEF ComposerInv
<1>11. PageTypes'  BY <1>1, <1>10 DEF PageTypes
<1>. QED  BY <1>1, <1>4, <1>6, <1>7, <1>8, <1>9, <1>10, <1>11, QuietLists DEF Kept

----------------------------------------------------------------------------
(* The list, and the composer alone. *)

LEMMA AskTyped ==
    ASSUME ListTypes, NEW found \in SUBSET Conversations, NEW about \in Conversations \union {Nowhere},
           AskForList(found, about)
    PROVE  lists' \subseteq [found: SUBSET Conversations, about: Conversations \union {Nowhere}]
<1> DEFINE r == [found |-> found, about |-> about]
<1>1. r \in [found: SUBSET Conversations, about: Conversations \union {Nowhere}]  OBVIOUS
<1>2. lists' = lists \union {r}  BY DEF AskForList
<1> HIDE DEF r
<1>. QED  BY <1>1, <1>2 DEF ListTypes

LEMMA AskStep ==
    ASSUME PageInv, lists' \subseteq [found: SUBSET Conversations, about: Conversations \union {Nowhere}],
           Gesture, access' \subseteq Conversations,
           UNCHANGED <<current, composerVars, pageVars, textVars, conversationsById, strays>>
    PROVE  PageInv'
<1> USE DEF PageInv
<1>1. Kept  BY QuietComposer
<1>2. FilesInv'  BY <1>1, QuietFiles DEF Kept, textVars
<1>3. PageTypes' /\ PanelInv'  BY QuietPanel DEF textVars
<1>4. ListTypes'  BY DEF ListTypes, Gesture
<1>. QED  BY <1>1, <1>2, <1>3, <1>4, QuietText DEF Kept

LEMMA LoadConversationsStep == ASSUME PageInv, LoadConversations PROVE PageInv'
BY AskTyped, AskStep DEF PageInv, ListTypes, LoadConversations

LEMMA RevokedStep == ASSUME PageInv, NEW c \in Conversations, Revoked(c) PROVE PageInv'
<1> DEFINE found == access \ {c}
<1>1. found \in SUBSET Conversations  BY DEF PageInv, ListTypes
<1>2. /\ access' = found /\ AskForList(found, c) /\ Gesture
      /\ UNCHANGED <<current, composerVars, pageVars, textVars, conversationsById, strays>>
    BY DEF Revoked
<1> HIDE DEF found
<1>3. ListTypes  BY DEF PageInv
<1>4. lists' \subseteq [found: SUBSET Conversations, about: Conversations \union {Nowhere}]
    BY <1>1, <1>2, <1>3, AskTyped
<1>. QED  BY <1>1, <1>2, <1>4, AskStep

LEMMA ListAnsweredStep == ASSUME PageInv, NEW r \in lists, ListAnswered(r) PROVE PageInv'
<1> USE DEF PageInv
<1>1. /\ conversationsById' \in {conversationsById, r.found} /\ (Fault \/ NoBudget)
      /\ lists' = lists \ {r}
      /\ UNCHANGED <<composerVars, stored, input, draft, pending, sends, isSendingMessage, typed, access>>
    BY DEF ListAnswered, RenderConversationList
<1>2. r.found \subseteq Conversations  BY DEF ListTypes
<1>3. CASE UNCHANGED <<current, joining, loads, panel, given, strays>>
    <2>1. Kept  BY <1>1, <1>3, QuietComposer
    <2>2. FilesInv'  BY <2>1, <1>1, <1>3, QuietFiles DEF Kept
    <2>3. TextTypes' /\ TextInv' /\ KeptInv'  BY <1>1, <1>3, QuietText DEF textVars
    <2>4. PageTypes' /\ PanelInv'  BY <1>1, <1>3, QuietPanel DEF pageVars
    <2>5. ListTypes'  BY <1>1, <1>2, <1>3 DEF ListTypes, Fault, NoBudget
    <2>. QED  BY <2>1, <2>2, <2>3, <2>4, <2>5 DEF Kept
<1>4. CASE /\ current' = Nowhere /\ joining' = Nowhere /\ loads' = Abort(current)
           /\ panel' = State("removed", Nowhere)
           /\ given' = given \union ({input} \ {NoText})
           /\ strays' = strays \union Listed
    <2>1. ComposerInv'
        <3>1. ItemsInv'  BY <1>1, <1>4 DEF ComposerInv, ItemsInv, Known, Listed, composerVars
        <3>2. ComposerTypeOK' /\ TasksInv' /\ NothingIsLeftBehind'
            BY <1>1 DEF ComposerInv, composerVars, ComposerTypeOK, TasksInv, NothingIsLeftBehind, Known,
                        Listed, IdsOf, Starting
        <3>. QED  BY <3>1, <3>2, <1>4 DEF ComposerInv
    <2>2. Grow  BY <1>1 DEF Grow, composerVars
    <2>3. FilesInv'  BY <2>2, <1>1, <1>4, QuietFiles
    <2>4. TextTypes'  BY <1>1, <1>4 DEF TextTypes
    <2>5. TextInv'  BY <1>1, <1>4 DEF TextInv, Own, InputIsOwn
    <2>6. KeptInv'  BY <1>1, <1>4 DEF KeptInv, TextIsKept, Elsewhere
    <2>7. panel' \in Panel /\ PanelInv'  BY <1>4, NoticePanel
    <2>8. PageTypes'  BY <2>7, <1>1, <1>4, AbortTyped DEF PageTypes
    <2>9. ListTypes'
        <3>1. Listed \subseteq Files  BY DEF Listed
        <3>. QED  BY <3>1, <1>1, <1>2, <1>4 DEF ListTypes, Fault, NoBudget
    <2>. QED  BY <2>1, <2>3, <2>4, <2>5, <2>6, <2>7, <2>8, <2>9
<1>. QED  BY <1>3, <1>4 DEF ListAnswered

LEMMA ComposerAlone ==
    ASSUME PageInv, Kept, PageAsIs, Gesture \/ Fault \/ NoBudget PROVE PageInv'
<1> USE DEF PageInv, PageAsIs
<1>1. FilesInv'  BY QuietFiles DEF Kept, textVars, listVars
<1>2. PageTypes' /\ PanelInv'  BY QuietPanel DEF textVars
<1>. QED  BY <1>1, <1>2, QuietText, QuietLists DEF Kept

LEMMA ComposerOnly ==
    ASSUME PageInv, Back \/ ComposerGesture \/ ComposerGoesOn \/ ComposerFault PROVE PageInv'
<1>1. ComposerInv  BY DEF PageInv
<1>2. CASE Back
    <2>1. Cancel(Listed) /\ Gesture /\ PageAsIs /\ UNCHANGED <<current, strays>>
        BY <1>2 DEF Back, PageAsIs, listVars
    <2>2. Kept  BY <1>1, <2>1, CancelKept
    <2>. QED  BY <2>1, <2>2, ComposerAlone
<1>3. CASE ComposerGesture
    <2>1. PICK f \in Files : AddFile(f) \/ CancelItem(f) \/ Remove(f) \/ Retry(f) \/ CheckStatus(f)
        BY <1>3 DEF ComposerGesture
    <2>2. Gesture /\ PageAsIs /\ UNCHANGED <<current, strays>>
        BY <1>3 DEF ComposerGesture, PageAsIs, listVars
    <2>3. CancelItem(f) => {f} \in SUBSET Listed /\ Cancel({f})  BY DEF CancelItem, Selected
    <2>4. CancelItem(f) => Kept
        <3> DEFINE S == {f}
        <3>1. CancelItem(f) => S \in SUBSET Listed /\ Cancel(S)  BY <2>3
        <3> HIDE DEF S
        <3>. QED  BY <1>1, <2>2, <3>1, CancelKept
    <2>5. Kept  BY <1>1, <2>1, <2>2, <2>4, AddKept, RemoveKept, RetryKept, CheckKept
    <2>. QED  BY <2>2, <2>5, ComposerAlone
<1>4. CASE ComposerGoesOn
    <2>1. PICK t \in tasks : \/ IntentAnswered(t) \/ PutDone(t) \/ Completed(t)
                             \/ PollAnswered(t) \/ PollAgain(t) \/ RetryGoesOn(t)
        BY <1>4 DEF ComposerGoesOn, ComposerStep
    <2>2. NoBudget /\ PageAsIs /\ UNCHANGED <<current, strays>>
        BY <1>4 DEF ComposerGoesOn, PageAsIs, listVars
    <2>3. Kept
        BY <1>1, <2>1, <2>2, IntentKept, PutKept, CompleteKept, PollKept, AgainKept, RetryGoesOnKept
    <2>. QED  BY <2>2, <2>3, ComposerAlone
<1>5. CASE ComposerFault
    <2>1. PICK t \in tasks : TaskFails(t)  BY <1>5 DEF ComposerFault
    <2>2. Fault /\ PageAsIs /\ UNCHANGED <<current, strays>>
        BY <1>5 DEF ComposerFault, PageAsIs, listVars
    <2>3. Kept  BY <1>1, <2>1, <2>2, FailsKept
    <2>. QED  BY <2>2, <2>3, ComposerAlone
<1>. QED  BY <1>2, <1>3, <1>4, <1>5

----------------------------------------------------------------------------
(* The invariant. *)

LEMMA InitPage == ASSUME Init PROVE PageInv
<1> USE DEF Init, ComposerInit
<1>1. ComposerInv
    <2>1. Absent \in Item /\ ~ Absent.listed /\ Absent.status = "none" /\ Absent.id = NoUpload
        BY DEF Absent, Item, Status
    <2>2. \A f \in Files : items[f] = Absent  OBVIOUS
    <2>. QED  BY <2>1, <2>2 DEF ComposerInv, ComposerTypeOK, ItemsInv, TasksInv, NothingIsLeftBehind, Listed
<1>2. TextTypes /\ TextInv /\ KeptInv /\ FilesInv
    BY DEF TextTypes, TextInv, KeptInv, FilesInv, Values, Own, InputIsOwn, TextIsKept, Elsewhere
<1>3. PageTypes /\ PanelInv
    BY NoticeTyped DEF PageTypes, PanelInv, PanelIsFaithful
<1>4. ListTypes  BY DEF ListTypes
<1>. QED  BY <1>1, <1>2, <1>3, <1>4 DEF PageInv

LEMMA NextPage == ASSUME PageInv, [Next]_vars PROVE PageInv'
<1>1. CASE \E c \in Conversations : Open(c) \/ Arrives(c) \/ Revoked(c)
    BY <1>1, OpenStep, ArrivesStep, RevokedStep
<1>2. CASE \E l \in loads : LoadAnswered(l) \/ LoadFails(l)
    BY <1>2, LoadAnsweredStep, LoadFailsStep
<1>3. CASE \E t \in Texts : Type(t)
    BY <1>3, TypeStep
<1>4. CASE \E m \in sends : EventOvertakes(m) \/ SendAnswered(m) \/ SendFails(m)
    BY <1>4, EventStep, SendAnsweredStep, SendFailsStep
<1>5. CASE \E r \in lists : ListAnswered(r)
    BY <1>5, ListAnsweredStep
<1>6. CASE JoinAnswered \/ JoinFails \/ RetryLoad \/ Send \/ RetrySend \/ LoadConversations
    BY <1>6, JoinAnsweredStep, JoinFailsStep, RetryLoadStep, SendStep, RetrySendStep, LoadConversationsStep
<1>7. CASE Back \/ ComposerGesture \/ ComposerGoesOn \/ ComposerFault
    BY <1>7, ComposerOnly
<1>8. CASE UNCHANGED vars
    <2>1. /\ UNCHANGED <<current, composerVars, pageVars, textVars, listVars, strays>>
          /\ NoBudget /\ PageAsIs
        BY <1>8 DEF vars, listVars, NoBudget, PageAsIs
    <2>2. Kept  BY <2>1, QuietComposer DEF PageInv
    <2>. QED  BY <2>1, <2>2, ComposerAlone
<1>. QED  BY <1>1, <1>2, <1>3, <1>4, <1>5, <1>6, <1>7, <1>8 DEF Next

LEMMA PageImplies ==
    ASSUME PageInv
    PROVE  /\ TypeOK /\ PanelIsFaithful /\ InputIsOwn /\ TextIsKept
           /\ UploadsAreOwn /\ NothingIsLeftBehind
BY DEF PageInv, ComposerInv, TextTypes, PageTypes, ListTypes, TypeOK, PanelInv, TextInv, KeptInv, FilesInv, UploadsAreOwn

\* The page and its composer stay in their types (chat.js, attachments.js).
THEOREM PageTypeCorrect == Spec => []TypeOK
<1>1. Init => PageInv  BY InitPage
<1>2. PageInv /\ [Next]_vars => PageInv'  BY NextPage
<1>3. PageInv => TypeOK  BY PageImplies
<1>. QED  BY <1>1, <1>2, <1>3, PTL DEF Spec

\* A panel that was filled by a load shows the messages and the unsent entries of
\* the conversation that is open, and all of them (chat.js loadMessagesForConversation).
THEOREM PanelCorrect == Spec => []PanelIsFaithful
<1>1. Init => PageInv  BY InitPage
<1>2. PageInv /\ [Next]_vars => PageInv'  BY NextPage
<1>3. PageInv => PanelIsFaithful  BY PageImplies
<1>. QED  BY <1>1, <1>2, <1>3, PTL DEF Spec

\* What the input and the files beside it hold is of the conversation that is open
\* (chat.js switchChatContext).
THEOREM InputCorrect == Spec => []InputIsOwn
<1>1. Init => PageInv  BY InitPage
<1>2. PageInv /\ [Next]_vars => PageInv'  BY NextPage
<1>3. PageInv => InputIsOwn  BY PageImplies
<1>. QED  BY <1>1, <1>2, <1>3, PTL DEF Spec

\* No text that was typed is lost: it is in the input, in a draft or in a send
\* (chat.js switchChatContext, sendMessage).
THEOREM TextCorrect == Spec => []TextIsKept
<1>1. Init => PageInv  BY InitPage
<1>2. PageInv /\ [Next]_vars => PageInv'  BY NextPage
<1>3. PageInv => TextIsKept  BY PageImplies
<1>. QED  BY <1>1, <1>2, <1>3, PTL DEF Spec

\* A message goes with files of its own conversation (attachments.js createComposer).
THEOREM UploadsCorrect == Spec => []UploadsAreOwn
<1>1. Init => PageInv  BY InitPage
<1>2. PageInv /\ [Next]_vars => PageInv'  BY NextPage
<1>3. PageInv => UploadsAreOwn  BY PageImplies
<1>. QED  BY <1>1, <1>2, <1>3, PTL DEF Spec

\* No upload the page has heard of is forgotten (attachments.js createComposer).
THEOREM UploadsKept == Spec => []NothingIsLeftBehind
<1>1. Init => PageInv  BY InitPage
<1>2. PageInv /\ [Next]_vars => PageInv'  BY NextPage
<1>3. PageInv => NothingIsLeftBehind  BY PageImplies
<1>. QED  BY <1>1, <1>2, <1>3, PTL DEF Spec
=============================================================================
