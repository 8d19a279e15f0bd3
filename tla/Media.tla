------------------------------- MODULE Media -------------------------------
(***************************************************************************)
(* media/vision_service.py, media/meme_service.py, the routes of           *)
(* api/app.py on them, and runtime/vision_pipeline.py: pictures are        *)
(* uploaded, described by the vision model once per question, registered   *)
(* as memes, and put before a chat model that may not see pictures.        *)
(* Askers are the threads of one process: requests and turns of a kernel.  *)
(* Pixels, formats and sizes are left out: a picture is its content.       *)
(***************************************************************************)
EXTENDS Naturals, FiniteSets

CONSTANTS
    Askers,         \* threads of the process
    Attachments,    \* identifiers of uploads
    Contents,       \* the bytes a user may upload
    Workspaces,
    Questions,      \* what may be asked of a picture: <<words, closing sign>>
    MemeQuestion,        \* the question of analyze_meme, of the same form
    Memes,          \* identifiers of memes
    None,
    Uploaded,       \* tables of attachments a process may start with, each with a
                    \* bound: the uploads, requests, tool calls and turns that follow
    AnswerBound     \* bound: answers the vision model gives

ASSUME MediaAssumption ==
    /\ MemeQuestion \in Questions /\ None \notin Contents \cup Workspaces
    /\ None \notin [n : Nat, of : Attachments, blank : BOOLEAN, words : {q[1] : q \in Questions}]
    /\ Uploaded \subseteq [orders : Nat, table : [Attachments -> {None} \cup
           [content : Contents, workspace : Workspaces, named : BOOLEAN]]]

VARIABLES
    configured,     \* vision: a vision adapter is set; sees: the chat model takes pictures
    files,          \* attachments whose file is on the disk
    attachments,    \* table attachments: None or [content, workspace, named]
    observations,   \* table vision_observations, by cache_key: None or an answer
    memes,          \* table meme_assets: None or a row
    minted,         \* identifiers of memes that have been used
    context,        \* _current_workspace_id of the services, shared by turns
    job,            \* what each caller is doing
    answers,        \* answers the vision model gave so far
    orders,         \* what callers may still be asked for
    contested       \* ghost: pictures registered by force or by two callers at once

tables == <<files, attachments, observations, memes, minted>>
counts == <<answers, orders, contested>>
mediaVars == <<configured, tables, context, job, counts>>

\* normalize_prompt: blanks, case and the closing sign do not matter.
Normalized(question) == question[1]

\* create_cache_key; provider, model and preprocessing are those of the process.
CacheKey(workspace, content, question) == <<workspace, content, Normalized(question)>>

CacheKeys == Workspaces \X Contents \X {Normalized(q) : q \in Questions}

Nothing ==
    [at |-> "idle", for |-> "none", workspace |-> None, attachment |-> None, content |-> None,
     named |-> FALSE, question |-> None, force |-> FALSE, answer |-> None, asked |-> FALSE,
     meme |-> None, pictures |-> {}, todo |-> {}, results |-> {}]

\* A process starts with the uploads of earlier ones.
MediaInit ==
    /\ configured \in [vision : BOOLEAN, sees : BOOLEAN]
    /\ \E start \in Uploaded : attachments = start.table /\ orders = start.orders
    /\ files = {a \in Attachments : attachments[a] # None}
    /\ observations = [k \in CacheKeys |-> None]
    /\ memes = [m \in Memes |-> None]
    /\ minted = {}
    /\ context = None
    /\ job = [c \in Askers |-> Nothing]
    /\ answers = 0 /\ contested = {}

Doing(c, s) == job[c].at = s
Become(c, state) == job' = [job EXCEPT ![c] = state]
Go(c, s) == Become(c, [job[c] EXCEPT !.at = s])
End(c) == Become(c, Nothing)

\* A caller is free and is asked for something.
Engaged(c) ==
    /\ Doing(c, "idle") /\ orders > 0 /\ orders' = orders - 1
    /\ UNCHANGED <<configured, tables, answers, contested>>

-----------------------------------------------------------------------------
\* Uploads

(* POST /attachments: the picture is valid; a rejected one changes nothing *)
Upload(c) ==
    /\ Engaged(c) /\ UNCHANGED context
    /\ \E a \in Attachments, content \in Contents, w \in Workspaces, named \in BOOLEAN :
           /\ a \notin files /\ \A d \in Askers : ~Doing(d, "file") \/ job[d].attachment # a
           /\ Become(c, [Nothing EXCEPT !.at = "file", !.for = "upload", !.attachment = a,
                                 !.content = content, !.workspace = w, !.named = named])

UploadedRow(c) ==
    attachments' = [attachments EXCEPT ![job[c].attachment] =
        [content |-> job[c].content, workspace |-> job[c].workspace, named |-> job[c].named]]

WriteFile(c) ==
    /\ Doing(c, "file") /\ files' = files \cup {job[c].attachment} /\ Go(c, "row")
    /\ UNCHANGED <<configured, attachments, observations, memes, minted, context, counts>>

InsertRow(c) ==
    /\ Doing(c, "row") /\ UploadedRow(c) /\ End(c)
    /\ UNCHANGED <<configured, files, observations, memes, minted, context, counts>>

-----------------------------------------------------------------------------
\* Requests, tool calls and turns

Order(for, a, q, m) ==
    [Nothing EXCEPT !.for = for, !.attachment = a, !.question = q, !.meme = m]

Forced(o) == [o EXCEPT !.force = TRUE]

\* Identifiers come from a model or a client, and need not be of any row.
Orders ==
    LET questions ==
            {Order("inspect", a, q, None) : a \in Attachments, q \in Questions \ {MemeQuestion}}
            \cup {Order("analyze", a, MemeQuestion, None) : a \in Attachments}
    IN  questions \cup {Forced(o) : o \in questions}
        \cup {Order("register", a, None, None) : a \in Attachments}
        \cup {Order("send", None, None, m) : m \in Memes}

FirstStep(for) ==
    CASE for = "inspect" -> "consult" [] for = "send" -> "get" [] OTHER -> "known"

(* POST /memes, /memes/analyze, /memes/{id}/send name their workspace *)
Request(c) ==
    /\ Engaged(c) /\ UNCHANGED context
    /\ \E o \in Orders, w \in Workspaces :
           /\ o.for # "inspect"
           /\ Become(c, [o EXCEPT !.at = FirstStep(o.for), !.workspace = w])

(* _dispatch_tools: set_current_context of the services, before the executor *)
CallTool(c) ==
    /\ Engaged(c)
    /\ \E o \in Orders, w \in Workspaces : context' = w /\ Become(c, [o EXCEPT !.at = "tool"])

\* The tool reads the workspace the services were last given, by whatever turn.
RunTool(c) ==
    /\ Doing(c, "tool")
    /\ Become(c, [job[c] EXCEPT !.at = FirstStep(job[c].for), !.workspace = context])
    /\ UNCHANGED <<configured, tables, context, counts>>

Turn(c) ==
    /\ Engaged(c) /\ UNCHANGED context
    /\ \E pictures \in SUBSET Attachments \ {{}}, w \in Workspaces, q \in Questions \ {MemeQuestion} :
           Become(c, [Nothing EXCEPT !.at = "resolve", !.for = "turn", !.pictures = pictures,
                                     !.workspace = w, !.question = q])

-----------------------------------------------------------------------------
\* inspect_image

Working(c, s) == Doing(c, s) /\ UNCHANGED <<configured, context>>

Has(w, a) == attachments[a] # None /\ attachments[a].workspace = w
RowKey(state) == CacheKey(state.workspace, attachments[state.attachment].content, state.question)

\* A picture uploaded without a name is stored as "unknown", which no picture may be.
Readable(a) == a \in files /\ attachments[a].named

\* An exception ends the call; a turn catches it.
InspectRaises(c) == IF job[c].for = "turn" THEN Go(c, "fallback") ELSE End(c)

Consult(c) ==
    /\ Working(c, "consult") /\ UNCHANGED <<tables, counts>>
    /\ LET j == job[c]
           able == configured.vision /\ Has(j.workspace, j.attachment)
           cached == IF able /\ (j.for # "inspect" \/ ~j.force) THEN observations[RowKey(j)] ELSE None
       IN  \/ ~able /\ InspectRaises(c)
           \/ cached # None /\ Become(c, [j EXCEPT !.at = "told", !.answer = cached])
           \/ able /\ cached = None /\ Become(c, [j EXCEPT !.at = "model", !.asked = TRUE])

\* The vision model describes the bytes of the file, or says nothing.
AskModel(c) ==
    /\ Working(c, "model") /\ Readable(job[c].attachment)
    /\ answers < AnswerBound /\ answers' = answers + 1
    /\ \E blank \in BOOLEAN :
           Become(c, [job[c] EXCEPT !.at = "store",
               !.answer = [n |-> answers', of |-> job[c].attachment, blank |-> blank,
                           words |-> Normalized(job[c].question)]])
    /\ UNCHANGED <<tables, orders, contested>>

ModelFails(c) == Working(c, "model") /\ InspectRaises(c) /\ UNCHANGED <<tables, counts>>

\* Mutant of Store: INSERT OR REPLACE.
StoreLatest(c) ==
    /\ Working(c, "store") /\ Go(c, "told")
    /\ observations' = [observations EXCEPT ![RowKey(job[c])] = job[c].answer]
    /\ UNCHANGED <<files, attachments, memes, minted, counts>>

\* INSERT OR IGNORE: the first answer to a question stays, blank or not.
Store(c) ==
    /\ Working(c, "store") /\ Go(c, "told")
    /\ observations' = [observations EXCEPT ![RowKey(job[c])] = IF @ = None THEN job[c].answer ELSE @]
    /\ UNCHANGED <<files, attachments, memes, minted, counts>>

(* what each caller does with the text it is told *)
Told(c) ==
    /\ Working(c, "told") /\ UNCHANGED <<tables, counts>>
    /\ CASE job[c].for = "inspect" -> End(c)
         [] job[c].for = "analyze" ->
                \/ End(c)
                \/ ~job[c].answer.blank /\ Go(c, "create")
         [] job[c].for = "turn" ->
                Become(c, [job[c] EXCEPT !.at = "next", !.answer = None, !.asked = FALSE,
                    !.results = IF job[c].answer.blank THEN @ ELSE @ \cup {job[c].attachment}])

-----------------------------------------------------------------------------
\* Memes

Of(w, content) == {m \in Memes : memes[m] # None /\ memes[m].workspace = w
                                                 /\ memes[m].content = content}

\* get_by_attachment_id, then find_by_content_hash, which finds those as well.
Registered(w, a) == Of(w, attachments[a].content) # {}

Picture(state) == <<state.workspace, attachments[state.attachment].content>>
Registering(c) ==
    /\ job[c].for \in {"register", "analyze"} /\ job[c].at \notin {"tool", "known"}
    /\ Has(job[c].workspace, job[c].attachment)

(* register_meme and analyze_meme, up to their first write *)
LookForMeme(c) ==
    /\ Working(c, "known") /\ UNCHANGED <<tables, answers, orders>>
    /\ LET j == job[c]
           found == Has(j.workspace, j.attachment)
           go == found /\ (j.force \/ ~Registered(j.workspace, j.attachment))
       IN  /\ IF ~go THEN End(c) ELSE Go(c, IF j.for = "register" THEN "create" ELSE "consult")
           /\ contested' = IF go /\ (j.force \/ \E d \in Askers \ {c} :
                                         Registering(d) /\ Picture(job[d]) = Picture(j))
                           THEN contested \cup {Picture(j)} ELSE contested

CreateMeme(c) ==
    /\ Working(c, "create")
    /\ \E m \in Memes \ minted :
           /\ minted' = minted \cup {m}
           /\ memes' = [memes EXCEPT ![m] =
                  [attachment |-> job[c].attachment, workspace |-> job[c].workspace,
                   content |-> attachments[job[c].attachment].content, enabled |-> TRUE, uses |-> 0]]
    /\ End(c)
    /\ UNCHANGED <<files, attachments, observations, counts>>

(* send_meme *)
GetMeme(c) ==
    /\ Working(c, "get") /\ UNCHANGED <<tables, counts>>
    /\ LET row == memes[job[c].meme] IN
           IF row # None /\ row.workspace = job[c].workspace /\ row.enabled
           THEN Go(c, "use") ELSE End(c)

RecordUse(c) ==
    /\ Working(c, "use") /\ End(c)
    /\ memes' = IF memes[job[c].meme] = None THEN memes
                ELSE [memes EXCEPT ![job[c].meme].uses = @ + 1]
    /\ UNCHANGED <<files, attachments, observations, minted, counts>>

(* PATCH /memes/{id}, of which only enabled matters here, and DELETE *)
EditMeme(c) ==
    /\ Doing(c, "idle") /\ orders > 0 /\ orders' = orders - 1
    /\ \E m \in Memes :
           /\ memes[m] # None
           /\ \/ memes' = [memes EXCEPT ![m] = None]
              \/ memes' = [memes EXCEPT ![m].enabled = ~@]
    /\ UNCHANGED <<configured, files, attachments, observations, minted, context, job, answers,
                   contested>>

-----------------------------------------------------------------------------
\* The pictures of a turn

(* resolve_attachments: one that does not load becomes a line of text *)
Resolve(c) ==
    /\ Working(c, "resolve") /\ UNCHANGED <<tables, counts>>
    /\ Become(c, [job[c] EXCEPT !.at = "delegate",
           !.pictures = {a \in @ : Has(job[c].workspace, a) /\ Readable(a)}])

(* _build_model_messages: should_delegate_vision, and the head of run_pipeline *)
Delegate(c) ==
    /\ Doing(c, "delegate") /\ UNCHANGED <<configured, tables, counts>>
    /\ IF job[c].pictures = {} \/ configured.sees THEN Go(c, "sent") /\ UNCHANGED context
       ELSE IF ~configured.vision THEN Go(c, "fallback") /\ UNCHANGED context
       ELSE /\ context' = job[c].workspace
            /\ Become(c, [job[c] EXCEPT !.at = "next", !.todo = job[c].pictures])

\* What the model said of the pictures is dropped: the question goes on without.
PicturesDone(results) == IF results # {} THEN "sent" ELSE "fallback"

NextPicture(c) ==
    /\ Working(c, "next") /\ UNCHANGED <<tables, counts>>
    /\ \/ \E a \in job[c].todo :
              Become(c, [job[c] EXCEPT !.at = "consult", !.attachment = a, !.todo = @ \ {a}])
       \/ job[c].todo = {} /\ Go(c, PicturesDone(job[c].results))

\* The fallback calls a method the class does not have: the turn fails.
Fallback(c) == Working(c, "fallback") /\ End(c) /\ UNCHANGED <<tables, counts>>

Sent(c) == Working(c, "sent") /\ End(c) /\ UNCHANGED <<tables, counts>>

\* The process ends; a new one is configured as it was.
Stop ==
    /\ \E c \in Askers : ~Doing(c, "idle")
    /\ job' = [c \in Askers |-> Nothing] /\ context' = None
    /\ UNCHANGED <<configured, tables, counts>>

MediaStep ==
    \/ \E c \in Askers :
           \/ Upload(c) \/ WriteFile(c) \/ InsertRow(c)
           \/ Request(c) \/ CallTool(c) \/ RunTool(c) \/ Turn(c)
           \/ Consult(c) \/ AskModel(c) \/ ModelFails(c) \/ Store(c) \/ Told(c)
           \/ LookForMeme(c) \/ CreateMeme(c) \/ GetMeme(c) \/ RecordUse(c) \/ EditMeme(c)
           \/ Resolve(c) \/ Delegate(c) \/ NextPicture(c) \/ Fallback(c) \/ Sent(c)
    \/ Stop

MediaSpec == MediaInit /\ [][MediaStep]_mediaVars

-----------------------------------------------------------------------------
\* The text a caller is told was said about the very bytes it named, in answer
\* to its question and in its workspace, though cached rows are shared by all
\* attachments with these bytes; and it is the text every later caller is told,
\* unless the caller asked the model itself, at the same time as another.
AnswerIsOfThePicture ==
    \A c \in Askers : Doing(c, "told") =>
        LET j == job[c] IN
            /\ j.answer.words = Normalized(j.question)
            /\ attachments[j.answer.of].content = attachments[j.attachment].content
            /\ attachments[j.answer.of].workspace = j.workspace
            /\ j.asked \/ j.answer = observations[RowKey(j)]

\* A picture is one meme of its workspace, however often and under how many
\* attachments it was registered, by hand or by the model, edited and deleted:
\* two need two callers that registered it at the same time, or a forced analysis.
OneMemeEach ==
    \A w \in Workspaces, content \in Contents :
        Cardinality(Of(w, content)) > 1 => <<w, content>> \in contested

\* A chat model that takes no pictures is asked about a message with pictures
\* only after something was said about one of them, which is kept; otherwise
\* the turn fails and the user knows.
PictureNotIgnored ==
    \A c \in Askers : Doing(c, "sent") /\ job[c].pictures # {} /\ ~configured.sees =>
        \E a \in job[c].pictures :
            /\ a \in job[c].results
            /\ observations[CacheKey(job[c].workspace, attachments[a].content, job[c].question)]
                 # None

\* What is said of pictures is of the pictures: for callers, memes and turns.
PicturesTrue == AnswerIsOfThePicture /\ OneMemeEach /\ PictureNotIgnored
=============================================================================
