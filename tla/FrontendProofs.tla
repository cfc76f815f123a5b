--------------------------- MODULE FrontendProofs ---------------------------
(* Proofs about the browser page of Frontend.                              *)
EXTENDS Frontend, TLAPS

\* A running search knows what it asks.
Asked == \A c \in Searches : search[c].pc = "running" => search[c].text \in Queries

\* A poll is answered about a document that exists, and an answer that says done
\* stays true.
AnswersHold ==
    \A f \in Files : loop[f].pc = "answered" =>
        /\ loop[f].answer.status # "absent"
        /\ loop[f].answer.status = "done" =>
              status[f] = "done" /\ loop[f].answer.chunks = visible[f]

\* A panel without a file has nothing to show.
Named == panel.file = NoFile => panel.state = "none"

PageInv == /\ TypeOK /\ Asked /\ AnswersHold /\ Named
           /\ ColumnsShareQuery /\ QuietPageIsComplete
           /\ ShownDoneIsReal /\ NothingLeftHanging

-----------------------------------------------------------------------------
(* The search part.                                                        *)

\* What search c does to itself and to the page.
Moves(c) ==
    /\ \A e \in Searches \ {c} : search'[e] = search[e]
    /\ \/ /\ search'[c].pc = "running" /\ search'[c].text \in Queries
          /\ page' = [loading |-> TRUE, results |-> Nothing, error |-> FALSE]
       \/ /\ search[c].pc = "running" /\ search'[c].pc = "running"
          /\ search'[c].text = search[c].text
          /\ page' = page
       \/ /\ search'[c].pc = "ended" /\ search[c].text \in Queries
          /\ page' = [loading |-> FALSE, results |-> [n \in Columns |-> search[c].text],
                      error |-> page.error]
       \/ /\ search'[c].pc = "ended"
          /\ page' = [loading |-> FALSE, results |-> page.results, error |-> TRUE]

\* Every step of the search part is a move of one search.
LEMMA SearchMoves ==
    ASSUME TypeOK, Asked, PageNext
    PROVE  \E c \in Searches : Moves(c)
<1> USE DEF TypeOK, Page, Search
<1>1. ASSUME NEW c \in Searches, RunSearch(c)
      PROVE  /\ \A e \in Searches \ {c} : search'[e] = search[e]
             /\ search'[c].pc = "running" /\ search'[c].text \in Queries
             /\ page' = [loading |-> TRUE, results |-> Nothing, error |-> FALSE]
  BY <1>1 DEF RunSearch
<1>2. ASSUME NEW c \in Searches, NEW m \in Columns, Answered(c, m)
      PROVE  /\ \A e \in Searches \ {c} : search'[e] = search[e]
             /\ \/ /\ search[c].pc = "running" /\ search'[c].pc = "running"
                   /\ search'[c].text = search[c].text
                   /\ page' = page
                \/ /\ search'[c].pc = "ended" /\ search[c].text \in Queries
                   /\ page' = [loading |-> FALSE, results |-> [n \in Columns |-> search[c].text],
                               error |-> page.error]
  <2>1. page = [loading |-> page.loading, results |-> page.results, error |-> page.error]
    OBVIOUS
  <2>2. CASE search[c].open = {m}
    BY <1>2, <2>1, <2>2 DEF Answered, AllAtOnce, Asked
  <2>3. CASE search[c].open # {m}
    BY <1>2, <2>1, <2>3 DEF Answered, AllAtOnce
  <2>. QED
    BY <2>2, <2>3
<1>3. ASSUME NEW c \in Searches, Refused(c)
      PROVE  /\ \A e \in Searches \ {c} : search'[e] = search[e]
             /\ search'[c].pc = "ended"
             /\ page' = [loading |-> FALSE, results |-> page.results, error |-> TRUE]
  BY <1>3 DEF Refused, LoadingFailed
<1>. QED
  BY <1>1, <1>2, <1>3 DEF Moves, PageNext, SubmitForm, PressExample

\* The searches and the page keep their types.
LEMMA SearchTypes ==
    ASSUME TypeOK, Asked, PageNext
    PROVE  page' \in Page /\ search' \in [Searches -> Search]
<1>1. page' \in Page
  <2>1. PICK c \in Searches : Moves(c)
    BY SearchMoves
  <2> DEFINE shown == [n \in Columns |-> search[c].text]
  <2>2. search[c].text \in Queries => shown \in [Columns -> Queries]
    OBVIOUS
  <2>3. \/ page' = [loading |-> TRUE, results |-> Nothing, error |-> FALSE]
        \/ page' = page
        \/ shown \in [Columns -> Queries]
           /\ page' = [loading |-> FALSE, results |-> shown, error |-> page.error]
        \/ page' = [loading |-> FALSE, results |-> page.results, error |-> TRUE]
    BY <2>1, <2>2 DEF Moves
  <2> HIDE DEF shown
  <2>4. page \in Page /\ page.results \in [Columns -> Queries] \cup {Nothing} /\ page.error \in BOOLEAN
    BY DEF Page, TypeOK
  <2>5. \A shows \in [Columns -> Queries] \cup {Nothing}, waits, fails \in BOOLEAN :
            [loading |-> waits, results |-> shows, error |-> fails] \in Page
    BY DEF Page
  <2>. QED
    BY <2>3, <2>4, <2>5
<1>2. ASSUME NEW c \in Searches, RunSearch(c) PROVE search' \in [Searches -> Search]
  BY <1>2 DEF RunSearch, Search, TypeOK
<1>3. ASSUME NEW c \in Searches, NEW m \in Columns, Answered(c, m)
      PROVE  search' \in [Searches -> Search]
  BY <1>3, ZenonT(60) DEF Answered, Search, TypeOK
<1>4. ASSUME NEW c \in Searches, Refused(c) PROVE search' \in [Searches -> Search]
  BY <1>4 DEF Refused, Search, TypeOK
<1>. QED
  BY <1>1, <1>2, <1>3, <1>4 DEF PageNext, SubmitForm, PressExample

\* Overlapping searches leave the page consistent.
LEMMA PageStep ==
    ASSUME PageInv, PageNext
    PROVE  (Asked /\ ColumnsShareQuery /\ QuietPageIsComplete)'
<1> USE DEF PageInv, Moves
<1>1. PICK c \in Searches : Moves(c)
  BY SearchMoves
<1>2. Asked'
  BY <1>1 DEF Asked
<1>3. ColumnsShareQuery'
  BY <1>1 DEF ColumnsShareQuery
<1>4. search'[c].pc # "running" => ~page'.loading /\ (page'.results # Nothing \/ page'.error)
  BY <1>1, PageAssumption
<1>5. QuietPageIsComplete'
  BY <1>4 DEF QuietPageIsComplete
<1>. QED
  BY <1>2, <1>3, <1>5

-----------------------------------------------------------------------------
(* The upload part.                                                        *)

\* The server keeps the types of its two variables, and what is done.
LEMMA ServerStep ==
    ASSUME TypeOK, NEW f \in Files,
           Server!Register(f) \/ Server!Attempt(f) \/ Server!Publish(f) \/ Server!Reject(f)
    PROVE  /\ status' \in [Files -> {"absent"} \cup States] /\ visible' \in [Files -> Nat]
           /\ \A e \in Files : status[e] = "done" => status'[e] = "done" /\ visible'[e] = visible[e]
  BY UploadAssumption DEF TypeOK, States, Server!Register, Server!Attempt, Server!Publish,
     Server!Reject, Server!Unfinished

\* Every step of the panel is one of its loop's, and keeps what is done.
LEMMA PanelTypes ==
    ASSUME TypeOK, AnswersHold, PanelNext
    PROVE  /\ status' \in [Files -> {"absent"} \cup States] /\ visible' \in [Files -> Nat]
           /\ panel' \in Panel /\ loop' \in [Files -> Loop]
           /\ \A e \in Files : status[e] = "done" => status'[e] = "done" /\ visible'[e] = visible[e]
<1> USE DEF TypeOK, Panel, Loop, Answer, States, serverVars, GoOn, SetDoc, Name
<1> DEFINE Typed == /\ status' \in [Files -> {"absent"} \cup States] /\ visible' \in [Files -> Nat]
                    /\ panel' \in Panel /\ loop' \in [Files -> Loop]
                    /\ \A e \in Files : status[e] = "done" => status'[e] = "done" /\ visible'[e] = visible[e]
<1>1. ASSUME NEW f \in Files, ChooseFile(f) PROVE Typed
  BY <1>1 DEF ChooseFile
<1>2. ASSUME NEW f \in Files, Register(f) PROVE Typed
  BY <1>2, ServerStep DEF Register
<1>3. ASSUME NEW f \in Files, Posted(f) PROVE Typed
  BY <1>3 DEF Posted
<1>4. ASSUME NEW f \in Files, RequestFails(f) PROVE Typed
  <2>1. loop' = [loop EXCEPT ![f].pc = "ended"]
    BY <1>4 DEF RequestFails
  <2>. QED
    BY <1>4, <2>1 DEF RequestFails
<1>5. ASSUME NEW f \in Files, Ask(f) PROVE Typed
  <2>1. loop[f].polls + 1 \in 0..Polls
    BY <1>5, UploadAssumption DEF Ask, MorePolls
  <2>2. [status |-> status[f], chunks |-> visible[f]] \in Answer
    OBVIOUS
  <2>. QED
    BY <1>5, <2>1, <2>2 DEF Ask
<1>6. ASSUME NEW f \in Files, Show(f) PROVE Typed
  <2>1. loop[f].answer.status \in States /\ loop[f].answer.chunks \in Nat
    BY <1>6 DEF Show, AnswersHold
  <2>. QED
    BY <1>6, <2>1 DEF Show
<1>7. ASSUME NEW f \in Files, GiveUp(f) PROVE Typed
  BY <1>7, ZenonT(60) DEF GiveUp, Message
<1>8. ASSUME NEW f \in Files, Serve(f) PROVE Typed
  BY <1>8, ServerStep DEF Serve
<1>. QED
  BY <1>1, <1>2, <1>3, <1>4, <1>5, <1>6, <1>7, <1>8 DEF PanelNext

\* Loops that take turns on the panel leave it true and never mute.
LEMMA PanelStep ==
    ASSUME PageInv, PanelNext
    PROVE  (AnswersHold /\ Named /\ ShownDoneIsReal /\ NothingLeftHanging)'
<1> USE DEF PageInv, TypeOK, Panel, Loop, Answer, States, serverVars, GoOn, SetDoc, Name
<1>1. /\ panel' \in Panel /\ loop' \in [Files -> Loop]
      /\ \A e \in Files : status[e] = "done" => status'[e] = "done" /\ visible'[e] = visible[e]
  BY PanelTypes
<1>2. AnswersHold'
  <2>1. ASSUME NEW f \in Files, Ask(f) PROVE AnswersHold'
    BY <2>1 DEF Ask, AnswersHold
  <2>2. ASSUME NEW f \in Files,
               \/ ChooseFile(f) \/ Register(f) \/ Posted(f) \/ RequestFails(f)
               \/ Show(f) \/ GiveUp(f) \/ Serve(f)
        PROVE  \A e \in Files : loop'[e].pc = "answered" => loop'[e] = loop[e]
    <3>1. CASE Register(f) \/ Serve(f)
      BY <3>1 DEF Register, Serve
    <3>2. CASE RequestFails(f)
      <4>1. loop' = [loop EXCEPT ![f].pc = "ended"]
        BY <3>2 DEF RequestFails
      <4>. QED
        BY <4>1
    <3>3. CASE ChooseFile(f) \/ Posted(f) \/ Show(f) \/ GiveUp(f)
      BY <3>3 DEF ChooseFile, Posted, Show, GiveUp
    <3>. QED
      BY <2>2, <3>1, <3>2, <3>3
  <2>. QED
    BY <1>1, <2>1, <2>2 DEF PanelNext, AnswersHold
<1>3. ShownDoneIsReal'
  <2>1. ASSUME NEW f \in Files,
               ChooseFile(f) \/ Posted(f) \/ RequestFails(f)
        PROVE  panel'.state # "done"
    BY <2>1 DEF ChooseFile, Posted, RequestFails
  <2>2. ASSUME NEW f \in Files, Show(f) PROVE ShownDoneIsReal'
    BY <2>2 DEF Show, AnswersHold, ShownDoneIsReal
  <2>3. ASSUME NEW f \in Files, Register(f) \/ Ask(f) \/ GiveUp(f) \/ Serve(f)
        PROVE  panel'.state = panel.state /\ panel'.file = panel.file /\ panel'.chunks = panel.chunks
    BY <2>3 DEF Register, Ask, GiveUp, Serve
  <2>4. panel.state = "done" => panel.file \in Files
    BY DEF Named
  <2>. QED
    BY <1>1, <2>1, <2>2, <2>3, <2>4 DEF PanelNext, ShownDoneIsReal
<1>4. NothingLeftHanging'
  <2>1. ASSUME NEW f \in Files, ChooseFile(f) \/ Posted(f) \/ Ask(f)
        PROVE  loop'[f].pc \notin {"idle", "ended"}
    BY <2>1 DEF ChooseFile, Posted, Ask
  <2>2. ASSUME NEW f \in Files, RequestFails(f) \/ GiveUp(f) PROVE panel'.error
    BY <2>2 DEF RequestFails, GiveUp, Message
  <2>3. ASSUME NEW f \in Files, Show(f)
        PROVE  loop'[f].pc = "asking" \/ panel'.state \in {"done", "failed"}
    BY <2>3 DEF Show
  <2>4. ASSUME NEW f \in Files, Register(f) \/ Serve(f) PROVE panel' = panel /\ loop' = loop
    BY <2>4 DEF Register, Serve
  <2>. QED
    BY <2>1, <2>2, <2>3, <2>4 DEF PanelNext, NothingLeftHanging
<1>5. Named'
  BY UploadAssumption DEF PanelNext, ChooseFile, Posted, RequestFails, Ask, Show, GiveUp, Register,
     Serve, Named
<1>. QED
  BY <1>2, <1>3, <1>4, <1>5

-----------------------------------------------------------------------------
(* The page.                                                               *)

LEMMA PageInvInit == Init => PageInv
<1> SUFFICES ASSUME Init PROVE PageInv
  OBVIOUS
<1> USE DEF Init, PageInit, PanelInit
<1>1. TypeOK
  BY UploadAssumption DEF TypeOK, Page, Search, Panel, Loop, Answer, States, NoAnswer,
     Server!LifeInit
<1>2. Asked /\ AnswersHold /\ Named /\ ColumnsShareQuery /\ QuietPageIsComplete /\ ShownDoneIsReal
      /\ NothingLeftHanging
  BY DEF Asked, AnswersHold, Named, ColumnsShareQuery, QuietPageIsComplete, ShownDoneIsReal,
     NothingLeftHanging
<1>. QED
  BY <1>1, <1>2 DEF PageInv

LEMMA PageInvNext == PageInv /\ [Next]_<<pageVars, panelVars>> => PageInv'
<1> SUFFICES ASSUME PageInv, [Next]_<<pageVars, panelVars>> PROVE PageInv'
  OBVIOUS
<1> USE DEF PageInv, pageVars, panelVars
<1>1. CASE PageNext /\ UNCHANGED panelVars
  <2>1. TypeOK'
    BY <1>1, SearchTypes DEF TypeOK
  <2>2. AnswersHold' /\ Named' /\ ShownDoneIsReal' /\ NothingLeftHanging'
    BY <1>1 DEF AnswersHold, Named, ShownDoneIsReal, NothingLeftHanging
  <2>. QED
    BY <1>1, <2>1, <2>2, PageStep
<1>2. CASE PanelNext /\ UNCHANGED pageVars
  <2>1. TypeOK'
    BY <1>2, PanelTypes DEF TypeOK
  <2>2. Asked' /\ ColumnsShareQuery' /\ QuietPageIsComplete'
    BY <1>2 DEF Asked, ColumnsShareQuery, QuietPageIsComplete
  <2>. QED
    BY <1>2, <2>1, <2>2, PanelStep
<1>3. CASE UNCHANGED <<pageVars, panelVars>>
  BY <1>3 DEF TypeOK, Asked, AnswersHold, Named, ColumnsShareQuery, QuietPageIsComplete, ShownDoneIsReal,
     NothingLeftHanging
<1>. QED
  BY <1>1, <1>2, <1>3 DEF Next

\* Searches that overlap and uploads that take turns keep the page's invariant.
THEOREM PageInvariant == Spec => []PageInv
  BY PageInvInit, PageInvNext, PTL DEF Spec

\* The page's state stays typed, and no loop asks more often than it may.
THEOREM PageIsTyped == Spec => []TypeOK
<1>1. PageInv => TypeOK
  BY DEF PageInv
<1>. QED
  BY <1>1, PageInvariant, PTL

\* The columns that are compared answer one query, however many searches overlap.
THEOREM OneQueryPerPage == Spec => []ColumnsShareQuery
<1>1. PageInv => ColumnsShareQuery
  BY DEF PageInv
<1>. QED
  BY <1>1, PageInvariant, PTL

\* A page on which the last search has ended shows what came of it.
THEOREM QuietPageShows == Spec => []QuietPageIsComplete
<1>1. PageInv => QuietPageIsComplete
  BY DEF PageInv
<1>. QED
  BY <1>1, PageInvariant, PTL

\* What the upload panel shows as done is done, with that many chunks.
THEOREM DoneIsShownTruly == Spec => []ShownDoneIsReal
<1>1. PageInv => ShownDoneIsReal
  BY DEF PageInv
<1>. QED
  BY <1>1, PageInvariant, PTL

\* A panel on which the last loop has ended says how.
THEOREM PanelSpeaks == Spec => []NothingLeftHanging
<1>1. PageInv => NothingLeftHanging
  BY DEF PageInv
<1>. QED
  BY <1>1, PageInvariant, PTL
=============================================================================
