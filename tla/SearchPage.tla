----------------------------- MODULE SearchPage -----------------------------
(***************************************************************************)
(* The search part of the browser page: each search sends its query in     *)
(* every mode at once and shows the answers together.  The form cannot be  *)
(* sent while the page is loading; the example buttons can be pressed at   *)
(* any time, so searches may overlap, and all of them write the same page. *)
(***************************************************************************)
EXTENDS Naturals, TLC

CONSTANTS
    Searches,   \* calls of runSearch
    Queries,    \* texts, none of them blank
    Columns,    \* the modes
    Nothing

ASSUME PageAssumption == Nothing \notin Queries /\ Nothing \notin [Columns -> Queries]

VARIABLES
    page,       \* the component's state: loading, results, error
    search      \* each call of runSearch

pageVars == <<page, search>>

Page   == [loading : BOOLEAN, results : [Columns -> Queries] \cup {Nothing}, error : BOOLEAN]
Search == [pc : {"unused", "running", "ended"}, text : Queries \cup {Nothing},
           open : SUBSET Columns]   \* the modes that have not answered

PageInit ==
    /\ page = [loading |-> FALSE, results |-> Nothing, error |-> FALSE]
    /\ search = [c \in Searches |-> [pc |-> "unused", text |-> Nothing, open |-> {}]]

RunSearch(c) ==
    /\ search[c].pc = "unused"
    /\ \E text \in Queries :
          search' = [search EXCEPT ![c] = [pc |-> "running", text |-> text, open |-> Columns]]
    /\ page' = [loading |-> TRUE, results |-> Nothing, error |-> FALSE]

SubmitForm(c)   == ~page.loading /\ RunSearch(c)
PressExample(c) == RunSearch(c)

\* Mutant: each column is shown as soon as its answer is there.
AsTheyCome(c, m) ==
    (m :> search[c].text) @@ IF page.results = Nothing THEN <<>> ELSE page.results
AllAtOnce(c, m) ==
    IF search[c].open = {m} THEN [n \in Columns |-> search[c].text] ELSE page.results

Answered(c, m) ==
    /\ search[c].pc = "running" /\ m \in search[c].open
    /\ search' = [search EXCEPT ![c].open = @ \ {m},
                                ![c].pc = IF search[c].open = {m} THEN "ended" ELSE @]
    /\ page' = [page EXCEPT !.results = AllAtOnce(c, m),
                            !.loading = @ /\ search[c].open # {m}]

\* Mutant: only a success ends the loading.
StillLoading  == page.loading
LoadingFailed == FALSE

\* The first failure decides; what the other modes answer is not looked at.
Refused(c) ==
    /\ search[c].pc = "running"
    /\ search' = [search EXCEPT ![c].pc = "ended", ![c].open = {}]
    /\ page' = [page EXCEPT !.error = TRUE, !.loading = LoadingFailed]

PageNext == \E c \in Searches : \/ SubmitForm(c) \/ PressExample(c)
                                \/ (\E m \in Columns : Answered(c, m))
                                \/ Refused(c)
=============================================================================
