------------------------------- MODULE Wizard -------------------------------
(***************************************************************************)
(* The setup wizard (internal/wizard/server.go): Serve, and the handlers of *)
(* its pages.  The server keeps nothing of the form: what has been entered  *)
(* lives in the page a browser tab shows, and every button sends it all and *)
(* gets it back in a new page.  Only a confirmation does more: it connects, *)
(* writes config.yaml and ends Serve, while other tabs go on.               *)
(* The person at the browser, the file system and ngrok are external.       *)
(***************************************************************************)
EXTENDS Integers, SequencesExt

CONSTANTS Tabs,               \* browser tabs
          Drafts,             \* what may be typed into the endpoint fieldset
          MaxManualEndpoints  \* maxManualEndpoints

Fields == [name : {"", "a", "b"}, url : {"", "taken"}, upstream : {"", "up"},
           bindings : {"", "public", "internal"}, cert : {"", "c"}, key : {"", "k"}]

ASSUME WizardAssumption ==
  /\ MaxManualEndpoints \in Nat
  /\ Drafts \subseteq Fields

VARIABLES
  page,     \* what each tab shows; on "done", what it had shown when confirmed
  request,  \* each tab's confirmation: "none", or how far handleConfirm is
  config,   \* config.yaml
  serve,    \* where Serve is
  done,     \* the done channel, of capacity one
  result,   \* what Serve returns
  canceled  \* ctx is done

vars == <<page, request, config, serve, done, result, canceled>>

Blank == [name |-> "", url |-> "", upstream |-> "", bindings |-> "", cert |-> "", key |-> ""]
\* The draft is closed, opened as a new one, or opened as a saved one; the pages
\* tell only whether it is open, the rest is history.
DraftStates == {"closed", "new", "edit"}
NoPage == [kind |-> "none", saved |-> <<>>, draftOpen |-> "closed", draft |-> Blank,
           session |-> "good"]

Sessions == {"good", "bad"}   \* settings that Validate accepts, and others
NoFile == [kind |-> "absent", endpoints |-> <<>>]
Torn   == [kind |-> "torn", endpoints |-> <<>>]    \* truncated, not yet written
Mixed  == [kind |-> "mixed", endpoints |-> <<>>]   \* two writes over each other
File(endpoints) == [kind |-> "file", endpoints |-> endpoints]

Init ==
  /\ page = [t \in Tabs |-> NoPage]
  /\ request = [t \in Tabs |-> "none"]
  /\ config = NoFile
  /\ serve = "opening" /\ done = "empty" /\ result = "none"
  /\ canceled = FALSE

-----------------------------------------------------------------------------
(* Endpoints in forms and in the configuration. *)

NoTLS == [cert |-> "", key |-> ""]

toConfigEndpoint(f) ==
  [name |-> f.name, url |-> f.url, upstream |-> f.upstream,
   bindings |-> IF f.bindings \in {"", "public"} THEN <<>> ELSE <<f.bindings>>,
   tls |-> [cert |-> f.cert, key |-> f.key]]

\* Variant: the bindings are not read back.
endpointFromConfigUnbound(ep) ==
  [name |-> ep.name, url |-> ep.url, upstream |-> ep.upstream, bindings |-> "public",
   cert |-> ep.tls.cert, key |-> ep.tls.key]

endpointFromConfig(ep) ==
  [name |-> ep.name, url |-> ep.url, upstream |-> ep.upstream,
   bindings |-> IF ep.bindings = <<>> THEN "public" ELSE ep.bindings[1],
   cert |-> ep.tls.cert, key |-> ep.tls.key]

Config(fields) == [i \in DOMAIN fields |-> toConfigEndpoint(fields[i])]

Filled(f) == f.upstream # ""

\* The fieldsets in their order, up to the ceiling; a blank one is skipped.
parseIndexedEndpoints(fields) ==
  LET count == IF Len(fields) > MaxManualEndpoints THEN MaxManualEndpoints ELSE Len(fields)
      out[n \in Nat] == IF n = 0 THEN <<>>
                        ELSE IF Filled(fields[n]) THEN Append(out[n - 1], fields[n])
                                                  ELSE out[n - 1]
  IN  out[count]

\* config.Validate, of what the wizard's form can get wrong.
Validate(session, endpoints) ==
  /\ session = "good"
  /\ \A i \in DOMAIN endpoints :
       /\ endpoints[i].upstream # ""
       /\ endpoints[i].tls # NoTLS => endpoints[i].tls.cert # "" /\ endpoints[i].tls.key # ""
       /\ \A j \in DOMAIN endpoints :
            i # j /\ endpoints[i].name # "" => endpoints[i].name # endpoints[j].name

\* What ngrok lets this account open: not an address another one holds.
Connectable(endpoints) == \A i \in DOMAIN endpoints : endpoints[i].url # "taken"

-----------------------------------------------------------------------------
(* The pages.  A request needs a server that listens and a tab that is not    *)
(* waiting for an answer.                                                     *)

Listening == serve \in {"opening", "waiting"}

On(t, kind) == Listening /\ request[t] = "none" /\ page[t].kind = kind

Render(t, p) ==
  /\ page' = [page EXCEPT ![t] = p]
  /\ UNCHANGED <<request, config, serve, done, result, canceled>>

Form(t, saved, open, draft) ==
  Render(t, [page[t] EXCEPT !.kind = "form", !.saved = saved, !.draftOpen = open, !.draft = draft])

Saved(t) == parseIndexedEndpoints(page[t].saved)

\* The person at the tab fills in the form.
Type(t) ==
  /\ page[t].kind = "form" /\ request[t] = "none"
  /\ \E d \in Drafts, s \in Sessions :
       Render(t, [page[t] EXCEPT !.draft = IF page[t].draftOpen # "closed" THEN d ELSE @, !.session = s])

HandleForm(t) == On(t, "none") /\ Form(t, <<>>, "closed", Blank)

\* "Back" on the confirmation page: handleForm, with the endpoints as the saved ones.
Back(t) == On(t, "confirm") /\ Form(t, Saved(t), "closed", Blank)

\* The button is there while no draft is open.
HandleNewEndpoint(t) ==
  /\ On(t, "form") /\ page[t].draftOpen = "closed"
  /\ Form(t, Saved(t), "new", Blank)

\* Variant: no ceiling.
HandleSaveEndpointUnbounded(t) ==
  /\ On(t, "form") /\ page[t].draftOpen # "closed"
  /\ IF Filled(page[t].draft)
     THEN Form(t, Append(Saved(t), page[t].draft), "closed", Blank)
     ELSE Form(t, Saved(t), page[t].draftOpen, page[t].draft)

HandleSaveEndpoint(t) ==
  /\ On(t, "form") /\ page[t].draftOpen # "closed"
  /\ IF Filled(page[t].draft) /\ Len(Saved(t)) < MaxManualEndpoints
     THEN Form(t, Append(Saved(t), page[t].draft), "closed", Blank)
     ELSE Form(t, Saved(t), page[t].draftOpen, page[t].draft)

HandleRemoveEndpoint(t) ==
  /\ On(t, "form")
  /\ \E i \in DOMAIN Saved(t) :
       Form(t, RemoveAt(Saved(t), i), page[t].draftOpen, page[t].draft)

\* The pencil of every saved box is there while a draft is open, too.
HandleEditEndpoint(t) ==
  /\ On(t, "form")
  /\ \E i \in DOMAIN Saved(t) :
       Form(t, RemoveAt(Saved(t), i), "edit", Saved(t)[i])

\* The saved endpoints and an open draft that has an upstream.
WithDraft(p, saved) ==
  saved \o (IF p.draftOpen # "closed" /\ Filled(p.draft) THEN <<p.draft>> ELSE <<>>)

HandleSubmit(t) ==
  /\ On(t, "form")
  /\ LET endpoints == Config(WithDraft(page[t], Saved(t))) IN
     IF Validate(page[t].session, endpoints)
     THEN Render(t, [page[t] EXCEPT
            !.kind = "confirm", !.draftOpen = "closed", !.draft = Blank,
            !.saved = [i \in DOMAIN endpoints |-> endpointFromConfig(endpoints[i])]])
     ELSE Form(t, Saved(t), page[t].draftOpen, page[t].draft)

-----------------------------------------------------------------------------
(* handleConfirm, which takes its time.  Whatever fails shows the same page   *)
(* again, with what was parsed of it.                                         *)

Confirmed(t) == Config(Saved(t))

At(t, p) == request[t] = p
To(t, p) == request' = [request EXCEPT ![t] = p]

Refuse(t) ==
  /\ To(t, "none")
  /\ page' = [page EXCEPT ![t].saved = Saved(t)]
  /\ UNCHANGED <<done, serve, result, canceled>>

HandleConfirm(t) ==
  /\ On(t, "confirm")
  /\ IF Validate(page[t].session, Confirmed(t))
     THEN To(t, "testing") /\ UNCHANGED <<page, done, serve, result, canceled>>
     ELSE Refuse(t)
  /\ UNCHANGED config

\* Variant: a failed connection is logged.
TestConnectLax(t) ==
  /\ At(t, "testing") /\ To(t, "tested")
  /\ UNCHANGED <<page, config, serve, done, result, canceled>>

\* A connection attempt of at most twenty seconds; it may also fail for other reasons.
TestConnect(t) ==
  /\ At(t, "testing")
  /\ \/ /\ Connectable(Confirmed(t)) /\ To(t, "tested")
        /\ UNCHANGED <<page, done, serve, result, canceled>>
     \/ Refuse(t)
  /\ UNCHANGED config

\* Variant: a channel without a buffer.
SignalDoneUnbuffered(r) == done' = IF serve = "waiting" THEN r ELSE done

\* select { case w.done <- r: default: }
SignalDone(r) == done' = IF done = "empty" THEN r ELSE done

\* Variant: the browser is told before the file is written.
DoneFirst(t) ==
  /\ At(t, "tested") /\ To(t, "writing")
  /\ page' = [page EXCEPT ![t].kind = "done"] /\ SignalDone("nil")
  /\ UNCHANGED <<config, serve, result, canceled>>

\* local.Write truncates the file, then writes it.
Truncate(t) ==
  /\ At(t, "tested") /\ To(t, "writing")
  /\ config' = Torn
  /\ UNCHANGED <<page, serve, done, result, canceled>>

WriteConfig(t) ==
  /\ At(t, "writing")
  /\ \/ /\ config' \in {File(Confirmed(t))} \cup (IF config = Torn THEN {} ELSE {Mixed})
        /\ To(t, "none")
        /\ page' = [page EXCEPT ![t].kind = "done"]
        /\ SignalDone("nil")
        /\ UNCHANGED <<serve, result, canceled>>
     \/ Refuse(t) /\ UNCHANGED config

Confirming(t) == TestConnect(t) \/ Truncate(t) \/ WriteConfig(t)

Tab(t) ==
  \/ Type(t) \/ HandleForm(t) \/ Back(t) \/ HandleNewEndpoint(t) \/ HandleSaveEndpoint(t)
  \/ HandleRemoveEndpoint(t) \/ HandleEditEndpoint(t) \/ HandleSubmit(t)
  \/ HandleConfirm(t) \/ Confirming(t)

-----------------------------------------------------------------------------
(* Serve *)

ServeGoto(p) == serve' = p /\ UNCHANGED <<page, request, config, done, canceled>>

\* Variant: ctx is not looked at.
ServeUncanceled == FALSE

\* openBrowser, while the handlers already answer
BrowserOpened  == serve = "opening" /\ ServeGoto("waiting") /\ UNCHANGED result
ServeDone      == serve = "waiting" /\ done # "empty" /\ ServeGoto("shutdown") /\ result' = done
ServeCanceled  == serve = "waiting" /\ canceled /\ ServeGoto("shutdown") /\ result' = "canceled"

\* srv.Shutdown, for at most five seconds: a confirmation may take longer.
ShutdownEnds   == serve = "shutdown" /\ ServeGoto("returned") /\ UNCHANGED result

Serving == BrowserOpened \/ ServeDone \/ ServeCanceled \/ ShutdownEnds

\* srv.Serve fails
ServerFails ==
  /\ Listening /\ SignalDone("error")
  /\ UNCHANGED <<page, request, config, serve, result, canceled>>

Cancel ==
  /\ canceled' = TRUE
  /\ UNCHANGED <<page, request, config, serve, done, result>>

Next == Serving \/ ServerFails \/ Cancel \/ \E t \in Tabs : Tab(t)

Spec == Init /\ [][Next]_vars

(* Serve's goroutine is scheduled, and what it waits for otherwise is bounded. *)
FairSpec == Spec /\ WF_vars(Serving)

-----------------------------------------------------------------------------
Kinds == {"none", "form", "confirm", "done"}

IsPage(p) ==
  /\ p.kind \in Kinds /\ p.draftOpen \in DraftStates /\ p.session \in Sessions
  /\ p.draft \in Fields
  /\ Len(p.saved) <= MaxManualEndpoints + (IF p.kind = "form" THEN 0 ELSE 1)
  /\ Range(p.saved) \subseteq {f \in Fields : Filled(f)}

TypeOK ==
  /\ \A t \in Tabs : IsPage(page[t])
  /\ request \in [Tabs -> {"none", "testing", "tested", "writing"}]
  /\ config.kind \in {"absent", "torn", "mixed", "file"}
  /\ Len(config.endpoints) <= MaxManualEndpoints
  /\ serve \in {"opening", "waiting", "shutdown", "returned"}
  /\ done \in {"empty", "nil", "error"}
  /\ result \in {"none", "nil", "error", "canceled"}
  /\ canceled \in BOOLEAN

\* The configuration a page stands for: its saved endpoints and a filled-in draft.
Entered(p) == Config(WithDraft(p, p.saved))

(* Nothing entered is lost or altered on the round trips of the form: through  *)
(* a new draft, a save, refused or not, and a submission, refused or not, a    *)
(* page stands for the same configuration and the same session settings.       *)
RoundTripsKeepEverything ==
  [][\A t \in Tabs :
       HandleNewEndpoint(t) \/ HandleSaveEndpoint(t) \/ HandleSubmit(t)
       => Entered(page'[t]) = Entered(page[t]) /\ page'[t].session = page[t].session]_vars

\* What a page shows to be confirmed, and the part of it that the ceiling lets be.
Offered(t) == Config(page[t].saved)
UpToCeiling(s) == IF Len(s) > MaxManualEndpoints THEN SubSeq(s, 1, MaxManualEndpoints) ELSE s

(* A config.yaml that is whole validates and connected, and is what the page of *)
(* one tab showed when it was confirmed, in its order and with nothing of the   *)
(* other tabs, but for one: a page can show an endpoint more than the ceiling   *)
(* (the draft submitted beside a full list), and that one is not written.  Of a *)
(* file that is not whole it says nothing: a write cut short or two at once     *)
(* leave such files, which ReturnedConfigIsComplete is about.                   *)
WrittenConfigWorks ==
  config.kind = "file" =>
    /\ Validate("good", config.endpoints) /\ Connectable(config.endpoints)
    /\ \E t \in Tabs : page[t].kind = "done" /\ config.endpoints = UpToCeiling(Offered(t))

(* Serve returns without an error only if config.yaml exists: the caller goes  *)
(* on to load it.                                                              *)
NilMeansConfigured == result = "nil" => config # NoFile

(* A confirmed configuration ends Serve, also one confirmed before Serve waits *)
(* for it, and so does a stop signal.                                          *)
ConfirmEndsServe == (\E t \in Tabs : page[t].kind = "done") ~> serve = "returned"
CancelEndsServe  == canceled ~> serve = "returned"

(* "without losing previously-saved ones" (server_test.go): an endpoint that   *)
(* was saved, and is now the draft because it is being edited, is still on the *)
(* page when another one is taken to be edited.                                *)
EditKeepsSaved ==
  [][\A t \in Tabs : HandleEditEndpoint(t) /\ page[t].draftOpen = "edit" =>
       Range(Entered(page[t])) \subseteq Range(Entered(page'[t]))]_vars

(* "blocks until ... the installer confirms a config (written to configPath)"  *)
(* (Serve): when it has returned without an error, the file is complete.       *)
ReturnedConfigIsComplete == serve = "returned" /\ result = "nil" => config.kind = "file"

=============================================================================
