---------------------------- MODULE WizardProofs ----------------------------
(***************************************************************************)
(* Theorems about Wizard, for any number of tabs, anything that may be      *)
(* typed, and any ceiling on the endpoints.                                 *)
(***************************************************************************)
EXTENDS Wizard, NatRecursion, SequenceTheorems, TLAPS

-----------------------------------------------------------------------------
(* The fields of a form *)

FilledFields == {f \in Fields : Filled(f)}

Ceiled(n) == IF n > MaxManualEndpoints THEN MaxManualEndpoints ELSE n

\* One more fieldset.
LEMMA PrefixGrows ==
  ASSUME NEW S, NEW s \in Seq(S), NEW n \in Nat, n < Len(s)
  PROVE  Append(SubSeq(s, 1, n), s[n + 1]) = SubSeq(s, 1, n + 1)
OBVIOUS

\* Nothing is lost in parsing filled-in fieldsets, up to the ceiling, nor put in another order.
LEMMA ParsesFilled ==
  ASSUME NEW fields \in Seq(FilledFields)
  PROVE  parseIndexedEndpoints(fields) = SubSeq(fields, 1, Ceiled(Len(fields)))
<1> DEFINE Def(f) == f = [n \in Nat |-> IF n = 0 THEN <<>>
                                        ELSE IF Filled(fields[n]) THEN Append(f[n - 1], fields[n])
                                                                  ELSE f[n - 1]]
           out == CHOOSE f : Def(f)
<1>1. parseIndexedEndpoints(fields) = out[Ceiled(Len(fields))]
  BY DEF parseIndexedEndpoints, Ceiled
<1>2. \E f : Def(f)
  <2> DEFINE X    == Seq({fields[n] : n \in Nat})
             step == [n \in Nat |-> [s \in X |-> IF Filled(fields[n]) THEN Append(s, fields[n]) ELSE s]]
  <2>1. <<>> \in X /\ step \in Steps(X)
    BY DEF Steps
  <2>2. \A n \in Nat, s \in X : step[n][s] = IF Filled(fields[n]) THEN Append(s, fields[n]) ELSE s
    OBVIOUS
  <2> HIDE DEF X, step
  <2>3. Recursive(X, <<>>, step) # {}
    BY <2>1, PrimitiveRecursion
  <2>4. PICK f \in [Nat -> X] : f[0] = <<>> /\ \A n \in Nat \ {0} : f[n] = step[n][f[n - 1]]
    BY <2>3, Zenon DEF Recursive
  <2>5. ASSUME NEW n \in Nat \ {0}
        PROVE  f[n] = IF Filled(fields[n]) THEN Append(f[n - 1], fields[n]) ELSE f[n - 1]
    <3>1. n - 1 \in Nat /\ f[n - 1] \in X
      OBVIOUS
    <3> QED
      BY <2>2, <2>4, <3>1
  <2> QED
    BY <2>4, <2>5
<1>3. Def(out)
  <2> HIDE DEF Def
  <2> QED
    BY <1>2
<1> HIDE DEF out
<1> DEFINE S == {n \in Nat : n <= Len(fields) => out[n] = SubSeq(fields, 1, n)}
<1>4. 0 \in S
  BY <1>3
<1>5. ASSUME NEW n \in Nat, n \in S PROVE n + 1 \in S
  <2> SUFFICES ASSUME n + 1 <= Len(fields) PROVE out[n + 1] = SubSeq(fields, 1, n + 1)
    OBVIOUS
  <2>1. n + 1 \in Nat /\ n + 1 # 0 /\ (n + 1) - 1 = n /\ n < Len(fields) /\ n + 1 \in 1 .. Len(fields)
    OBVIOUS
  <2>2. fields[n + 1] \in FilledFields
    BY <2>1
  <2>3. out[n + 1] = Append(out[n], fields[n + 1])
    BY <1>3, <2>1, <2>2 DEF FilledFields
  <2> QED
    BY <1>5, <2>1, <2>3, PrefixGrows
<1> HIDE DEF S, Def
<1>6. Nat \subseteq S
  BY <1>4, <1>5, Induction
<1>7. Ceiled(Len(fields)) \in Nat /\ Ceiled(Len(fields)) <= Len(fields)
  BY WizardAssumption DEF Ceiled
<1> QED
  BY <1>1, <1>6, <1>7 DEF S

\* What a handler reads from a page with filled-in endpoints.
LEMMA SavedFilled ==
  ASSUME NEW t, page[t].saved \in Seq(FilledFields)
  PROVE  /\ Saved(t) \in Seq(FilledFields)
         /\ Len(Saved(t)) <= MaxManualEndpoints
         /\ Len(page[t].saved) <= MaxManualEndpoints => Saved(t) = page[t].saved
<1> DEFINE s == page[t].saved
<1>1. Saved(t) = SubSeq(s, 1, Ceiled(Len(s)))
  BY ParsesFilled DEF Saved
<1>2. Ceiled(Len(s)) \in 0 .. Len(s) /\ Ceiled(Len(s)) <= MaxManualEndpoints
  BY WizardAssumption DEF Ceiled
<1>3. Len(s) <= MaxManualEndpoints => Ceiled(Len(s)) = Len(s)
  BY WizardAssumption DEF Ceiled
<1> HIDE DEF s
<1>4. s \in Seq(FilledFields)
  BY DEF s
<1>5. SubSeq(s, 1, Len(s)) = s
  BY <1>4
<1>6. \A n \in 0 .. Len(s) : SubSeq(s, 1, n) \in Seq(FilledFields) /\ Len(SubSeq(s, 1, n)) = n
  BY <1>4
<1> QED
  BY <1>1, <1>2, <1>3, <1>5, <1>6 DEF s

\* Written to the configuration and shown again, an endpoint is the same endpoint.
LEMMA ShownAgain ==
  ASSUME NEW f \in FilledFields
  PROVE  /\ endpointFromConfig(toConfigEndpoint(f)) \in FilledFields
         /\ toConfigEndpoint(endpointFromConfig(toConfigEndpoint(f))) = toConfigEndpoint(f)
BY DEF FilledFields, Fields, Filled, toConfigEndpoint, endpointFromConfig

\* An endpoint taken out of the list leaves a shorter one.
LEMMA Removed ==
  ASSUME NEW S, NEW s \in Seq(S), NEW i \in DOMAIN s
  PROVE  RemoveAt(s, i) \in Seq(S) /\ Len(RemoveAt(s, i)) < Len(s)
<1>1. i \in 1 .. Len(s)
  OBVIOUS
<1>2. SubSeq(s, 1, i - 1) \in Seq(S) /\ Len(SubSeq(s, 1, i - 1)) = i - 1
  BY <1>1
<1>3. SubSeq(s, i + 1, Len(s)) \in Seq(S) /\ Len(SubSeq(s, i + 1, Len(s))) = Len(s) - i
  BY <1>1
<1> QED
  BY <1>1, <1>2, <1>3 DEF RemoveAt

-----------------------------------------------------------------------------
(* The files on disk and the pages *)

PageRecord(p) == p \in [kind : {p.kind}, saved : {p.saved}, draftOpen : {p.draftOpen},
                        draft : {p.draft}, session : {p.session}]

Shapes ==
  /\ page = [t \in Tabs |-> page[t]] /\ \A t \in Tabs : PageRecord(page[t])
  /\ request \in [Tabs -> {"none", "testing", "tested", "writing"}]

\* What a confirmation under way has been through: its page does not change meanwhile.
ConfirmedSoFar ==
  \A t \in Tabs : request[t] # "none" =>
    /\ page[t].kind = "confirm"
    /\ Validate("good", Confirmed(t))
    /\ request[t] \in {"tested", "writing"} => Connectable(Confirmed(t))

\* Whoever says nil says so after the file was begun, and no step takes it away.
NilAfterWrite == done = "nil" \/ result = "nil" => config.kind # "absent"

\* A whole file is what one tab's confirmation read from its page, and was checked.
WrittenWasChecked ==
  config.kind = "file" =>
    /\ Validate("good", config.endpoints) /\ Connectable(config.endpoints)
    /\ \E t \in Tabs : page[t].kind = "done" /\ config.endpoints = Confirmed(t)

WzInv == Shapes /\ ConfirmedSoFar /\ WrittenWasChecked /\ NilAfterWrite

LEMMA WzInitInv == Init => WzInv
BY DEF Init, WzInv, Shapes, PageRecord, NoPage, ConfirmedSoFar, WrittenWasChecked, NoFile,
       NilAfterWrite

-----------------------------------------------------------------------------
(* The pages *)

\* What a tab has confirmed is a matter of its own page.
LEMMA SamePage ==
  ASSUME NEW t, page'[t].saved = page[t].saved
  PROVE  Confirmed(t)' = Confirmed(t)
BY DEF Confirmed, Saved

\* A new page in a tab that neither confirms nor has confirmed disturbs nothing.
LEMMA NewPage ==
  ASSUME WzInv, NEW t \in Tabs, request[t] = "none", page[t].kind # "done",
         NEW p, PageRecord(p), Render(t, p)
  PROVE  WzInv'
<1>1. /\ page' = [u \in Tabs |-> page'[u]] /\ page'[t] = p
      /\ \A u \in Tabs : u # t => page'[u] = page[u]
  BY DEF Render, WzInv, Shapes
<1>2. UNCHANGED <<request, config, serve, done, result, canceled>>
  BY DEF Render
<1>3. Shapes'
  BY <1>1, <1>2 DEF WzInv, Shapes, PageRecord
<1>4. \A u \in Tabs : u # t => Confirmed(u)' = Confirmed(u)
  BY <1>1, SamePage
<1>5. ConfirmedSoFar'
  BY <1>1, <1>2, <1>4 DEF WzInv, ConfirmedSoFar
<1>6. WrittenWasChecked'
  BY <1>1, <1>2, <1>4 DEF WzInv, WrittenWasChecked
<1> QED
  BY <1>2, <1>3, <1>5, <1>6 DEF WzInv, NilAfterWrite

\* Every button but "confirm" only gives the tab a new page.
LEMMA Buttons ==
  ASSUME WzInv, NEW t \in Tabs,
         \/ Type(t) \/ HandleForm(t) \/ Back(t) \/ HandleNewEndpoint(t)
         \/ HandleSaveEndpoint(t) \/ HandleRemoveEndpoint(t) \/ HandleEditEndpoint(t)
         \/ HandleSubmit(t)
  PROVE  WzInv'
<1>1. request[t] = "none" /\ page[t].kind \in {"none", "form", "confirm"}
  BY DEF Type, HandleForm, Back, HandleNewEndpoint, HandleSaveEndpoint, HandleRemoveEndpoint,
         HandleEditEndpoint, HandleSubmit, On
<1>2. PageRecord(page[t])
  BY DEF WzInv, Shapes
<1>3. ASSUME NEW p, PageRecord(p), Render(t, p) PROVE WzInv'
  BY <1>1, <1>3, NewPage
<1>4. ASSUME NEW s, NEW o, NEW d, Form(t, s, o, d) PROVE WzInv'
  <2> DEFINE p == [page[t] EXCEPT !.kind = "form", !.saved = s, !.draftOpen = o, !.draft = d]
  <2>1. PageRecord(p)
    BY <1>2 DEF PageRecord
  <2>2. Render(t, p)
    BY <1>4 DEF Form
  <2> HIDE DEF p
  <2> QED
    BY <1>3, <2>1, <2>2
<1>5. CASE Type(t)
  <2>1. PICK d \in Drafts, s \in Sessions :
          Render(t, [page[t] EXCEPT !.draft = IF page[t].draftOpen # "closed" THEN d ELSE @, !.session = s])
    BY <1>5, Zenon DEF Type
  <2> DEFINE p == [page[t] EXCEPT !.draft = IF page[t].draftOpen # "closed" THEN d ELSE @, !.session = s]
  <2>2. PageRecord(p)
    BY <1>2 DEF PageRecord
  <2>3. Render(t, p)
    BY <2>1
  <2> HIDE DEF p
  <2> QED
    BY <1>3, <2>2, <2>3
<1>6. CASE HandleForm(t) \/ Back(t) \/ HandleNewEndpoint(t) \/ HandleSaveEndpoint(t)
           \/ HandleRemoveEndpoint(t) \/ HandleEditEndpoint(t)
  BY <1>4, <1>6 DEF HandleForm, Back, HandleNewEndpoint, HandleSaveEndpoint,
                    HandleRemoveEndpoint, HandleEditEndpoint
<1>7. CASE HandleSubmit(t)
  <2> DEFINE endpoints == Config(WithDraft(page[t], Saved(t)))
             shown     == [page[t] EXCEPT
                             !.kind = "confirm", !.draftOpen = "closed", !.draft = Blank,
                             !.saved = [i \in DOMAIN endpoints |-> endpointFromConfig(endpoints[i])]]
  <2>1. CASE Render(t, shown)
    <3> HIDE DEF endpoints
    <3>1. PageRecord(shown)
      BY <1>2 DEF PageRecord
    <3> HIDE DEF shown
    <3> QED
      BY <1>3, <2>1, <3>1
  <2>2. CASE Form(t, Saved(t), page[t].draftOpen, page[t].draft)
    BY <1>4, <2>2
  <2> QED
    BY <1>7, <2>1, <2>2 DEF HandleSubmit
<1> QED
  BY <1>5, <1>6, <1>7

-----------------------------------------------------------------------------
(* The confirmation *)

\* A refused confirmation leaves the file as the refusal found it.
LEMMA RefuseInv ==
  ASSUME WzInv, NEW t \in Tabs, page[t].kind = "confirm", Refuse(t), UNCHANGED config
  PROVE  WzInv'
<1>1. /\ page' = [u \in Tabs |-> page'[u]] /\ page'[t] = [page[t] EXCEPT !.saved = Saved(t)]
      /\ \A u \in Tabs : u # t => page'[u] = page[u]
      /\ request' = [request EXCEPT ![t] = "none"] /\ request \in [Tabs -> {"none", "testing", "tested", "writing"}]
      /\ UNCHANGED <<done, result>>
  BY DEF Refuse, To, WzInv, Shapes
<1>2. \A u \in Tabs : u # t => Confirmed(u)' = Confirmed(u)
  BY <1>1, SamePage
<1>3. Shapes'
  BY <1>1 DEF WzInv, Shapes, PageRecord
<1>4. ConfirmedSoFar'
  BY <1>1, <1>2 DEF WzInv, ConfirmedSoFar
<1>5. WrittenWasChecked'
  BY <1>1, <1>2 DEF WzInv, WrittenWasChecked
<1> QED
  BY <1>1, <1>3, <1>4, <1>5 DEF WzInv, NilAfterWrite

\* One step on in a confirmation, with the page as it is.
LEMMA Onward ==
  ASSUME WzInv, NEW t \in Tabs, NEW r \in {"testing", "tested", "writing"}, To(t, r),
         UNCHANGED <<page, done, result>>, UNCHANGED config \/ config' = Torn,
         page[t].kind = "confirm", Validate("good", Confirmed(t)),
         r \in {"tested", "writing"} => Connectable(Confirmed(t))
  PROVE  WzInv'
<1>1. \A u \in Tabs : Confirmed(u)' = Confirmed(u)
  BY SamePage
<1>2. Shapes'
  BY DEF To, WzInv, Shapes
<1>3. ConfirmedSoFar'
  BY <1>1 DEF To, WzInv, Shapes, ConfirmedSoFar
<1>4. WrittenWasChecked'
  BY <1>1 DEF WzInv, WrittenWasChecked, Torn
<1>5. NilAfterWrite'
  BY DEF WzInv, NilAfterWrite, Torn
<1> QED
  BY <1>2, <1>3, <1>4, <1>5 DEF WzInv

\* The write that succeeds: what it leaves is what this tab has confirmed.
LEMMA WrittenInv ==
  ASSUME WzInv, NEW t \in Tabs, request[t] = "writing", To(t, "none"),
         config' = File(Confirmed(t)) \/ config' = Mixed,
         page' = [page EXCEPT ![t].kind = "done"], SignalDone("nil"),
         UNCHANGED <<serve, result, canceled>>
  PROVE  WzInv'
<1>1. /\ page' = [u \in Tabs |-> page'[u]] /\ page'[t] = [page[t] EXCEPT !.kind = "done"]
      /\ \A u \in Tabs : u # t => page'[u] = page[u]
      /\ PageRecord(page[t])
  BY DEF WzInv, Shapes
<1>2. page'[t].kind = "done" /\ \A u \in Tabs : page'[u].saved = page[u].saved
  BY <1>1 DEF PageRecord
<1>3. \A u \in Tabs : Confirmed(u)' = Confirmed(u)
  BY <1>2, SamePage
<1>4. Shapes'
  BY <1>1 DEF To, WzInv, Shapes, PageRecord
<1>5. ConfirmedSoFar'
  BY <1>1, <1>3 DEF To, WzInv, Shapes, ConfirmedSoFar
<1>6. WrittenWasChecked'
  <2>1. CASE config' = File(Confirmed(t))
    <3>1. config'.endpoints = Confirmed(t)' /\ config'.endpoints = Confirmed(t)
      BY <1>3, <2>1 DEF File
    <3>2. Validate("good", Confirmed(t)) /\ Connectable(Confirmed(t))
      BY DEF WzInv, ConfirmedSoFar
    <3>3. Validate("good", config'.endpoints) /\ Connectable(config'.endpoints)
      BY <3>1, <3>2
    <3> QED
      BY <1>2, <3>1, <3>3 DEF WrittenWasChecked
  <2>2. CASE config' = Mixed
    BY <2>2 DEF Mixed, WrittenWasChecked
  <2> QED
    BY <2>1, <2>2
<1>7. NilAfterWrite'
  BY DEF File, Mixed, NilAfterWrite
<1> QED
  BY <1>4, <1>5, <1>6, <1>7 DEF WzInv

LEMMA ConfirmInv ==
  ASSUME WzInv, NEW t \in Tabs, HandleConfirm(t) \/ Confirming(t)
  PROVE  WzInv'
<1>1. request[t] # "none" =>
        /\ page[t].kind = "confirm" /\ Validate("good", Confirmed(t))
        /\ request[t] \in {"tested", "writing"} => Connectable(Confirmed(t))
  BY DEF WzInv, ConfirmedSoFar
<1>2. CASE HandleConfirm(t)
  <2>1. page[t].kind = "confirm" /\ UNCHANGED config
    BY <1>2 DEF HandleConfirm, On
  <2>2. CASE Validate(page[t].session, Confirmed(t))
    <3>1. To(t, "testing") /\ UNCHANGED <<page, done, result>>
      BY <1>2, <2>2 DEF HandleConfirm
    <3>2. Validate("good", Confirmed(t))
      BY <2>2 DEF Validate
    <3> QED
      BY <2>1, <3>1, <3>2, Onward
  <2>3. CASE Refuse(t)
    BY <2>1, <2>3, RefuseInv
  <2> QED
    BY <1>2, <2>2, <2>3 DEF HandleConfirm
<1>3. CASE TestConnect(t)
  <2>1. CASE Refuse(t)
    BY <1>1, <1>3, <2>1, RefuseInv DEF TestConnect, At
  <2>2. CASE Connectable(Confirmed(t)) /\ To(t, "tested") /\ UNCHANGED <<page, done, serve, result, canceled>>
    BY <1>1, <1>3, <2>2, Onward DEF TestConnect, At
  <2> QED
    BY <1>3, <2>1, <2>2 DEF TestConnect
<1>4. CASE Truncate(t)
  BY <1>1, <1>4, Onward DEF Truncate, At
<1>5. CASE WriteConfig(t)
  <2>1. CASE Refuse(t) /\ UNCHANGED config
    BY <1>1, <1>5, <2>1, RefuseInv DEF WriteConfig, At
  <2>2. CASE ~(Refuse(t) /\ UNCHANGED config)
    BY <1>5, <2>2, WrittenInv DEF WriteConfig, At
  <2> QED
    BY <2>1, <2>2
<1> QED
  BY <1>2, <1>3, <1>4, <1>5 DEF Confirming

-----------------------------------------------------------------------------
\* Serve, a server that fails and a stop signal touch neither a page nor the file.
LEMMA ServeInv ==
  ASSUME WzInv, Serving \/ ServerFails \/ Cancel
  PROVE  WzInv'
<1>1. UNCHANGED <<page, request, config>>
  BY DEF Serving, BrowserOpened, ServeDone, ServeCanceled, ShutdownEnds, ServeGoto,
         ServerFails, Cancel
<1>2. NilAfterWrite'
  BY DEF WzInv, NilAfterWrite, Serving, BrowserOpened, ServeDone, ServeCanceled, ShutdownEnds,
         ServeGoto, ServerFails, SignalDone, Cancel
<1>3. \A t \in Tabs : Confirmed(t)' = Confirmed(t)
  BY <1>1, SamePage
<1> QED
  BY <1>1, <1>2, <1>3 DEF WzInv, Shapes, ConfirmedSoFar, WrittenWasChecked

LEMMA WzStepInv == WzInv /\ [Next]_vars => WzInv'
<1> SUFFICES ASSUME WzInv, [Next]_vars PROVE WzInv'
  OBVIOUS
<1>1. CASE Serving \/ ServerFails \/ Cancel
  BY <1>1, ServeInv
<1>2. ASSUME NEW t \in Tabs, Tab(t) PROVE WzInv'
  BY <1>2, Buttons, ConfirmInv DEF Tab
<1>3. CASE UNCHANGED vars
  <2>1. \A t \in Tabs : Confirmed(t)' = Confirmed(t)
    BY <1>3, SamePage DEF vars
  <2> QED
    BY <1>3, <2>1 DEF vars, WzInv, Shapes, ConfirmedSoFar, WrittenWasChecked, NilAfterWrite
<1> QED
  BY <1>1, <1>2, <1>3 DEF Next

LEMMA WzInductive == Spec => []WzInv
BY WzInitInv, WzStepInv, PTL DEF Spec

-----------------------------------------------------------------------------
\* Serve returns without an error only if config.yaml exists.
THEOREM NilConfigured == Spec => []NilMeansConfigured
<1>1. WzInv => NilMeansConfigured
  BY DEF WzInv, NilAfterWrite, NilMeansConfigured, NoFile
<1> QED
  BY <1>1, WzInductive, PTL

-----------------------------------------------------------------------------
(* Type correctness, and the round trips of the form *)

Pages == [kind : Kinds, saved : Seq(FilledFields), draftOpen : DraftStates, draft : Fields,
          session : Sessions]

\* A form never shows more endpoints than the ceiling; a confirmation may add the draft.
WithinCeiling(p) == Len(p.saved) <= MaxManualEndpoints + (IF p.kind = "form" THEN 0 ELSE 1)

\* TypeOK with the fields of a page typed as a whole: a page's endpoints are all filled in.
WzTypes ==
  /\ page \in [Tabs -> Pages] /\ \A t \in Tabs : WithinCeiling(page[t])
  /\ request \in [Tabs -> {"none", "testing", "tested", "writing"}]
  /\ config.kind \in {"absent", "torn", "mixed", "file"}
  /\ Len(config.endpoints) <= MaxManualEndpoints
  /\ serve \in {"opening", "waiting", "shutdown", "returned"}
  /\ done \in {"empty", "nil", "error"}
  /\ result \in {"none", "nil", "error", "canceled"}
  /\ canceled \in BOOLEAN

LEMMA BlankField == Blank \in Fields /\ ~Filled(Blank)
BY DEF Blank, Fields, Filled

LEMMA InitTypes == Init => WzTypes
<1> SUFFICES ASSUME Init PROVE WzTypes
  OBVIOUS
<1>1. NoPage \in Pages /\ WithinCeiling(NoPage)
  BY BlankField, WizardAssumption DEF NoPage, Pages, Kinds, DraftStates, Sessions, WithinCeiling
<1>2. page \in [Tabs -> Pages] /\ \A t \in Tabs : WithinCeiling(page[t])
  BY <1>1 DEF Init
<1>3. config.kind = "absent" /\ Len(config.endpoints) <= MaxManualEndpoints
  BY WizardAssumption DEF Init, NoFile
<1> QED
  BY <1>2, <1>3 DEF Init, WzTypes

\* What the handlers work with, on any page.
LEMMA OnPage ==
  ASSUME WzTypes, NEW t \in Tabs
  PROVE  /\ page[t] \in Pages /\ WithinCeiling(page[t])
         /\ Saved(t) \in Seq(FilledFields) /\ Len(Saved(t)) <= MaxManualEndpoints
         /\ Len(Saved(t)) \in Nat
         /\ page[t].kind = "form" => Saved(t) = page[t].saved
<1>1. page[t] \in Pages /\ WithinCeiling(page[t])
  BY DEF WzTypes
<1>2. page[t].saved \in Seq(FilledFields)
  BY <1>1 DEF Pages
<1>3. /\ Saved(t) \in Seq(FilledFields) /\ Len(Saved(t)) <= MaxManualEndpoints
      /\ Len(page[t].saved) <= MaxManualEndpoints => Saved(t) = page[t].saved
  BY <1>2, SavedFilled
<1>4. page[t].kind = "form" => Len(page[t].saved) <= MaxManualEndpoints
  BY <1>1, WizardAssumption DEF WithinCeiling
<1>5. Len(Saved(t)) \in Nat
  BY <1>3
<1> QED
  BY <1>1, <1>3, <1>4, <1>5

\* The endpoints of a configuration are as many as the fieldsets they are made of.
LEMMA ConfigLength ==
  ASSUME NEW s \in Seq(FilledFields)
  PROVE  Len(Config(s)) = Len(s) /\ DOMAIN Config(s) = 1 .. Len(s)
<1>1. DOMAIN s = 1 .. Len(s) /\ Len(s) \in Nat
  OBVIOUS
<1> QED
  BY <1>1 DEF Config

LEMMA NewPageTypes ==
  ASSUME WzTypes, NEW t \in Tabs, NEW p \in Pages, WithinCeiling(p), Render(t, p)
  PROVE  WzTypes'
BY DEF WzTypes, Render

\* A form with endpoints below the ceiling and any draft.
LEMMA FormTypes ==
  ASSUME WzTypes, NEW t \in Tabs, NEW s \in Seq(FilledFields), Len(s) <= MaxManualEndpoints,
         NEW o \in DraftStates, NEW d \in Fields, Form(t, s, o, d)
  PROVE  WzTypes'
<1> DEFINE p == [page[t] EXCEPT !.kind = "form", !.saved = s, !.draftOpen = o, !.draft = d]
<1>1. page[t] \in Pages
  BY DEF WzTypes
<1>2. p \in Pages /\ p.kind = "form" /\ p.saved = s
  BY <1>1 DEF Pages, Kinds
<1>3. Len(s) \in Nat
  OBVIOUS
<1>4. Render(t, p)
  BY DEF Form
<1> HIDE DEF p
<1>5. WithinCeiling(p)
  BY <1>2, <1>3, WizardAssumption DEF WithinCeiling
<1> QED
  BY <1>2, <1>4, <1>5, NewPageTypes

\* The saved endpoints with the draft, and the same shown again after a submission.
Shown(endpoints) == [i \in DOMAIN endpoints |-> endpointFromConfig(endpoints[i])]

LEMMA Drafted ==
  ASSUME NEW p \in Pages, NEW s \in Seq(FilledFields)
  PROVE  WithDraft(p, s) \in Seq(FilledFields) /\ Len(WithDraft(p, s)) <= Len(s) + 1
<1>1. CASE p.draftOpen # "closed" /\ Filled(p.draft)
  <2>1. <<p.draft>> \in Seq(FilledFields) /\ Len(<<p.draft>>) = 1
    BY <1>1 DEF Pages, FilledFields
  <2>2. WithDraft(p, s) = s \o <<p.draft>>
    BY <1>1 DEF WithDraft
  <2> QED
    BY <2>1, <2>2
<1>2. CASE ~(p.draftOpen # "closed" /\ Filled(p.draft))
  <2>1. WithDraft(p, s) = s
    BY <1>2 DEF WithDraft
  <2> QED
    BY <2>1
<1> QED
  BY <1>1, <1>2

LEMMA ShownSame ==
  ASSUME NEW s \in Seq(FilledFields)
  PROVE  /\ Shown(Config(s)) \in Seq(FilledFields) /\ Len(Shown(Config(s))) = Len(s)
         /\ Config(Shown(Config(s))) = Config(s)
<1>1. DOMAIN s = 1 .. Len(s) /\ Len(s) \in Nat /\ \A i \in 1 .. Len(s) : s[i] \in FilledFields
  OBVIOUS
<1>2. Config(s) = [i \in 1 .. Len(s) |-> toConfigEndpoint(s[i])]
  BY <1>1 DEF Config
<1>3. Shown(Config(s)) = [i \in 1 .. Len(s) |-> endpointFromConfig(toConfigEndpoint(s[i]))]
  BY <1>2 DEF Shown
<1>4. Shown(Config(s)) \in Seq(FilledFields) /\ Len(Shown(Config(s))) = Len(s)
  BY <1>1, <1>3, ShownAgain
<1>5. Config(Shown(Config(s))) =
        [i \in 1 .. Len(s) |-> toConfigEndpoint(endpointFromConfig(toConfigEndpoint(s[i])))]
  BY <1>3 DEF Config
<1>6. \A i \in 1 .. Len(s) :
        toConfigEndpoint(endpointFromConfig(toConfigEndpoint(s[i]))) = toConfigEndpoint(s[i])
  BY <1>1, ShownAgain
<1> QED
  BY <1>2, <1>4, <1>5, <1>6

\* The page a submission that validates shows.
LEMMA SubmittedPage ==
  ASSUME WzTypes, NEW t \in Tabs, page[t].kind = "form"
  PROVE  LET s     == WithDraft(page[t], Saved(t))
             shown == [page[t] EXCEPT !.kind = "confirm", !.draftOpen = "closed", !.draft = Blank,
                                      !.saved = Shown(Config(s))]
         IN  /\ shown \in Pages /\ WithinCeiling(shown)
             /\ Entered(shown) = Entered(page[t]) /\ shown.session = page[t].session
<1> DEFINE s     == WithDraft(page[t], Saved(t))
           q     == Shown(Config(s))
           shown == [page[t] EXCEPT !.kind = "confirm", !.draftOpen = "closed", !.draft = Blank,
                                    !.saved = q]
<1>1. s \in Seq(FilledFields) /\ Len(s) <= Len(Saved(t)) + 1 /\ Len(Saved(t)) <= MaxManualEndpoints
  BY OnPage, Drafted
<1>2. Saved(t) = page[t].saved /\ page[t] \in Pages /\ Len(Saved(t)) \in Nat
  BY OnPage
<1>3. Entered(page[t]) = Config(s)
  BY <1>2 DEF Entered
<1> HIDE DEF s
<1>4. q \in Seq(FilledFields) /\ Len(q) = Len(s) /\ Config(q) = Config(s) /\ Len(s) \in Nat
  BY <1>1, ShownSame
<1> HIDE DEF q
<1>5. shown \in Pages /\ shown.kind = "confirm" /\ shown.saved = q /\ shown.draftOpen = "closed"
      /\ shown.session = page[t].session
  BY <1>2, <1>4, BlankField DEF Pages, Kinds, DraftStates
<1> HIDE DEF shown
<1>6. WithinCeiling(shown)
  BY <1>1, <1>2, <1>4, <1>5, WizardAssumption DEF WithinCeiling
<1>7. WithDraft(shown, shown.saved) = q
  BY <1>4, <1>5 DEF WithDraft
<1>8. Entered(shown) = Entered(page[t])
  BY <1>3, <1>4, <1>7 DEF Entered
<1> QED
  BY <1>5, <1>6, <1>8 DEF shown, q, s

LEMMA ButtonTypes ==
  ASSUME WzTypes, NEW t \in Tabs,
         \/ Type(t) \/ HandleForm(t) \/ Back(t) \/ HandleNewEndpoint(t)
         \/ HandleSaveEndpoint(t) \/ HandleRemoveEndpoint(t) \/ HandleEditEndpoint(t)
         \/ HandleSubmit(t)
  PROVE  WzTypes'
<1>1. /\ page[t] \in Pages /\ WithinCeiling(page[t])
      /\ Saved(t) \in Seq(FilledFields) /\ Len(Saved(t)) <= MaxManualEndpoints
      /\ Len(Saved(t)) \in Nat
  BY OnPage
<1>2. page[t].draftOpen \in DraftStates /\ page[t].draft \in Fields
  BY <1>1 DEF Pages
<1>3. {"closed", "new", "edit"} = DraftStates /\ <<>> \in Seq(FilledFields) /\ Len(<<>>) <= MaxManualEndpoints
  BY WizardAssumption DEF DraftStates
<1>4. CASE Type(t)
  <2>1. PICK d \in Drafts, s \in Sessions :
          Render(t, [page[t] EXCEPT !.draft = IF page[t].draftOpen # "closed" THEN d ELSE @, !.session = s])
    BY <1>4, Zenon DEF Type
  <2> DEFINE p == [page[t] EXCEPT !.draft = IF page[t].draftOpen # "closed" THEN d ELSE @, !.session = s]
  <2>2. p \in Pages /\ p.saved = page[t].saved /\ p.kind = page[t].kind
    BY <1>1, WizardAssumption DEF Pages
  <2>3. Render(t, p)
    BY <2>1
  <2> HIDE DEF p
  <2>4. WithinCeiling(p)
    BY <1>1, <2>2 DEF WithinCeiling
  <2> QED
    BY <2>2, <2>3, <2>4, NewPageTypes
<1>5. CASE HandleForm(t) \/ Back(t) \/ HandleNewEndpoint(t)
  <2>1. HandleForm(t) => Form(t, <<>>, "closed", Blank)
    BY DEF HandleForm
  <2>2. Back(t) => Form(t, Saved(t), "closed", Blank)
    BY DEF Back
  <2>3. HandleNewEndpoint(t) => Form(t, Saved(t), "new", Blank)
    BY DEF HandleNewEndpoint
  <2> QED
    BY <1>1, <1>3, <1>5, <2>1, <2>2, <2>3, BlankField, FormTypes
<1>6. CASE HandleSaveEndpoint(t)
  <2>1. CASE Filled(page[t].draft) /\ Len(Saved(t)) < MaxManualEndpoints
    <3> DEFINE s == Append(Saved(t), page[t].draft)
    <3>1. page[t].draft \in FilledFields
      BY <1>2, <2>1 DEF FilledFields
    <3>2. s \in Seq(FilledFields) /\ Len(s) <= MaxManualEndpoints
      BY <1>1, <2>1, <3>1, WizardAssumption
    <3>3. Form(t, s, "closed", Blank)
      BY <1>6, <2>1 DEF HandleSaveEndpoint
    <3> HIDE DEF s
    <3> QED
      BY <1>3, <3>2, <3>3, BlankField, FormTypes
  <2>2. CASE ~(Filled(page[t].draft) /\ Len(Saved(t)) < MaxManualEndpoints)
    <3>1. Form(t, Saved(t), page[t].draftOpen, page[t].draft)
      BY <1>6, <2>2 DEF HandleSaveEndpoint
    <3> QED
      BY <1>1, <1>2, <3>1, FormTypes
  <2> QED
    BY <2>1, <2>2
<1>7. ASSUME NEW i \in DOMAIN Saved(t), NEW o \in DraftStates, NEW d \in Fields,
             Form(t, RemoveAt(Saved(t), i), o, d)
      PROVE  WzTypes'
  <2>1. RemoveAt(Saved(t), i) \in Seq(FilledFields) /\ Len(RemoveAt(Saved(t), i)) < Len(Saved(t))
    BY <1>1, Removed
  <2>2. Len(RemoveAt(Saved(t), i)) <= MaxManualEndpoints
    BY <1>1, <2>1, WizardAssumption
  <2> QED
    BY <1>7, <2>1, <2>2, FormTypes
<1>8. CASE HandleRemoveEndpoint(t)
  BY <1>2, <1>7, <1>8 DEF HandleRemoveEndpoint
<1>9. CASE HandleEditEndpoint(t)
  <2>1. PICK i \in DOMAIN Saved(t) : Form(t, RemoveAt(Saved(t), i), "edit", Saved(t)[i])
    BY <1>9 DEF HandleEditEndpoint
  <2>2. Saved(t)[i] \in Fields
    BY <1>1 DEF FilledFields
  <2> QED
    BY <1>3, <1>7, <2>1, <2>2
<1>10. CASE HandleSubmit(t)
  <2>1. CASE Form(t, Saved(t), page[t].draftOpen, page[t].draft)
    BY <1>1, <1>2, <2>1, FormTypes
  <2>2. CASE ~Form(t, Saved(t), page[t].draftOpen, page[t].draft)
    <3> DEFINE shown == [page[t] EXCEPT !.kind = "confirm", !.draftOpen = "closed", !.draft = Blank,
                                        !.saved = Shown(Config(WithDraft(page[t], Saved(t))))]
    <3>1. Render(t, shown)
      BY <1>10, <2>2 DEF HandleSubmit, Shown
    <3>2. shown \in Pages /\ WithinCeiling(shown)
      BY <1>10, SubmittedPage DEF HandleSubmit, On
    <3> HIDE DEF shown
    <3> QED
      BY <3>1, <3>2, NewPageTypes
  <2> QED
    BY <2>1, <2>2
<1> QED
  BY <1>4, <1>5, <1>6, <1>8, <1>9, <1>10

LEMMA ConfirmTypes ==
  ASSUME WzTypes, NEW t \in Tabs, HandleConfirm(t) \/ Confirming(t),
         request[t] # "none" => page[t].kind = "confirm"
  PROVE  WzTypes'
<1>1. /\ page[t] \in Pages
      /\ Saved(t) \in Seq(FilledFields) /\ Len(Saved(t)) <= MaxManualEndpoints
      /\ Len(Saved(t)) \in Nat
  BY OnPage
<1>2. page[t].kind = "confirm"
  BY DEF HandleConfirm, On, Confirming, TestConnect, Truncate, WriteConfig, At
<1>3. ASSUME Refuse(t), UNCHANGED config PROVE WzTypes'
  <2> DEFINE p == [page[t] EXCEPT !.saved = Saved(t)]
  <2>1. p \in Pages /\ p.saved = Saved(t) /\ p.kind = "confirm"
    BY <1>1, <1>2 DEF Pages
  <2>2. page' = [page EXCEPT ![t] = p]
    BY <1>3 DEF Refuse, WzTypes
  <2> HIDE DEF p
  <2>3. WithinCeiling(p)
    BY <1>1, <2>1, WizardAssumption DEF WithinCeiling
  <2>4. page' \in [Tabs -> Pages] /\ \A u \in Tabs : WithinCeiling(page'[u])
    BY <2>1, <2>2, <2>3 DEF WzTypes
  <2> QED
    BY <1>3, <2>4 DEF Refuse, To, WzTypes
<1>4. ASSUME NEW r \in {"testing", "tested", "writing"}, To(t, r),
             UNCHANGED <<page, serve, done, result, canceled>>, UNCHANGED config \/ config' = Torn
      PROVE  WzTypes'
  <2>1. config'.kind \in {"absent", "torn", "mixed", "file"} /\ Len(config'.endpoints) <= MaxManualEndpoints
    BY <1>4, WizardAssumption DEF Torn, WzTypes
  <2> QED
    BY <1>4, <2>1 DEF To, WzTypes
<1>5. CASE HandleConfirm(t)
  BY <1>3, <1>4, <1>5 DEF HandleConfirm
<1>6. CASE TestConnect(t)
  BY <1>3, <1>4, <1>6 DEF TestConnect
<1>7. CASE Truncate(t)
  BY <1>4, <1>7 DEF Truncate
<1>8. CASE WriteConfig(t) /\ ~(Refuse(t) /\ UNCHANGED config)
  <2>1. /\ config' \in {File(Confirmed(t)), Mixed} /\ To(t, "none")
        /\ page' = [page EXCEPT ![t].kind = "done"] /\ SignalDone("nil")
        /\ UNCHANGED <<serve, result, canceled>>
    BY <1>8 DEF WriteConfig
  <2>2. Len(Confirmed(t)) <= MaxManualEndpoints
    BY <1>1, ConfigLength DEF Confirmed
  <2>3. config'.kind \in {"absent", "torn", "mixed", "file"} /\ Len(config'.endpoints) <= MaxManualEndpoints
    BY <2>1, <2>2, WizardAssumption DEF File, Mixed
  <2> DEFINE p == [page[t] EXCEPT !.kind = "done"]
  <2>4. p \in Pages /\ p.saved = page[t].saved /\ p.kind = "done"
    BY <1>1 DEF Pages, Kinds
  <2>5. page' = [page EXCEPT ![t] = p]
    BY <2>1 DEF WzTypes
  <2> HIDE DEF p
  <2>6. WithinCeiling(p)
    BY <1>2, <2>4 DEF WithinCeiling, WzTypes
  <2>7. page' \in [Tabs -> Pages] /\ \A u \in Tabs : WithinCeiling(page'[u])
    BY <2>4, <2>5, <2>6 DEF WzTypes
  <2> QED
    BY <2>1, <2>3, <2>7 DEF To, SignalDone, WzTypes
<1> QED
  BY <1>3, <1>5, <1>6, <1>7, <1>8 DEF Confirming, WriteConfig

LEMMA StepTypes == WzInv /\ WzTypes /\ [Next]_vars => WzTypes'
<1> SUFFICES ASSUME WzInv, WzTypes, [Next]_vars PROVE WzTypes'
  OBVIOUS
<1>1. CASE Serving \/ ServerFails \/ Cancel
  BY <1>1 DEF WzTypes, Serving, BrowserOpened, ServeDone, ServeCanceled, ShutdownEnds, ServeGoto,
              ServerFails, SignalDone, Cancel
<1>2. ASSUME NEW t \in Tabs, Tab(t) PROVE WzTypes'
  <2>1. request[t] # "none" => page[t].kind = "confirm"
    BY DEF WzInv, ConfirmedSoFar
  <2> QED
    BY <1>2, <2>1, ButtonTypes, ConfirmTypes DEF Tab
<1>3. CASE UNCHANGED vars
  BY <1>3 DEF vars, WzTypes
<1> QED
  BY <1>1, <1>2, <1>3 DEF Next

LEMMA TypesInductive == Spec => []WzTypes
BY InitTypes, StepTypes, WzInductive, PTL DEF Spec

\* What a confirmation reads from a page is what the page shows, up to the ceiling.
LEMMA ConfirmedAsOffered ==
  ASSUME WzTypes, NEW t \in Tabs
  PROVE  Confirmed(t) = UpToCeiling(Offered(t))
<1> DEFINE s == page[t].saved
           n == Ceiled(Len(s))
<1>1. s \in Seq(FilledFields)
  BY DEF WzTypes, Pages
<1>2. Confirmed(t) = Config(SubSeq(s, 1, n)) /\ Offered(t) = Config(s)
  BY <1>1, ParsesFilled DEF Confirmed, Saved, Offered
<1> HIDE DEF s
<1>3. Len(s) \in Nat /\ DOMAIN s = 1 .. Len(s) /\ n \in 0 .. Len(s)
  BY <1>1, WizardAssumption DEF Ceiled
<1>4. Config(s) = [i \in 1 .. Len(s) |-> toConfigEndpoint(s[i])] /\ Len(Config(s)) = Len(s)
  BY <1>1, <1>3, ConfigLength DEF Config
<1>5. CASE Len(s) > MaxManualEndpoints
  <2>1. n = MaxManualEndpoints
    BY <1>5 DEF Ceiled
  <2> HIDE DEF n
  <2>2. SubSeq(s, 1, n) = [i \in 1 .. n |-> s[i]]
    BY <1>1, <1>3
  <2>3. Config(SubSeq(s, 1, n)) = [i \in 1 .. n |-> toConfigEndpoint(s[i])]
    BY <2>2 DEF Config
  <2>4. SubSeq(Config(s), 1, n) = [i \in 1 .. n |-> Config(s)[i]]
    BY <1>3, <1>4 DEF SubSeq
  <2>5. \A i \in 1 .. n : Config(s)[i] = toConfigEndpoint(s[i])
    BY <1>3, <1>4
  <2>6. SubSeq(Config(s), 1, n) = [i \in 1 .. n |-> toConfigEndpoint(s[i])]
    BY <2>4, <2>5
  <2> QED
    BY <1>2, <1>4, <1>5, <2>1, <2>3, <2>6 DEF UpToCeiling
<1>6. CASE ~(Len(s) > MaxManualEndpoints)
  <2>1. n = Len(s)
    BY <1>6 DEF Ceiled
  <2>2. SubSeq(s, 1, n) = s
    BY <1>1, <2>1
  <2> QED
    BY <1>2, <1>4, <1>6, <2>2 DEF UpToCeiling
<1> QED
  BY <1>5, <1>6

(* A config.yaml that is whole validates and connected, and is what the page of one *)
(* tab showed when it was confirmed, up to the ceiling: for any number of tabs, any *)
(* drafts and any ceiling.                                                          *)
THEOREM WrittenWorks == Spec => []WrittenConfigWorks
<1>1. ASSUME WzInv, WzTypes PROVE WrittenConfigWorks
  BY <1>1, ConfirmedAsOffered DEF WzInv, WrittenWasChecked, WrittenConfigWorks
<1> QED
  BY <1>1, WzInductive, TypesInductive, PTL

(* Every variable keeps its type: whatever is entered, in however many tabs, a *)
(* page's endpoints are all filled in and no more than the ceiling lets be,    *)
(* and so are those on disk.                                                   *)
THEOREM TypeCorrect == Spec => []TypeOK
<1>1. ASSUME WzTypes PROVE TypeOK
  <2>1. ASSUME NEW t \in Tabs PROVE IsPage(page[t])
    <3>1. page[t] \in Pages /\ WithinCeiling(page[t])
      BY <1>1 DEF WzTypes
    <3>2. \A i \in DOMAIN page[t].saved : page[t].saved[i] \in FilledFields
      BY <3>1 DEF Pages
    <3> QED
      BY <3>1, <3>2 DEF Pages, WithinCeiling, IsPage, FilledFields, Range
  <2> QED
    BY <1>1, <2>1 DEF WzTypes, TypeOK
<1> QED
  BY <1>1, TypesInductive, PTL

(* Nothing entered is lost or altered on the round trips of the form, whatever *)
(* was entered: a new draft, a save and a submission, refused or not, show a   *)
(* page that stands for the configuration the page before it stood for.        *)
THEOREM RoundTrips == Spec => RoundTripsKeepEverything
<1>1. ASSUME WzTypes, NEW t \in Tabs,
             HandleNewEndpoint(t) \/ HandleSaveEndpoint(t) \/ HandleSubmit(t)
      PROVE  Entered(page'[t]) = Entered(page[t]) /\ page'[t].session = page[t].session
  <2>1. /\ page[t].kind = "form" /\ page[t] \in Pages /\ Saved(t) = page[t].saved
        /\ Saved(t) \in Seq(FilledFields)
    BY <1>1, OnPage DEF HandleNewEndpoint, HandleSaveEndpoint, HandleSubmit, On
  <2>2. ASSUME NEW p, Render(t, p) PROVE page'[t] = p
    BY <1>1, <2>2 DEF Render, WzTypes
  <2>3. ASSUME NEW s, NEW o, NEW d, Form(t, s, o, d)
        PROVE  /\ page'[t].saved = s /\ page'[t].draftOpen = o /\ page'[t].draft = d
               /\ page'[t].session = page[t].session
    <3> DEFINE p == [page[t] EXCEPT !.kind = "form", !.saved = s, !.draftOpen = o, !.draft = d]
    <3>1. p.saved = s /\ p.draftOpen = o /\ p.draft = d /\ p.session = page[t].session
      BY <2>1 DEF Pages
    <3>2. Render(t, p)
      BY <2>3 DEF Form
    <3> HIDE DEF p
    <3> QED
      BY <2>2, <3>1, <3>2
  <2>4. CASE Form(t, Saved(t), page[t].draftOpen, page[t].draft)
    BY <2>1, <2>3, <2>4 DEF Entered, WithDraft
  <2>5. CASE HandleNewEndpoint(t)
    <3>1. WithDraft(page'[t], page'[t].saved) = Saved(t) \o <<>>
      BY <2>3, <2>5, BlankField DEF HandleNewEndpoint, WithDraft
    <3>2. WithDraft(page[t], page[t].saved) = Saved(t) \o <<>>
      BY <2>1, <2>5 DEF HandleNewEndpoint, WithDraft
    <3>3. page'[t].session = page[t].session
      BY <2>3, <2>5 DEF HandleNewEndpoint
    <3> QED
      BY <3>1, <3>2, <3>3 DEF Entered
  <2>6. CASE /\ HandleSaveEndpoint(t) /\ Filled(page[t].draft)
             /\ Len(Saved(t)) < MaxManualEndpoints
    <3>1. page[t].draftOpen # "closed" /\ Form(t, Append(Saved(t), page[t].draft), "closed", Blank)
      BY <2>6 DEF HandleSaveEndpoint
    <3>2. /\ page'[t].saved = Append(Saved(t), page[t].draft) /\ page'[t].draftOpen = "closed"
          /\ page'[t].session = page[t].session
      BY <2>3, <3>1
    <3>3. page[t].draft \in FilledFields
      BY <2>1, <2>6 DEF Pages, FilledFields
    <3>4. WithDraft(page[t], page[t].saved) = Saved(t) \o <<page[t].draft>>
      BY <2>1, <2>6, <3>1 DEF WithDraft
    <3>5. WithDraft(page'[t], page'[t].saved) = Append(Saved(t), page[t].draft) \o <<>>
      BY <3>2 DEF WithDraft
    <3>6. Append(Saved(t), page[t].draft) \o <<>> = Saved(t) \o <<page[t].draft>>
      BY <2>1, <3>3
    <3> QED
      BY <3>2, <3>4, <3>5, <3>6 DEF Entered
  <2>7. CASE HandleSubmit(t) /\ ~Form(t, Saved(t), page[t].draftOpen, page[t].draft)
    <3> DEFINE shown == [page[t] EXCEPT !.kind = "confirm", !.draftOpen = "closed", !.draft = Blank,
                                        !.saved = Shown(Config(WithDraft(page[t], Saved(t))))]
    <3>1. Render(t, shown)
      BY <2>7 DEF HandleSubmit, Shown
    <3>2. Entered(shown) = Entered(page[t]) /\ shown.session = page[t].session
      BY <1>1, <2>1, SubmittedPage
    <3> HIDE DEF shown
    <3> QED
      BY <2>2, <3>1, <3>2
  <2> QED
    BY <1>1, <2>4, <2>5, <2>6, <2>7 DEF HandleSaveEndpoint
<1>2. WzTypes =>
        \A t \in Tabs :
          HandleNewEndpoint(t) \/ HandleSaveEndpoint(t) \/ HandleSubmit(t)
          => Entered(page'[t]) = Entered(page[t]) /\ page'[t].session = page[t].session
  BY <1>1
<1> QED
  BY <1>2, TypesInductive, PTL DEF RoundTripsKeepEverything

-----------------------------------------------------------------------------
(* The end of Serve *)

(* The word that ends Serve is never lost: once a browser was told that the         *)
(* configuration is written, there is a result in the channel, whether Serve waited *)
(* for it at the time, was still opening the browser, or got it from another tab.   *)
ConfirmIsHeard == (\E t \in Tabs : page[t].kind = "done") => done # "empty"

LEMMA SignalStays == \A r \in {"nil", "error"} : SignalDone(r) => done' # "empty"
BY DEF SignalDone

\* A page other than a confirmed one, shown in any tab, leaves it true.
LEMMA RenderHeard ==
  ASSUME WzTypes, ConfirmIsHeard, NEW t \in Tabs, NEW p, Render(t, p), p.kind # "done"
  PROVE  ConfirmIsHeard'
BY DEF WzTypes, ConfirmIsHeard, Render

LEMMA StepHeard == WzTypes /\ ConfirmIsHeard /\ [Next]_vars => ConfirmIsHeard'
<1> SUFFICES ASSUME WzTypes, ConfirmIsHeard, [Next]_vars PROVE ConfirmIsHeard'
  OBVIOUS
<1>1. CASE Serving \/ Cancel
  BY <1>1 DEF Serving, BrowserOpened, ServeDone, ServeCanceled, ShutdownEnds, ServeGoto,
              Cancel, ConfirmIsHeard
<1>2. CASE ServerFails
  BY <1>2, SignalStays DEF ServerFails, ConfirmIsHeard
<1>3. ASSUME NEW t \in Tabs, Tab(t) PROVE ConfirmIsHeard'
  <2>0. page \in [Tabs -> Pages] /\ page[t] \in Pages
    BY DEF WzTypes
  <2>1. ASSUME NEW k, NEW o, NEW d, Form(t, k, o, d) PROVE ConfirmIsHeard'
    <3> DEFINE p == [page[t] EXCEPT !.kind = "form", !.saved = k, !.draftOpen = o, !.draft = d]
    <3>1. p.kind # "done"
      BY <2>0 DEF Pages
    <3>2. Render(t, p)
      BY <2>1 DEF Form
    <3> HIDE DEF p
    <3> QED
      BY <3>1, <3>2, RenderHeard
  <2>2. CASE Type(t)
    <3>1. PICK d \in Drafts, u \in Sessions :
            Render(t, [page[t] EXCEPT !.draft = IF page[t].draftOpen # "closed" THEN d ELSE @, !.session = u])
      BY <2>2, Zenon DEF Type
    <3> DEFINE p == [page[t] EXCEPT !.draft = IF page[t].draftOpen # "closed" THEN d ELSE @, !.session = u]
    <3>2. p.kind # "done"
      BY <2>0, <2>2 DEF Pages, Type
    <3>3. Render(t, p)
      BY <3>1
    <3> HIDE DEF p
    <3> QED
      BY <3>2, <3>3, RenderHeard
  <2>3. CASE HandleForm(t) \/ Back(t) \/ HandleNewEndpoint(t) \/ HandleSaveEndpoint(t)
             \/ HandleRemoveEndpoint(t) \/ HandleEditEndpoint(t)
    BY <2>1, <2>3 DEF HandleForm, Back, HandleNewEndpoint, HandleSaveEndpoint,
                      HandleRemoveEndpoint, HandleEditEndpoint
  <2>4. CASE HandleSubmit(t)
    <3> DEFINE endpoints == Config(WithDraft(page[t], Saved(t)))
               p == [page[t] EXCEPT
                       !.kind = "confirm", !.draftOpen = "closed", !.draft = Blank,
                       !.saved = [i \in DOMAIN endpoints |-> endpointFromConfig(endpoints[i])]]
    <3>1. CASE Render(t, p)
      <4> HIDE DEF endpoints
      <4>1. p.kind # "done"
        BY <2>0 DEF Pages
      <4> HIDE DEF p
      <4> QED
        BY <3>1, <4>1, RenderHeard
    <3>2. CASE Form(t, Saved(t), page[t].draftOpen, page[t].draft)
      BY <2>1, <3>2
    <3> QED
      BY <2>4, <3>1, <3>2 DEF HandleSubmit
  <2>5. Refuse(t) => ConfirmIsHeard'
    <3>1. Refuse(t) => done' = done /\ \A v \in Tabs : page'[v].kind = page[v].kind
      BY <2>0 DEF Refuse, WzTypes, Pages
    <3> QED
      BY <3>1 DEF ConfirmIsHeard
  <2>6. UNCHANGED <<page, done>> => ConfirmIsHeard'
    BY DEF ConfirmIsHeard
  <2>7. CASE HandleConfirm(t) \/ TestConnect(t) \/ Truncate(t)
    BY <2>5, <2>6, <2>7 DEF HandleConfirm, TestConnect, Truncate
  <2>8. CASE WriteConfig(t)
    BY <2>5, <2>8, SignalStays DEF WriteConfig, ConfirmIsHeard
  <2> QED
    BY <1>3, <2>2, <2>3, <2>4, <2>7, <2>8 DEF Tab, Confirming
<1>4. CASE UNCHANGED vars
  BY <1>4 DEF vars, ConfirmIsHeard
<1> QED
  BY <1>1, <1>2, <1>3, <1>4 DEF Next

(* A confirmation that comes before Serve waits for it is not missed, and a second  *)
(* one does not block.  Besides this, ConfirmEndsServe needs only that Serve is     *)
(* scheduled.                                                                       *)
THEOREM ConfirmHeard == Spec => []ConfirmIsHeard
<1>1. Init => ConfirmIsHeard
  BY DEF Init, NoPage, ConfirmIsHeard
<1> QED
  BY <1>1, StepHeard, TypesInductive, PTL DEF Spec

=============================================================================
