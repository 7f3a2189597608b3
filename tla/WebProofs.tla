----------------------------- MODULE WebProofs ------------------------------
(***************************************************************************)
(* Safety of what a request leads to in the BFF and of the tabs it is shown*)
(* in, for every value of the constants: the page and the end of a turn,   *)
(* the deployment, the creation dialogue, the tabs of the browser, the     *)
(* versions of an artifact.                                                *)
(***************************************************************************)
EXTENDS Preview, DeployRequest, AgentWizard, ChatTabs, Artifacts, Induction,
        FiniteSetTheorems, SequenceTheorems, TLAPS

-----------------------------------------------------------------------------
\* The page of a turn.  The invariant says at each await what has been stored, asked for
\* and shown: a page in hand is the one that was stored, until the try around it gives up.

Sources == {"output", "file", "model"}
Kinds == {"deploy_status", "message_created", "artifact_ready", "message_done", "task_update", "stream_chunk"}
Subjects == Sources \cup {"running", "done", "failed", "deployed", "summary"}
Event == [t : Kinds, what : Subjects]

EventsOK == sentEvents \in Seq(Event) /\ shownAs \in Seq(Sources)

\* What is in hand, stored and asked for
PageInv ==
  /\ closing \in {"executed", "collect", "ask", "store"} => storedPages = {} /\ ~pageRecovered
  /\ closing \in {"executed", "collect", "ask"} => modelCalls = 0
  /\ closing \in {"store", "preview"} => page # NoPage
  /\ closing = "announce" => storedPages = {page} /\ ~AllCompleted /\ ~pageRecovered
  /\ modelCalls \in {0, 1}
  /\ \E p \in Sources : storedPages \subseteq {p}
  /\ (\E s \in Records : HtmlOf(s)) =>
       closing # "ask" /\ modelCalls = 0 /\ page \in {NoPage, "output"} /\ storedPages \subseteq {"output"}

Shown(p) == Announced(p) /\ \E i \in DOMAIN shownAs : p = shownAs[i]

\* What has been shown of it
ShownInv ==
  /\ pageRecovered => \E p \in storedPages : Shown(p)
  /\ parentStatus = "done" => AllCompleted \/ pageRecovered
  /\ closing \in {"executed", "collect", "ask", "store", "announce", "settle"} => parentStatus = "running"
  /\ closing \in {"settle", "summary", "preview"} /\ (AllCompleted \/ pageRecovered) =>
       storedPages \subseteq {page}
  /\ closing \in {"last", "over"} /\ (AllCompleted \/ pageRecovered) => \A p \in storedPages : Announced(p)

TextInv ==
  /\ closing \notin {"preview", "last", "over", "cut"} => finalText = <<"process">>
  /\ closing \in {"preview", "last", "over"} => finalText = <<"process", "summary">>

PreviewInv == PreviewTypeOK /\ EventsOK /\ PageInv /\ ShownInv /\ TextInv

-----------------------------------------------------------------------------
\* An event is sent, whatever it is: what was announced stays announced.
LEMMA SentKeeps ==
  ASSUME EventsOK, NEW t \in Kinds, NEW what \in Subjects, NEW u \in Kinds, NEW w \in Subjects
  PROVE  /\ sentEvents \o Sent(t, what) \in Seq(Event)
         /\ sentEvents \o Sent(t, what) \o Sent(u, w) \in Seq(Event)
         /\ \A i \in DOMAIN sentEvents :
              /\ i \in DOMAIN (sentEvents \o Sent(t, what))
              /\ i \in DOMAIN (sentEvents \o Sent(t, what) \o Sent(u, w))
              /\ (sentEvents \o Sent(t, what))[i] = sentEvents[i]
              /\ (sentEvents \o Sent(t, what) \o Sent(u, w))[i] = sentEvents[i]
<1> DEFINE e == [t |-> t, what |-> what]
           f == [t |-> u, what |-> w]
<1>1. e \in Event /\ f \in Event
  BY DEF Event
<1>2. Sent(t, what) = <<e>> /\ Sent(u, w) = <<f>>
  BY DEF Sent
<1> HIDE DEF e, f
<1> QED
  BY <1>1, <1>2 DEF EventsOK

\* The events of a preview end with its message_done.
LEMMA AnnouncementShows ==
  ASSUME EventsOK, NEW p \in Sources
  PROVE  /\ sentEvents \o Announcement(p) \in Seq(Event)
         /\ \A i \in DOMAIN sentEvents : /\ i \in DOMAIN (sentEvents \o Announcement(p))
                                         /\ (sentEvents \o Announcement(p))[i] = sentEvents[i]
         /\ \E i \in DOMAIN (sentEvents \o Announcement(p)) :
              (sentEvents \o Announcement(p))[i] = [t |-> "message_done", what |-> p]
<1> DEFINE a == [t |-> "message_created", what |-> p]
           b == [t |-> "artifact_ready", what |-> p]
           d == [t |-> "message_done", what |-> p]
<1>1. a \in Event /\ b \in Event /\ d \in Event
  BY DEF Event, Kinds, Subjects
<1>2. Announcement(p) = <<a>> \o <<b>> \o <<d>>
  BY DEF Announcement, Sent
<1> HIDE DEF a, b, d
<1> DEFINE q == <<a>> \o <<b>> \o <<d>>
<1>0. q \in Seq(Event) /\ Len(q) = 3 /\ q[3] = d /\ sentEvents \in Seq(Event)
  <2>1. <<a>> \in Seq(Event) /\ <<b>> \in Seq(Event) /\ <<d>> \in Seq(Event)
    BY <1>1
  <2>2. <<a>> \o <<b>> \in Seq(Event) /\ Len(<<a>> \o <<b>>) = 2
    BY <1>1
  <2>3. q \in Seq(Event)
    BY <2>1, <2>2
  <2>4. Len(q) = 3 /\ q[3] = d
    BY <2>1, <2>2
  <2> QED
    BY <2>3, <2>4 DEF EventsOK
<1> HIDE DEF q
<1>3. /\ sentEvents \o q \in Seq(Event) /\ Len(sentEvents \o q) = Len(sentEvents) + 3
      /\ \A i \in 1..(Len(sentEvents) + 3) :
           (sentEvents \o q)[i] = IF i <= Len(sentEvents) THEN sentEvents[i] ELSE q[i - Len(sentEvents)]
  <2>1. /\ sentEvents \o q \in Seq(Event) /\ Len(sentEvents \o q) = Len(sentEvents) + Len(q)
        /\ \A i \in 1..(Len(sentEvents) + Len(q)) :
             (sentEvents \o q)[i] = IF i <= Len(sentEvents) THEN sentEvents[i] ELSE q[i - Len(sentEvents)]
    BY <1>0, ConcatProperties, Zenon
  <2> QED
    BY <1>0, <2>1, Zenon
<1>4. Len(sentEvents) \in Nat /\ DOMAIN sentEvents = 1..Len(sentEvents)
  BY <1>0
<1>5. \A i \in DOMAIN sentEvents : /\ i \in DOMAIN (sentEvents \o q)
                                   /\ (sentEvents \o q)[i] = sentEvents[i]
  BY <1>3, <1>4
<1>6. /\ Len(sentEvents) + 3 \in DOMAIN (sentEvents \o q)
      /\ (sentEvents \o q)[Len(sentEvents) + 3] = d
  BY <1>0, <1>3, <1>4
<1> QED
  BY <1>2, <1>3, <1>5, <1>6 DEF d, q

\* The state before anything is shown satisfies the invariant.
LEMMA PreviewInitInv == PreviewInit => PreviewInv
<1> SUFFICES ASSUME PreviewInit PROVE PreviewInv
  OBVIOUS
<1>1. PreviewTypeOK
  BY DEF PreviewInit, PreviewTypeOK
<1>2. EventsOK
  BY EmptySeq DEF PreviewInit, EventsOK
<1>3. PageInv
  <2>1. "file" \in Sources /\ storedPages \subseteq {"file"}
    BY DEF PreviewInit, Sources
  <2> QED
    BY <2>1 DEF PreviewInit, PageInv, NoPage
<1>4. ShownInv /\ TextInv
  BY DEF PreviewInit, ShownInv, TextInv
<1> QED
  BY <1>1, <1>2, <1>3, <1>4 DEF PreviewInv

\* Steps that neither send an event nor show a page.
LEMMA QuietSteps ==
  ASSUME PreviewInv,
         TakePage \/ NoPageWanted \/ AskForPage \/ StorePage \/ Cut \/ UNCHANGED previewVars
  PROVE  PreviewInv'
<1> USE DEF PreviewInv, EventsOK, givenVars, pageVars, Announced, Shown, AllCompleted, Those, HtmlOf, Sources
<1>1. CASE TakePage
  BY <1>1 DEF TakePage, Found, NoPage, PreviewTypeOK, PageInv, ShownInv, TextInv
<1>2. CASE NoPageWanted
  BY <1>2 DEF NoPageWanted, PreviewTypeOK, PageInv, ShownInv, TextInv
<1>3. CASE AskForPage
  <2>1. PreviewTypeOK' /\ EventsOK'
    BY <1>3 DEF AskForPage, NoPage, PreviewTypeOK
  <2>2. /\ closing = "ask" /\ modelCalls = 0
        /\ modelCalls' = 1
        /\ \/ page' = "model" /\ closing' = "store"
           \/ page' = NoPage /\ closing' = "settle"
    BY <1>3 DEF AskForPage, PageInv
  <2>3. /\ storedPages' = storedPages /\ shownAs' = shownAs /\ pageRecovered' = pageRecovered
        /\ parentStatus' = parentStatus /\ finalText' = finalText /\ sentEvents' = sentEvents
        /\ wrote' = wrote /\ result' = result
    BY <1>3 DEF AskForPage
  <2>4. PageInv'
    BY <2>2, <2>3 DEF NoPage, PageInv
  <2>5. ShownInv' /\ TextInv'
    BY <2>2, <2>3 DEF ShownInv, TextInv, PageInv
  <2> QED
    BY <2>1, <2>4, <2>5
<1>4. CASE StorePage
  BY <1>4 DEF StorePage, NoPage, PreviewTypeOK, PageInv, ShownInv, TextInv
<1>5. CASE Cut
  <2>1. PreviewTypeOK' /\ EventsOK'
    BY <1>5 DEF Cut, PreviewTypeOK
  <2>2. PageInv' /\ TextInv'
    BY <1>5 DEF Cut, PageInv, TextInv
  <2>3. ShownInv'
    BY <1>5 DEF Cut, ShownInv
  <2> QED
    BY <2>1, <2>2, <2>3
<1>6. CASE UNCHANGED previewVars
  <2>1. (PreviewTypeOK /\ EventsOK)' /\ TextInv'
    BY <1>6 DEF previewVars, PreviewTypeOK, TextInv
  <2>2. PageInv'
    BY <1>6 DEF previewVars, PageInv
  <2>3. ShownInv'
    BY <1>6 DEF previewVars, ShownInv
  <2> QED
    BY <2>1, <2>2, <2>3
<1> QED
  BY <1>1, <1>2, <1>3, <1>4, <1>5, <1>6

\* Events are only added.
Keeps == \A i \in DOMAIN sentEvents : i \in DOMAIN sentEvents' /\ sentEvents'[i] = sentEvents[i]

LEMMA AnnouncedStays ==
  ASSUME Keeps
  PROVE  \A p : Announced(p) => Announced(p)'
BY DEF Keeps, Announced

\* The summary follows the process.
LEMMA AppendToOne == ASSUME NEW a, NEW b PROVE Append(<<a>>, b) = <<a, b>>
<1> DEFINE s == Append(<<a>>, b)
           t == <<a, b>>
<1>1. <<a>> \in Seq({a, b}) /\ t \in Seq({a, b}) /\ b \in {a, b}
  OBVIOUS
<1>2. Len(s) = 2 /\ s[1] = a /\ s[2] = b /\ s \in Seq({a,b})
  BY <1>1, AppendProperties
<1>3. Len(t) = 2 /\ t[1] = a /\ t[2] = b
  OBVIOUS
<1> HIDE DEF s, t
<1>4. Len(s) = Len(t) /\ \A i \in 1..Len(s) : s[i] = t[i]
  BY <1>2, <1>3
<1>5. s = t
  BY <1>1, <1>2, <1>4, SeqEqual, Zenon
<1> QED
  BY <1>5 DEF s, t

\* Steps that send an event but show no page.
LEMMA SendingSteps ==
  ASSUME PreviewInv, Deployed \/ Settle \/ StoreSummary \/ LastUpdate
  PROVE  PreviewInv'
<1> USE DEF PreviewInv, givenVars, pageVars
<1>1. CASE Deployed
  <2>1. sentEvents' \in Seq(Event) /\ Keeps
    BY <1>1, SentKeeps DEF Deployed, Keeps, Kinds, Subjects, EventsOK
  <2>2. PreviewTypeOK' /\ EventsOK' /\ TextInv'
    BY <1>1, <2>1 DEF Deployed, PreviewTypeOK, EventsOK, TextInv
  <2>3. PageInv'
    BY <1>1 DEF Deployed, PageInv, AllCompleted, Those, HtmlOf
  <2>4. ShownInv'
    BY <1>1, <2>1, AnnouncedStays DEF Deployed, ShownInv, Shown, AllCompleted, Those
  <2> QED
    BY <2>2, <2>3, <2>4
<1>2. CASE Settle
  <2>0. ParentStatus \in {"done", "failed"} /\ (ParentStatus = "done" <=> AllCompleted \/ pageRecovered)
    BY DEF ParentStatus
  <2>1. sentEvents' \in Seq(Event) /\ Keeps
    BY <1>2, <2>0, SentKeeps DEF Settle, Keeps, Kinds, Subjects, EventsOK
  <2>2. PreviewTypeOK' /\ EventsOK' /\ TextInv'
    BY <1>2, <2>0, <2>1 DEF Settle, PreviewTypeOK, EventsOK, TextInv
  <2>3. PageInv'
    BY <1>2 DEF Settle, PageInv, AllCompleted, Those, HtmlOf
  <2>4. ShownInv'
    BY <1>2, <2>0, <2>1, AnnouncedStays DEF Settle, ShownInv, Shown, AllCompleted, Those
  <2> QED
    BY <2>2, <2>3, <2>4
<1>3. CASE StoreSummary
  <2>1. sentEvents' \in Seq(Event) /\ Keeps
    BY <1>3, SentKeeps DEF StoreSummary, Keeps, Kinds, Subjects, EventsOK
  <2>2. PreviewTypeOK' /\ EventsOK'
    BY <1>3, <2>1 DEF StoreSummary, PreviewTypeOK, EventsOK
  <2>5. TextInv'
    <3>1. Append(<<"process">>, "summary") = <<"process", "summary">>
      BY AppendToOne
    <3> QED
      BY <1>3, <3>1 DEF StoreSummary, TextInv
  <2>3. PageInv'
    BY <1>3 DEF StoreSummary, PageInv, AllCompleted, Those, HtmlOf
  <2>4. ShownInv'
    BY <1>3, <2>1, AnnouncedStays DEF StoreSummary, ShownInv, Shown, AllCompleted, Those, PageInv, NoPage,
         PreviewTypeOK, Sources
  <2> QED
    BY <2>2, <2>3, <2>4, <2>5
<1>4. CASE LastUpdate
  <2>1. sentEvents' \in Seq(Event) /\ Keeps
    BY <1>4, SentKeeps DEF LastUpdate, Keeps, Kinds, Subjects, EventsOK, PreviewTypeOK
  <2>2. PreviewTypeOK' /\ EventsOK' /\ TextInv'
    BY <1>4, <2>1 DEF LastUpdate, PreviewTypeOK, EventsOK, TextInv
  <2>3. PageInv'
    BY <1>4 DEF LastUpdate, PageInv, AllCompleted, Those, HtmlOf
  <2>4. ShownInv'
    BY <1>4, <2>1, AnnouncedStays DEF LastUpdate, ShownInv, Shown, AllCompleted, Those
  <2> QED
    BY <2>2, <2>3, <2>4
<1> QED
  BY <1>1, <1>2, <1>3, <1>4

\* The preview of a page is stored and announced.
LEMMA ShownNow ==
  ASSUME EventsOK, NEW p \in Sources, page = p,
         shownAs' = Append(shownAs, page), sentEvents' = sentEvents \o Announcement(page)
  PROVE  EventsOK' /\ Shown(p)' /\ \A q : Announced(q) => Announced(q)'
<1>1. /\ sentEvents' \in Seq(Event) /\ Keeps
      /\ \E i \in DOMAIN sentEvents' : sentEvents'[i] = [t |-> "message_done", what |-> p]
  BY AnnouncementShows DEF Keeps
<1>2. shownAs \in Seq(Sources)
  BY DEF EventsOK
<1>3. /\ shownAs' \in Seq(Sources) /\ Len(shownAs') = Len(shownAs) + 1
      /\ shownAs'[Len(shownAs) + 1] = p
  BY <1>2, AppendProperties
<1>4. \E i \in DOMAIN shownAs' : p = shownAs'[i]
  BY <1>2, <1>3
<1>5. \A q : Announced(q) => Announced(q)'
  BY <1>1, AnnouncedStays
<1> QED
  BY <1>1, <1>3, <1>4, <1>5 DEF EventsOK, Shown, Announced

\* Steps that show a page.
LEMMA ShowingSteps ==
  ASSUME PreviewInv, AnnounceRecovered \/ ShowPage
  PROVE  PreviewInv'
<1> USE DEF PreviewInv, givenVars, pageVars
<1>1. CASE AnnounceRecovered
  <2>1. CASE pageRecovered' = TRUE /\ page' = page /\ shownAs' = Append(shownAs, page)
             /\ sentEvents' = sentEvents \o Announcement(page)
    <3>1. page \in Sources /\ storedPages = {page}
      BY <1>1 DEF AnnounceRecovered, PageInv, PreviewTypeOK, Sources
    <3>2. EventsOK' /\ Shown(page)'
      BY <2>1, <3>1, ShownNow
    <3>3. PreviewTypeOK' /\ TextInv'
      BY <1>1, <2>1 DEF AnnounceRecovered, PreviewTypeOK, TextInv
    <3>4. PageInv'
      BY <1>1, <2>1 DEF AnnounceRecovered, PageInv, AllCompleted, Those, HtmlOf
    <3>5. ShownInv'
      <4>1. storedPages' = {page} /\ page' = page /\ closing' = "settle" /\ parentStatus' = "running"
        BY <1>1, <2>1, <3>1 DEF AnnounceRecovered, ShownInv
      <4> QED
        BY <4>1, <3>2 DEF ShownInv
    <3> QED
      BY <3>2, <3>3, <3>4, <3>5
  <2>2. CASE page' = NoPage /\ UNCHANGED <<shownAs, sentEvents, pageRecovered>>
    <3>1. PreviewTypeOK' /\ EventsOK' /\ TextInv'
      BY <1>1, <2>2 DEF AnnounceRecovered, PreviewTypeOK, TextInv, EventsOK
    <3>2. PageInv'
      BY <1>1, <2>2 DEF AnnounceRecovered, PageInv, AllCompleted, Those, HtmlOf
    <3>3. ShownInv'
      BY <1>1, <2>2 DEF AnnounceRecovered, ShownInv, PageInv, AllCompleted, Those
    <3> QED
      BY <3>1, <3>2, <3>3
  <2> QED
    BY <1>1, <2>1, <2>2 DEF AnnounceRecovered
<1>2. CASE ShowPage
  <2>0. page \in Sources
    BY <1>2 DEF ShowPage, PageInv, PreviewTypeOK, Sources
  <2>1. EventsOK' /\ Shown(page)' /\ \A q : Announced(q) => Announced(q)'
    BY <1>2, <2>0, ShownNow DEF ShowPage
  <2>2. /\ closing = "preview" /\ closing' = "last"
        /\ page' = page /\ storedPages' = storedPages /\ pageRecovered' = pageRecovered
        /\ parentStatus' = parentStatus /\ result' = result
    BY <1>2 DEF ShowPage
  <2>3. PreviewTypeOK' /\ TextInv'
    BY <1>2 DEF ShowPage, PreviewTypeOK, TextInv
  <2>4. PageInv'
    BY <1>2 DEF ShowPage, PageInv, AllCompleted, Those, HtmlOf
  <2>5. ShownInv'
    <3>1. pageRecovered' => \E q \in storedPages' : Shown(q)'
      <4>1. pageRecovered => page \in storedPages
        BY <2>2 DEF ShownInv
      <4> QED
        BY <4>1, <2>1, <2>2
    <3>2. (AllCompleted \/ pageRecovered)' => \A q \in storedPages' : Announced(q)'
      BY <2>1, <2>2 DEF ShownInv, Shown, AllCompleted, Those
    <3> QED
      BY <2>2, <3>1, <3>2 DEF ShownInv, AllCompleted, Those
  <2> QED
    BY <2>1, <2>3, <2>4, <2>5
<1> QED
  BY <1>1, <1>2

-----------------------------------------------------------------------------
\* The strengthened invariant holds in every reachable state.
THEOREM PreviewInvariance == PreviewSpec => []PreviewInv
<1>1. PreviewInv /\ [PreviewNext]_previewVars => PreviewInv'
  BY QuietSteps, SendingSteps, ShowingSteps DEF PreviewNext
<1> QED
  BY PreviewInitInv, <1>1, PTL DEF PreviewSpec

\* What the user is told and shown at the end of a turn is true, for any subtasks
\* and any result of each, wherever the turn is cut: the parent is done over failed
\* subtasks only with a page that was shown, no model is asked for a page an agent
\* has written, and no stored page is left out of the conversation of a done turn.
THEOREM PreviewIsSound == PreviewSpec => []PreviewSound
<1>1. PreviewInv => PreviewSound
  <2> SUFFICES ASSUME PreviewInv PROVE PreviewSound
    OBVIOUS
  <2> USE DEF PreviewInv
  <2>1. DoneIsBacked
    BY DEF DoneIsBacked, ShownInv, Shown
  <2>2. Cardinality(storedPages) <= 1
    <3>1. PICK p \in Sources : storedPages \subseteq {p}
      BY DEF PageInv
    <3>2. IsFiniteSet({p}) /\ Cardinality({p}) = 1
      BY FS_Singleton
    <3> QED
      BY <3>1, <3>2, FS_Subset
  <2>3. PagesNotWasted
    BY <2>2 DEF PagesNotWasted, PageInv
  <2>4. NothingLeftBehind
    BY DEF NothingLeftBehind, ShownInv, TextInv
  <2> QED
    BY <2>1, <2>3, <2>4 DEF PreviewSound
<1> QED
  BY PreviewInvariance, <1>1, PTL

-----------------------------------------------------------------------------
\* The deployment.  The invariant says at each await what the card says and what Netlify
\* has been told and sent.

Awaits == {"pending", "choose", "site", "deploy", "upload", "deployed", "failed", "announce", "over", "raised"}

DeployType ==
  /\ pages \in Seq(Pages)
  /\ choice \in 0..Len(pages) /\ site \in 0..Len(pages) /\ uploaded \subseteq 1..Len(pages)
  /\ deployAt \in Awaits

\* A page that may be served: no complete one, and none of a frontend agent, is older
Fit(i) ==
  /\ pages[i].body # "empty"
  /\ \A j \in 1..i : pages[j].body = "whole" => /\ pages[i].body = "whole"
                                                /\ pages[j].frontend => pages[i].frontend

\* What the request has in its hands at Netlify
ServedInv ==
  /\ choice # 0 => Fit(choice)
  /\ deployAt \in {"site", "deploy", "upload", "deployed"} => choice # 0
  /\ deployAt \in {"upload", "deployed"} => site = choice
  /\ deployAt = "deployed" => site \in uploaded

\* What the card says
CardInv ==
  /\ deployAt = "pending" => cardStored = "pending"
  /\ deployAt \in {"choose", "site", "deploy", "upload", "deployed", "failed", "raised"} => cardStored = "deploying"
  /\ deployAt = "announce" => cardStored \in {"deployed", "failed"} /\ cardTold = "deploying"
  /\ deployAt = "over" => cardStored \in {"none", "deployed", "failed"}
  /\ deployAt # "announce" => cardTold = cardStored
  /\ cardStored = "deployed" => choice # 0 /\ site = choice /\ site \in uploaded

DeployInv == DeployType /\ ServedInv /\ CardInv

-----------------------------------------------------------------------------
\* Some pages have a newest one.
LEMMA Newest ==
  ASSUME NEW n \in Nat, NEW S \in SUBSET (1..n), S # {}
  PROVE  \E m \in S : \A j \in S : j <= m
<1> DEFINE T == {n - i : i \in S}
<1>1. T \subseteq Nat /\ T # {}
  <2>1. PICK i \in S : TRUE
    OBVIOUS
  <2>2. n - i \in T
    BY <2>1
  <2>3. T \subseteq Nat
    OBVIOUS
  <2> QED
    BY <2>2, <2>3
<1>2. \A j \in S : n - j \in T
  OBVIOUS
<1>3. \A x \in T : \E m \in S : x = n - m
  OBVIOUS
<1> HIDE DEF T
<1>4. PICK x \in T : \A y \in T : x <= y
  BY <1>1, Least
<1>5. PICK m \in S : x = n - m
  BY <1>3
<1>6. \A j \in S : j <= m
  BY <1>2, <1>4, <1>5
<1> QED
  BY <1>6

\* What is known of a page
LEMMA PageTypes ==
  ASSUME pages \in Seq(Pages)
  PROVE  /\ Len(pages) \in Nat /\ DOMAIN pages = 1..Len(pages)
         /\ \A i \in 1..Len(pages) : pages[i].frontend = TRUE \/ pages[i].frontend = FALSE
<1>1. \A i \in 1..Len(pages) : pages[i] \in Pages
  BY ElementOfSeq
<1> QED
  BY <1>1 DEF Pages

\* FirstOf is one of the pages, and no other goes before it.
LEMMA FirstIsFirst ==
  ASSUME pages \in Seq(Pages), NEW S \in SUBSET (1..Len(pages)), S # {}
  PROVE  FirstOf(S) \in S /\ \A j \in S \ {FirstOf(S)} : Before(FirstOf(S), j)
<1> DEFINE F == {i \in S : pages[i].frontend}
<1>0. Len(pages) \in Nat /\ \A i \in S : i \in Nat /\ (pages[i].frontend = TRUE \/ pages[i].frontend = FALSE)
  BY PageTypes
<1>1. \E i \in S : \A j \in S \ {i} : Before(i, j)
  <2>1. CASE F # {}
    <3>0. F \in SUBSET (1..Len(pages))
      OBVIOUS
    <3>1. PICK m \in F : \A j \in F : j <= m
      BY <2>1, <3>0, <1>0, Newest
    <3>2. ASSUME NEW j \in S \ {m} PROVE Before(m, j)
      <4>1. pages[m].frontend = TRUE
        BY <3>1, <1>0
      <4>2. CASE pages[j].frontend = FALSE
        BY <4>1, <4>2 DEF Before
      <4>3. CASE pages[j].frontend = TRUE
        <5>1. m > j
          BY <4>3, <3>1, <1>0
        <5> QED
          BY <4>1, <4>3, <5>1 DEF Before
      <4> QED
        BY <4>2, <4>3, <1>0
    <3> QED
      BY <3>1, <3>2
  <2>2. CASE F = {}
    <3>1. PICK m \in S : \A j \in S : j <= m
      BY <1>0, Newest
    <3>2. ASSUME NEW j \in S \ {m} PROVE Before(m, j)
      <4>1. pages[m].frontend = FALSE /\ pages[j].frontend = FALSE
        BY <2>2, <1>0
      <4>2. m > j
        BY <3>1, <1>0
      <4> QED
        BY <4>1, <4>2 DEF Before
    <3> QED
      BY <3>1, <3>2
  <2> QED
    BY <2>1, <2>2
<1> QED
  BY <1>1 DEF FirstOf

\* The page that is chosen, if there is one, may be served.
LEMMA ChosenFits ==
  ASSUME pages \in Seq(Pages),
         NEW whole, whole = {i \in DOMAIN pages : pages[i].body = "whole"},
         NEW filled, filled = {i \in DOMAIN pages : pages[i].body # "empty"}
  PROVE  /\ Deployable(whole, filled) \in 0..Len(pages)
         /\ Deployable(whole, filled) # 0 => Fit(Deployable(whole, filled))
<1>0. /\ Len(pages) \in Nat /\ DOMAIN pages = 1..Len(pages)
      /\ \A i \in 1..Len(pages) : pages[i].frontend = TRUE \/ pages[i].frontend = FALSE
  BY PageTypes
<1>1. CASE whole # {}
  <2>1. Deployable(whole, filled) = FirstOf(whole)
    BY <1>1 DEF Deployable
  <2>2. FirstOf(whole) \in whole /\ \A j \in whole \ {FirstOf(whole)} : Before(FirstOf(whole), j)
    BY <1>0, <1>1, FirstIsFirst
  <2> DEFINE f == FirstOf(whole)
  <2>3. f \in 1..Len(pages) /\ pages[f].body = "whole"
    BY <1>0, <2>2
  <2>4. ASSUME NEW j \in 1..f, pages[j].body = "whole", pages[j].frontend
        PROVE  pages[f].frontend
    <3>1. j \in whole
      BY <1>0, <2>3, <2>4
    <3>2. CASE j # f
      <4>1. Before(f, j)
        BY <2>2, <3>1, <3>2
      <4>2. CASE pages[f].frontend /\ ~pages[j].frontend
        BY <4>2
      <4>3. CASE pages[f].frontend = pages[j].frontend
        BY <2>4, <4>3, Zenon
      <4> QED
        BY <4>1, <4>2, <4>3 DEF Before
    <3> QED
      BY <2>4, <3>2
  <2>5. Fit(FirstOf(whole))
    <3> HIDE DEF f
    <3>1. Fit(f)
      BY <2>3, <2>4 DEF Fit
    <3> QED
      BY <3>1 DEF f
  <2> QED
    BY <1>0, <2>1, <2>2, <2>5
<1>2. CASE whole = {} /\ filled # {}
  <2>1. Deployable(whole, filled) = FirstOf(filled)
    BY <1>2 DEF Deployable
  <2>2. FirstOf(filled) \in filled
    BY <1>0, <1>2, FirstIsFirst
  <2> DEFINE f == FirstOf(filled)
  <2>3. f \in 1..Len(pages) /\ pages[f].body # "empty"
    BY <1>0, <2>2
  <2>4. \A j \in 1..f : pages[j].body # "whole"
    <3> HIDE DEF f
    <3> QED
      BY <1>0, <1>2, <2>3
  <2>5. Fit(FirstOf(filled))
    <3> HIDE DEF f
    <3>1. Fit(f)
      BY <2>3, <2>4 DEF Fit
    <3> QED
      BY <3>1 DEF f
  <2> QED
    BY <1>0, <2>1, <2>2, <2>5
<1>3. CASE whole = {} /\ filled = {}
  BY <1>0, <1>3 DEF Deployable, FirstOf
<1> QED
  BY <1>1, <1>2, <1>3

-----------------------------------------------------------------------------
\* Steps up to the choice of the page.
LEMMA ChooseSteps ==
  ASSUME DeployInv, Pending \/ Deploying \/ ChoosePage
  PROVE  DeployInv'
<1> USE DEF DeployInv, DeployType, Awaits
<1>1. CASE Pending
  BY <1>1 DEF Pending, Announce, ServedInv, CardInv
<1>2. CASE Deploying
  BY <1>2 DEF Deploying, Announce, ServedInv, CardInv, Fit
<1>3. CASE ChoosePage
  <2> DEFINE whole  == {i \in DOMAIN pages : pages[i].body = "whole"}
             filled == {i \in DOMAIN pages : pages[i].body # "empty"}
  <2>1. choice' = Deployable(whole, filled)
    BY <1>3 DEF ChoosePage
  <2>2. choice' \in 0..Len(pages) /\ (choice' # 0 => Fit(choice'))
    BY <2>1, ChosenFits
  <2>3. /\ deployAt = "choose"
        /\ deployAt' \in {"failed", "deploy", "site"} /\ (deployAt' # "failed" => choice' # 0)
        /\ pages' = pages /\ uploaded' = uploaded /\ site' = site
        /\ cardStored' = cardStored /\ cardTold' = cardTold
    BY <1>3 DEF ChoosePage
  <2> HIDE DEF whole, filled
  <2>4. choice' # 0 => Fit(choice)'
    BY <2>2, <2>3 DEF Fit
  <2> QED
    BY <2>2, <2>3, <2>4 DEF ServedInv, CardInv
<1> QED
  BY <1>1, <1>2, <1>3

\* What Netlify answers, and what the card is told of it.
LEMMA NetlifySteps ==
  ASSUME DeployInv,
         CreateSite \/ CreateDeploy \/ Upload \/ NetlifyRaises \/ StoreResult \/ TellResult
         \/ UNCHANGED deployVars
  PROVE  DeployInv'
<1> USE DEF DeployInv, DeployType, Awaits, ServedInv, CardInv, Fit, NetlifyRefuses
<1>1. CASE CreateSite
  BY <1>1 DEF CreateSite
<1>2. CASE CreateDeploy
  BY <1>2 DEF CreateDeploy, Needed
<1>3. CASE Upload
  <2>1. CASE deployAt' = "deployed" /\ uploaded' = uploaded \cup {choice} /\ UNCHANGED site
    <3>1. choice \in 1..Len(pages)
      BY <1>3 DEF Upload
    <3>2. UNCHANGED <<pages, choice, cardStored, cardTold>> /\ deployAt = "upload"
      BY <1>3, <2>1 DEF Upload
    <3> QED
      BY <2>1, <3>1, <3>2
  <2>2. CASE NetlifyRefuses("upload")
    BY <1>3, <2>2 DEF Upload
  <2> QED
    BY <1>3, <2>1, <2>2 DEF Upload
<1>4. CASE NetlifyRaises
  BY <1>4 DEF NetlifyRaises
<1>5. CASE StoreResult
  BY <1>5 DEF StoreResult
<1>6. CASE TellResult
  BY <1>6 DEF TellResult
<1>7. CASE UNCHANGED deployVars
  BY <1>7 DEF deployVars
<1> QED
  BY <1>1, <1>2, <1>3, <1>4, <1>5, <1>6, <1>7

\* A page that is stored is newer than the one in hand.
LEMMA PageStored ==
  ASSUME DeployInv, NEW p \in Pages, StoreArtifact(p)
  PROVE  DeployInv'
<1>1. /\ Len(pages) \in Nat /\ Len(pages') = Len(pages) + 1 /\ pages' \in Seq(Pages)
      /\ \A i \in 1..Len(pages) : pages'[i] = pages[i]
  BY DEF DeployInv, DeployType, StoreArtifact
<1>2. /\ uploaded' = uploaded /\ deployAt' = deployAt /\ choice' = choice /\ site' = site
      /\ cardStored' = cardStored /\ cardTold' = cardTold
  BY DEF StoreArtifact
<1>3. choice # 0 => Fit(choice)'
  BY <1>1, <1>2 DEF DeployInv, DeployType, ServedInv, Fit
<1> QED
  BY <1>1, <1>2, <1>3 DEF DeployInv, DeployType, ServedInv, CardInv

-----------------------------------------------------------------------------
\* The invariant holds in every reachable state.
THEOREM DeployInvariance == DeploySpec => []DeployInv
<1>1. DeployInit => DeployInv
  BY DEF DeployInit, DeployInv, DeployType, Awaits, ServedInv, CardInv
<1>2. DeployInv /\ [DeployNext]_deployVars => DeployInv'
  BY ChooseSteps, NetlifySteps, PageStored DEF DeployNext
<1> QED
  BY <1>1, <1>2, PTL DEF DeploySpec

\* For as many pages as are listed and any requests: a card that says deployed is of a page whose
\* file Netlify has, the complete one of a frontend agent if there was one, and a
\* request that comes to its end leaves no card that says deploying
\* (_run_netlify_deploy_request).
THEOREM DeployIsSound == DeploySpec => []DeploySound
<1>1. DeployInv => DeploySound
  BY DEF DeployInv, DeployType, Awaits, ServedInv, CardInv, Fit, DeploySound, DeployTypeOK,
         DeployedIsServed, CardEnds
<1> QED
  BY DeployInvariance, <1>1, PTL

-----------------------------------------------------------------------------
\* The creation dialogue.  The invariant says who holds on to which draft over an await: a
\* draft nobody interfered with is handled by one connection at a time.

Going == [at : {"stored", "created"}, draft : Nat]
Agent == [draft : Nat, fields : SUBSET Required]

WizardType ==
  /\ drafts \in Seq(SUBSET Required) /\ draftOf \in 0..Len(drafts)
  /\ handling \in [Tabs -> {NotHandling} \cup Going]
  /\ \A t \in Tabs : handling[t].at # "idle" => handling[t].draft \in 1..Len(drafts)
  /\ created \in Seq(Agent) /\ \A i \in DOMAIN created : created[i].draft \in 0..Len(drafts)
  /\ cancelled \in SUBSET (1..Len(drafts)) /\ overlapped \in SUBSET (1..Len(drafts))

Handles(c, d) == handling[c].at # "idle" /\ handling[c].draft = d

\* What is confirmed is complete, and stays so
CompleteInv ==
  /\ AgentsComplete
  /\ \A c \in Tabs : handling[c].at # "idle" => drafts[handling[c].draft] = Required

\* A draft nobody interfered with is handled by one connection at a time, only while
\* it is the conversation's draft, and then nothing else is handled
OwnInv ==
  \A d \in 1..Len(drafts) \ overlapped :
    /\ \A c, t \in Tabs : Handles(c, d) /\ Handles(t, d) => c = t
    /\ \A c \in Tabs : Handles(c, d) => draftOf = d
    /\ draftOf = d => \A c \in Tabs : handling[c].at # "idle" => handling[c].draft = d

\* Its agent is there once, from the step that creates it
AgentInv ==
  \A d \in 1..Len(drafts) \ overlapped :
    /\ \A i, j \in FromDraft(d) : i = j
    /\ \A c \in Tabs : Handles(c, d) /\ handling[c].at = "stored" => FromDraft(d) = {}
    /\ draftOf = d /\ FromDraft(d) # {} => \E c \in Tabs : Handles(c, d)
    /\ d \in cancelled => draftOf # d /\ FromDraft(d) = {}

WizardInv == WizardType /\ CompleteInv /\ OwnInv /\ AgentInv /\ TargetsRight

-----------------------------------------------------------------------------
LEMMA WizardStarts == WizardInit => WizardInv
<1>1. ASSUME WizardInit PROVE WizardType
  <2>1. drafts = <<>> /\ draftOf = 0 /\ created = <<>> /\ cancelled = {} /\ overlapped = {}
        /\ handling = [c \in Tabs |-> NotHandling]
    BY <1>1 DEF WizardInit
  <2>2. <<>> \in Seq(SUBSET Required) /\ <<>> \in Seq(Agent) /\ Len(<<>>) = 0 /\ DOMAIN <<>> = {}
    BY EmptySeq
  <2>3. \A t \in Tabs : handling[t] = NotHandling /\ handling[t].at = "idle"
    BY <2>1 DEF NotHandling
  <2>4. draftOf \in 0..Len(drafts) /\ drafts \in Seq(SUBSET Required)
    BY <2>1, <2>2
  <2>5. created \in Seq(Agent) /\ \A i \in DOMAIN created : created[i].draft \in 0..Len(drafts)
    BY <2>1, <2>2
  <2> QED BY <2>1, <2>3, <2>4, <2>5 DEF WizardType
<1>2. ASSUME WizardInit PROVE CompleteInv /\ OwnInv /\ AgentInv /\ TargetsRight
  BY <1>2 DEF WizardInit, CompleteInv, OwnInv, AgentInv, TargetsRight, AgentsComplete, FromDraft, NotHandling,
              Handles
<1> QED BY <1>1, <1>2 DEF WizardInv

\* What the dialogue leaves of the targets
LEMMA RoutedStays == ASSUME TargetsRight, UNCHANGED routed PROVE TargetsRight'
BY DEF TargetsRight

\* ... and what the choice of the targets leaves of the dialogue
LEMMA DialogueStays ==
  ASSUME WizardInv, UNCHANGED <<draftOf, drafts, handling, created, cancelled, overlapped>>
  PROVE  WizardType' /\ CompleteInv' /\ OwnInv' /\ AgentInv'
<1> USE DEF WizardInv
<1>1. WizardType'
  BY DEF WizardType
<1>2. CompleteInv'
  BY DEF CompleteInv, AgentsComplete
<1>3. OwnInv'
  BY DEF OwnInv, Handles
<1>4. AgentInv'
  BY DEF AgentInv, FromDraft, Handles
<1> QED BY <1>1, <1>2, <1>3, <1>4

\* At most one of its elements
LEMMA OneAtMost == ASSUME NEW S, \A i, j \in S : i = j PROVE Cardinality(S) <= 1
<1>1. CASE S = {}
  BY <1>1, FS_EmptySet
<1>2. ASSUME NEW a \in S PROVE Cardinality(S) = 1
  <2>1. S = {a}
    OBVIOUS
  <2> QED BY <2>1, FS_Singleton
<1> QED BY <1>1, <1>2

LEMMA StartKeeps == ASSUME WizardInv, NEW c \in Tabs, NEW fields \in SUBSET Required, StartDraft(c, fields)
                    PROVE WizardInv'
<1> USE DEF WizardInv
<1>1. WizardType'
  <2>1. drafts' \in Seq(SUBSET Required) /\ Len(drafts') = Len(drafts) + 1 /\ Len(drafts) \in Nat
    BY AppendProperties DEF WizardType, StartDraft
  <2>2. draftOf' \in 0..Len(drafts')
    BY <2>1 DEF StartDraft
  <2>3. handling' = handling /\ created' = created /\ cancelled' = cancelled
        /\ overlapped' \subseteq overlapped \cup {Len(drafts) + 1}
    BY DEF StartDraft
  <2>4. 1..Len(drafts) \subseteq 1..Len(drafts') /\ 0..Len(drafts) \subseteq 0..Len(drafts')
        /\ Len(drafts) + 1 \in 1..Len(drafts')
    BY <2>1
  <2>5. cancelled' \in SUBSET (1..Len(drafts')) /\ overlapped' \in SUBSET (1..Len(drafts'))
    BY <2>3, <2>4 DEF WizardType
  <2>6. /\ handling' \in [Tabs -> {NotHandling} \cup Going]
        /\ \A t \in Tabs : handling'[t].at # "idle" => handling'[t].draft \in 1..Len(drafts')
    BY <2>3, <2>4 DEF WizardType
  <2>7. created' \in Seq(Agent) /\ \A i \in DOMAIN created' : created'[i].draft \in 0..Len(drafts')
    BY <2>3, <2>4 DEF WizardType
  <2> QED BY <2>1, <2>2, <2>5, <2>6, <2>7 DEF WizardType
<1>2. Len(drafts') = Len(drafts) + 1 /\ \A d \in 1..Len(drafts) : drafts'[d] = drafts[d]
  BY DEF WizardType, StartDraft
<1>3. CompleteInv'
  <2>1. \A t \in Tabs : handling[t].at # "idle" => handling[t].draft \in 1..Len(drafts)
    BY DEF WizardType, NotHandling
  <2>2. \A t \in Tabs : handling'[t] = handling[t]
    BY DEF StartDraft
  <2> QED BY <2>1, <2>2, <1>2 DEF CompleteInv, AgentsComplete, StartDraft
<1>4. OwnInv'
  <2>1. \A t \in Tabs : handling[t].at # "idle" => handling[t].draft \in 1..Len(drafts)
    BY DEF WizardType, NotHandling
  <2>2. handling' = handling /\ draftOf = 0 /\ draftOf' = Len(drafts) + 1 /\ overlapped \subseteq overlapped'
        /\ ((\E t \in Tabs : handling[t].at # "idle") => Len(drafts) + 1 \in overlapped')
    BY DEF StartDraft
  <2>3. Len(drafts) \in Nat BY DEF WizardType
  <2> QED BY <2>1, <2>2, <2>3, <1>2 DEF OwnInv, Handles
<1>5. AgentInv'
  <2>1. \A i \in DOMAIN created : created[i].draft \in 0..Len(drafts)
    BY DEF WizardType
  <2>2. created' = created /\ draftOf = 0 /\ draftOf' = Len(drafts) + 1 /\ overlapped \subseteq overlapped'
        /\ cancelled' = cancelled /\ handling' = handling /\ cancelled \subseteq 1..Len(drafts)
    BY DEF StartDraft, WizardType
  <2>3. Len(drafts) \in Nat BY DEF WizardType
  <2>4. FromDraft(Len(drafts) + 1) = {} /\ \A d : FromDraft(d)' = FromDraft(d)
    BY <2>1, <2>2, <2>3 DEF FromDraft
  <2>6. ASSUME NEW d \in (1..Len(drafts) \ overlapped)'
        PROVE  /\ \A i, j \in FromDraft(d)' : i = j
               /\ \A t \in Tabs : (Handles(t, d) /\ handling[t].at = "stored")' => FromDraft(d)' = {}
               /\ draftOf' = d /\ FromDraft(d)' # {} => \E t \in Tabs : Handles(t, d)'
               /\ d \in cancelled' => draftOf' # d /\ FromDraft(d)' = {}
    <3>1. CASE d = Len(drafts) + 1
      BY <3>1, <2>2, <2>3, <2>4
    <3>2. CASE d \in 1..Len(drafts) \ overlapped
      BY <3>2, <2>2, <2>3, <2>4 DEF AgentInv, Handles
    <3> QED BY <3>1, <3>2, <2>2, <2>3, <1>2
  <2> QED BY <2>6 DEF AgentInv, FromDraft
<1>6. TargetsRight'
  BY RoutedStays DEF StartDraft
<1> QED BY <1>1, <1>3, <1>4, <1>5, <1>6

LEMMA FieldsKeeps == ASSUME WizardInv, NEW c \in Tabs, NEW fields \in SUBSET Required, AddFields(c, fields)
                     PROVE WizardInv'
<1> USE DEF WizardInv
<1>1. WizardType'
  <2>1. drafts' \in Seq(SUBSET Required) /\ Len(drafts') = Len(drafts) /\ Len(drafts) \in Nat
    BY DEF WizardType, AddFields
  <2> QED BY <2>1 DEF WizardType, AddFields, Overlap
<1>2. Len(drafts') = Len(drafts) /\ \A d \in 1..Len(drafts) : drafts[d] \subseteq drafts'[d] /\ drafts'[d] \subseteq Required
  BY DEF WizardType, AddFields
<1>3. CompleteInv'
  <2>1. \A t \in Tabs : handling[t].at # "idle" => handling[t].draft \in 1..Len(drafts)
    BY DEF WizardType, NotHandling
  <2>2. handling' = handling /\ created' = created
    BY DEF AddFields
  <2>3. \A t \in Tabs : handling[t].at # "idle" => drafts'[handling[t].draft] = Required
    <3>1. \A X : Required \subseteq X /\ X \subseteq Required => X = Required
      OBVIOUS
    <3> QED BY <2>1, <1>2, <3>1 DEF CompleteInv
  <2> QED BY <2>2, <2>3 DEF CompleteInv, AgentsComplete
<1>4. handling' = handling /\ draftOf' = draftOf /\ overlapped \subseteq overlapped' /\ created' = created
      /\ cancelled' = cancelled
  BY DEF AddFields, Overlap
<1>5. OwnInv'
  BY <1>2, <1>4 DEF OwnInv, Handles
<1>6. AgentInv'
  BY <1>2, <1>4 DEF AgentInv, Handles, FromDraft
<1>7. TargetsRight'
  BY RoutedStays DEF AddFields
<1> QED BY <1>1, <1>3, <1>5, <1>6, <1>7

LEMMA CancelKeeps == ASSUME WizardInv, NEW c \in Tabs, CancelDraft(c) PROVE WizardInv'
<1> USE DEF WizardInv
<1>1. WizardType'
  <2>1. draftOf' = 0 /\ 0 \in 0..Len(drafts) /\ draftOf \in 1..Len(drafts)
    BY DEF WizardType, CancelDraft
  <2>2. overlapped' \subseteq overlapped \cup {draftOf} /\ cancelled' = cancelled \cup {draftOf}
        /\ UNCHANGED <<drafts, handling, created>>
    BY DEF CancelDraft, Overlap
  <2> QED BY <2>1, <2>2 DEF WizardType
<1>2. handling' = handling /\ draftOf # 0 /\ draftOf' = 0 /\ overlapped \subseteq overlapped' /\ created' = created
      /\ cancelled' = cancelled \cup {draftOf} /\ drafts' = drafts
      /\ (Confirming(draftOf) # {} => draftOf \in overlapped')
  BY DEF CancelDraft, Overlap
<1>3. CompleteInv'
  BY <1>2 DEF CompleteInv, AgentsComplete
<1>4. draftOf \in overlapped' \/ \A t \in Tabs : ~ Handles(t, draftOf)
  BY <1>2 DEF Confirming, Handles
<1>5. OwnInv'
  BY <1>2, <1>4 DEF OwnInv, Handles
<1>6. AgentInv'
  BY <1>2, <1>4 DEF AgentInv, Handles, FromDraft
<1>7. TargetsRight'
  BY RoutedStays DEF CancelDraft
<1> QED BY <1>1, <1>3, <1>5, <1>6, <1>7

LEMMA ConfirmKeeps == ASSUME WizardInv, NEW c \in Tabs, Confirm(c) PROVE WizardInv'
<1> USE DEF WizardInv
<1>1. WizardType'
  <2>1. draftOf \in 1..Len(drafts) /\ Len(drafts) \in Nat
    BY DEF WizardType, Confirm
  <2>2. [at |-> "stored", draft |-> draftOf] \in Going
    BY <2>1 DEF Going
  <2>3. handling' \in [Tabs -> {NotHandling} \cup Going]
    BY <2>2 DEF WizardType, Confirm
  <2>4. \A t \in Tabs : handling'[t].at # "idle" => handling'[t].draft \in 1..Len(drafts)
    BY <2>1 DEF WizardType, Confirm
  <2> QED BY <2>1, <2>3, <2>4 DEF WizardType, Confirm, Overlap
<1>2. /\ draftOf \in 1..Len(drafts) /\ drafts[draftOf] = Required
      /\ overlapped \subseteq overlapped' /\ created' = created /\ cancelled' = cancelled /\ drafts' = drafts
      /\ draftOf' = draftOf /\ (Confirming(draftOf) # {} => draftOf \in overlapped')
      /\ \A t \in Tabs \ {c} : handling'[t] = handling[t]
      /\ handling'[c].at = "stored" /\ handling'[c].draft = draftOf
      /\ handling[c].at = "idle"
  <2>1. draftOf \in 1..Len(drafts) /\ drafts[draftOf] \in SUBSET Required
    BY DEF Confirm, WizardType
  <2>2. drafts[draftOf] = Required
    BY <2>1 DEF Confirm, Confirmable, MissingFields
  <2> QED BY <2>1, <2>2 DEF Confirm, Overlap, WizardType
<1>3. CompleteInv'
  BY <1>2 DEF CompleteInv, AgentsComplete
<1>4. draftOf \in overlapped' \/ \A t \in Tabs : ~ Handles(t, draftOf)
  BY <1>2 DEF Confirming, Handles
<1>5. OwnInv'
  BY <1>2, <1>4 DEF OwnInv, Handles
<1>6. AgentInv'
  <2>1. \A d : FromDraft(d)' = FromDraft(d)
    BY <1>2 DEF FromDraft
  <2>2. draftOf \in overlapped' \/ FromDraft(draftOf) = {}
    BY <1>2, <1>4 DEF AgentInv
  <2>3. ASSUME NEW d \in (1..Len(drafts) \ overlapped)'
        PROVE  /\ \A i, j \in FromDraft(d)' : i = j
               /\ \A t \in Tabs : (Handles(t, d) /\ handling[t].at = "stored")' => FromDraft(d)' = {}
               /\ draftOf' = d /\ FromDraft(d)' # {} => \E t \in Tabs : Handles(t, d)'
               /\ d \in cancelled' => draftOf' # d /\ FromDraft(d)' = {}
    BY <1>2, <2>1, <2>2 DEF AgentInv, Handles
  <2> QED BY <2>3 DEF AgentInv
<1>7. TargetsRight'
  BY RoutedStays DEF Confirm
<1> QED BY <1>1, <1>3, <1>5, <1>6, <1>7

LEMMA CreateKeeps == ASSUME WizardInv, NEW c \in Tabs, CreateAgent(c) PROVE WizardInv'
<1> USE DEF WizardInv
<1>p. PICK d0 \in Nat : d0 = handling[c].draft /\ d0 \in 1..Len(drafts)
  BY DEF CreateAgent, WizardType
<1> DEFINE new == [draft |-> d0, fields |-> drafts[d0]]
<1>0. d0 = handling[c].draft /\ d0 \in 1..Len(drafts) /\ handling[c].at = "stored" /\ drafts[d0] = Required
  BY <1>p DEF CreateAgent, CompleteInv
<1>1. WizardType'
  <2>1. new \in Agent
    BY <1>0 DEF WizardType, Agent
  <2>2. handling[c] \in Going /\ [handling[c] EXCEPT !.at = "created"] \in Going
    BY <1>0 DEF WizardType, Going, NotHandling
  <2>3. handling' \in [Tabs -> {NotHandling} \cup Going]
    BY <2>2 DEF WizardType, CreateAgent
  <2>4. \A t \in Tabs : handling'[t].at # "idle" => handling'[t].draft \in 1..Len(drafts)
    BY <1>0, <2>2 DEF WizardType, CreateAgent, Going
  <2>5. created' \in Seq(Agent) /\ \A i \in DOMAIN created' : created'[i].draft \in 0..Len(drafts)
    <3>1. created \in Seq(Agent) /\ created' = Append(created, new)
      BY <1>0 DEF WizardType, CreateAgent
    <3>2. created' \in Seq(Agent) /\ Len(created') = Len(created) + 1 /\ Len(created) \in Nat
          /\ (\A i \in 1..Len(created) : created'[i] = created[i]) /\ created'[Len(created) + 1] = new
      BY <2>1, <3>1, AppendProperties, LenProperties
    <3>3. DOMAIN created = 1..Len(created) /\ DOMAIN created' = 1..(Len(created) + 1)
      BY <3>1, <3>2, LenProperties
    <3>4. new.draft \in 0..Len(drafts)
      BY <1>0
    <3> QED BY <3>2, <3>3, <3>4 DEF WizardType
  <2> QED BY <2>3, <2>4, <2>5 DEF WizardType, CreateAgent
<1>2. /\ overlapped' = overlapped /\ cancelled' = cancelled /\ drafts' = drafts /\ draftOf' = draftOf
      /\ \A t \in Tabs \ {c} : handling'[t] = handling[t]
      /\ handling'[c].at = "created" /\ handling'[c].draft = d0
      /\ created' = Append(created, new)
  BY <1>0 DEF CreateAgent, WizardType
<1>3. /\ Len(created) \in Nat /\ DOMAIN created' = DOMAIN created \cup {Len(created) + 1}
      /\ \A i \in DOMAIN created : created'[i] = created[i]
      /\ created'[Len(created) + 1] = new /\ Len(created) + 1 \notin DOMAIN created
  <2>1. new \in Agent
    BY <1>0 DEF WizardType, Agent
  <2>2. created \in Seq(Agent)
    BY DEF WizardType
  <2>3. Len(created') = Len(created) + 1 /\ Len(created) \in Nat
        /\ (\A i \in 1..Len(created) : created'[i] = created[i]) /\ created'[Len(created) + 1] = new
        /\ created' \in Seq(Agent)
    BY <2>1, <2>2, <1>2, AppendProperties, LenProperties
  <2>4. DOMAIN created = 1..Len(created) /\ DOMAIN created' = 1..(Len(created) + 1)
    BY <2>2, <2>3, LenProperties
  <2> QED BY <2>3, <2>4
<1>4. CompleteInv'
  BY <1>0, <1>2, <1>3 DEF CompleteInv, AgentsComplete, MissingFields
<1>5. \A t \in Tabs : \A d : Handles(t, d)' <=> Handles(t, d)
  BY <1>0, <1>2 DEF Handles
<1>6. OwnInv'
  BY <1>0, <1>2, <1>5 DEF OwnInv, Handles
<1>7. AgentInv'
  <2>1. \A d : d # d0 => FromDraft(d)' = FromDraft(d)
    BY <1>3 DEF FromDraft
  <2>2. FromDraft(d0)' = FromDraft(d0) \cup {Len(created) + 1}
    BY <1>3 DEF FromDraft
  <2>3. d0 \in overlapped \/ (FromDraft(d0) = {} /\ draftOf = d0 /\ \A t \in Tabs : Handles(t, d0) => t = c)
    BY <1>0 DEF AgentInv, Handles, OwnInv
  <2>4. Handles(c, d0)
    BY <1>0 DEF Handles
  <2>5. ASSUME NEW d \in (1..Len(drafts) \ overlapped)'
        PROVE  /\ \A i, j \in FromDraft(d)' : i = j
               /\ \A t \in Tabs : (Handles(t, d) /\ handling[t].at = "stored")' => FromDraft(d)' = {}
               /\ draftOf' = d /\ FromDraft(d)' # {} => \E t \in Tabs : Handles(t, d)'
               /\ d \in cancelled' => draftOf' # d /\ FromDraft(d)' = {}
    <3>1. CASE d = d0
      BY <3>1, <1>0, <1>2, <1>5, <2>2, <2>3, <2>4 DEF AgentInv
    <3>2. CASE d # d0
      BY <3>2, <1>0, <1>2, <1>5, <2>1 DEF AgentInv, Handles
    <3> QED BY <3>1, <3>2
  <2> QED BY <2>5 DEF AgentInv
<1>8. TargetsRight'
  BY RoutedStays DEF CreateAgent
<1> QED BY <1>1, <1>4, <1>6, <1>7, <1>8

LEMMA FinishKeeps == ASSUME WizardInv, NEW c \in Tabs, FinishConfirm(c) PROVE WizardInv'
<1> USE DEF WizardInv
<1>p. PICK d0 \in Nat : d0 = handling[c].draft /\ d0 \in 1..Len(drafts)
  BY DEF FinishConfirm, WizardType
<1>1. /\ handling[c].at = "created" /\ draftOf' = 0
      /\ \A t \in Tabs \ {c} : handling'[t] = handling[t]
      /\ handling'[c].at = "idle"
      /\ UNCHANGED <<drafts, created, cancelled, overlapped, routed>>
  BY DEF FinishConfirm, WizardType, DraftPopped, NotHandling
<1>2. WizardType'
  <2>1. handling' \in [Tabs -> {NotHandling} \cup Going]
    BY DEF WizardType, FinishConfirm
  <2>2. \A t \in Tabs : handling'[t].at # "idle" => handling'[t].draft \in 1..Len(drafts)
    BY <1>1 DEF WizardType
  <2>3. draftOf' \in 0..Len(drafts)
    BY <1>1 DEF WizardType
  <2> QED BY <1>1, <2>1, <2>2, <2>3 DEF WizardType
<1>3. CompleteInv'
  BY <1>1 DEF CompleteInv, AgentsComplete
<1>4. \A t \in Tabs \ {c} : \A d : handling'[t].at # "idle" /\ handling'[t].draft = d => Handles(t, d)
  BY <1>1 DEF Handles
<1>5. OwnInv'
  <2>1. ASSUME NEW d \in 1..Len(drafts) \ overlapped, NEW t \in Tabs, t # c, Handles(t, d)
        PROVE  FALSE
    BY <2>1, <1>1, <1>p DEF OwnInv, Handles
  <2>2. \A d \in 1..Len(drafts) \ overlapped : \A t \in Tabs : ~(handling'[t].at # "idle" /\ handling'[t].draft = d)
    BY <2>1, <1>4, <1>1
  <2> QED BY <2>2, <1>1 DEF OwnInv, Handles
<1>6. AgentInv'
  <2>1. \A d : FromDraft(d)' = FromDraft(d)
    BY <1>1 DEF FromDraft
  <2>2. ASSUME NEW d \in (1..Len(drafts) \ overlapped)'
        PROVE  /\ \A i, j \in FromDraft(d)' : i = j
               /\ \A t \in Tabs : (Handles(t, d) /\ handling[t].at = "stored")' => FromDraft(d)' = {}
               /\ draftOf' = d /\ FromDraft(d)' # {} => \E t \in Tabs : Handles(t, d)'
               /\ d \in cancelled' => draftOf' # d /\ FromDraft(d)' = {}
    BY <1>1, <2>1 DEF AgentInv, Handles
  <2> QED BY <2>2 DEF AgentInv
<1>7. TargetsRight'
  BY <1>1, RoutedStays
<1> QED BY <1>2, <1>3, <1>5, <1>6, <1>7

LEMMA FailKeeps == ASSUME WizardInv, NEW c \in Tabs, ConfirmFails(c) PROVE WizardInv'
<1> USE DEF WizardInv
<1>p. PICK d0 \in Nat : d0 = handling[c].draft /\ d0 \in 1..Len(drafts)
  BY DEF ConfirmFails, WizardType
<1>1. /\ handling[c].at \in {"stored", "created"}
      /\ \A t \in Tabs \ {c} : handling'[t] = handling[t]
      /\ handling'[c].at = "idle" /\ overlapped \subseteq overlapped'
      /\ overlapped' \subseteq overlapped \cup {d0}
      /\ (d0 \in overlapped' \/ handling[c].at = "stored")
      /\ UNCHANGED <<drafts, created, cancelled, draftOf, routed>>
  BY <1>p DEF ConfirmFails, WizardType, NotHandling
<1>2. WizardType'
  <2>1. handling' \in [Tabs -> {NotHandling} \cup Going]
    BY DEF WizardType, ConfirmFails
  <2>2. \A t \in Tabs : handling'[t].at # "idle" => handling'[t].draft \in 1..Len(drafts)
    BY <1>1 DEF WizardType
  <2>3. overlapped' \subseteq 1..Len(drafts)
    BY <1>1, <1>p DEF WizardType
  <2> QED BY <1>1, <2>1, <2>2, <2>3 DEF WizardType
<1>3. CompleteInv'
  BY <1>1 DEF CompleteInv, AgentsComplete
<1>4. OwnInv'
  BY <1>1 DEF OwnInv, Handles
<1>5. AgentInv'
  <2>1. \A d : FromDraft(d)' = FromDraft(d)
    BY <1>1 DEF FromDraft
  <2>2. ASSUME NEW d \in (1..Len(drafts) \ overlapped)'
        PROVE  /\ \A i, j \in FromDraft(d)' : i = j
               /\ \A t \in Tabs : (Handles(t, d) /\ handling[t].at = "stored")' => FromDraft(d)' = {}
               /\ draftOf' = d /\ FromDraft(d)' # {} => \E t \in Tabs : Handles(t, d)'
               /\ d \in cancelled' => draftOf' # d /\ FromDraft(d)' = {}
    <3>1. d = d0 => FromDraft(d) = {}
      BY <1>1, <1>p DEF AgentInv, Handles
    <3> QED BY <1>1, <1>p, <2>1, <3>1 DEF AgentInv, Handles
  <2> QED BY <2>2 DEF AgentInv
<1>6. TargetsRight'
  BY <1>1, RoutedStays
<1> QED BY <1>2, <1>3, <1>4, <1>5, <1>6

LEMMA AtOnceKeeps == ASSUME WizardInv, NEW c \in Tabs, CreateAtOnce(c) PROVE WizardInv'
<1> USE DEF WizardInv
<1> DEFINE new == [draft |-> 0, fields |-> Required]
<1>1. created' = Append(created, new) /\ UNCHANGED <<draftOf, drafts, handling, cancelled, overlapped, routed>>
  BY DEF CreateAtOnce
<1>2. /\ Len(created') = Len(created) + 1 /\ Len(created) \in Nat
      /\ (\A i \in 1..Len(created) : created'[i] = created[i]) /\ created'[Len(created) + 1] = new
      /\ DOMAIN created = 1..Len(created) /\ DOMAIN created' = 1..(Len(created) + 1) /\ created' \in Seq(Agent)
  <2>1. new \in Agent /\ created \in Seq(Agent)
    BY DEF WizardType, Agent
  <2> QED BY <1>1, <2>1, AppendProperties, LenProperties
<1>3. new.draft = 0 /\ new.fields = Required /\ Required \ Required = {} /\ Len(drafts) \in Nat
  BY DEF WizardType
<1> HIDE DEF new
<1>4. WizardType'
  BY <1>1, <1>2, <1>3 DEF WizardType
<1>5. CompleteInv'
  BY <1>1, <1>2, <1>3 DEF CompleteInv, AgentsComplete, MissingFields
<1>6. OwnInv'
  BY <1>1 DEF OwnInv, Handles
<1>7. \A d \in 1..Len(drafts) : FromDraft(d)' = FromDraft(d)
  BY <1>2, <1>3 DEF FromDraft
<1>8. AgentInv'
  <2>2. ASSUME NEW d \in (1..Len(drafts) \ overlapped)'
        PROVE  /\ \A i, j \in FromDraft(d)' : i = j
               /\ \A t \in Tabs : (Handles(t, d) /\ handling[t].at = "stored")' => FromDraft(d)' = {}
               /\ draftOf' = d /\ FromDraft(d)' # {} => \E t \in Tabs : Handles(t, d)'
               /\ d \in cancelled' => draftOf' # d /\ FromDraft(d)' = {}
    BY <1>1, <1>7 DEF AgentInv, Handles
  <2> QED BY <2>2 DEF AgentInv
<1>9. TargetsRight'
  BY <1>1, RoutedStays
<1> QED BY <1>4, <1>5, <1>6, <1>8, <1>9

-----------------------------------------------------------------------------
\* What r says is right for a message with these mentions in this conversation
Right(r, convKind, inConv, ids, last) ==
  /\ r.to \subseteq inConv
  /\ ids # {} => r.to = ids \cap inConv
  /\ r.to = {} => r.error # "none"
  /\ ids = {} => \A a, b \in r.to : a = b
  /\ ids = {} /\ convKind = "group" /\ r.to # {} => r.to \in {{Orchestrator}, {last}}

\* Whatever the conversation, the text and its mentions, the choice of the targets
\* is right.
LEMMA ResolvedRight ==
  ASSUME NEW convKind \in {"single", "group"}, NEW inConv \in SUBSET Members,
         NEW ids \in SUBSET (Members \cup Strangers),
         NEW text \in {"plain", "complex", "deploy", "@", "@orchestrator"}, NEW last,
         NEW r \in Resolved(convKind, inConv, ids, text, last)
  PROVE  Right(r, convKind, inConv, ids, last)
<1>1. CASE ids # {}
  <2>1. r = Mentioned(ids, inConv)
    BY <1>1 DEF Resolved
  <2> QED BY <1>1, <2>1 DEF Mentioned, Error, Right
<1>2. CASE ids = {} /\ convKind = "single" /\ inConv = {}
  BY <1>2 DEF Resolved, Error, Right
<1>3. CASE ids = {} /\ convKind = "single" /\ inConv # {}
  <2>1. PICK a \in inConv : r = Error("none", {a})
    BY <1>3 DEF Resolved
  <2> QED BY <1>3, <2>1 DEF Error, Right
<1>4. CASE ids = {} /\ convKind = "group"
  <2>1. r = InGroup(inConv, text, last)
    BY <1>4 DEF Resolved, Unmentioned
  <2>2. \/ Orchestrator \in inConv /\ r = Error("none", {Orchestrator})
        \/ last \in inConv /\ r = Error("none", {last})
        \/ r = Error("bad_mentions", {}) \/ r = Error("no_target", {})
    BY <2>1 DEF InGroup
  <2>3. Error("bad_mentions", {}).error # "none" /\ Error("no_target", {}).error # "none"
    BY DEF Error
  <2>4. \A e, S : Error(e, S).to = S /\ Error(e, S).error = e
    BY DEF Error
  <2>5. CASE Orchestrator \in inConv /\ r = Error("none", {Orchestrator})
    <3>1. r.to = {Orchestrator}
      BY <2>4, <2>5
    <3> QED BY <1>4, <2>5, <3>1 DEF Right
  <2>6. CASE last \in inConv /\ r = Error("none", {last})
    <3>1. r.to = {last}
      BY <2>4, <2>6
    <3> QED BY <1>4, <2>6, <3>1 DEF Right
  <2>7. CASE r = Error("bad_mentions", {}) \/ r = Error("no_target", {})
    <3>1. r.to = {} /\ r.error # "none"
      BY <2>3, <2>4, <2>7
    <3> QED BY <1>4, <3>1 DEF Right
  <2> QED BY <2>2, <2>5, <2>6, <2>7
<1> QED BY <1>1, <1>2, <1>3, <1>4

LEMMA RouteKeeps == ASSUME WizardInv, Route PROVE WizardInv'
<1> USE DEF WizardInv
<1>1. PICK convKind \in {"single", "group"}, inConv \in SUBSET Members, ids \in SUBSET (Members \cup Strangers),
           text \in {"plain", "complex", "deploy", "@", "@orchestrator"},
           last \in Members \cup Strangers \cup {"user", "nothing"} :
        \E r \in Resolved(convKind, inConv, ids, text, last) :
          routed' = [to |-> r.to, error |-> r.error, asked |-> ids, in |-> inConv, last |-> last,
                     text |-> text, kind |-> convKind]
  BY DEF Route
<1>2. PICK r \in Resolved(convKind, inConv, ids, text, last) :
        routed' = [to |-> r.to, error |-> r.error, asked |-> ids, in |-> inConv, last |-> last,
                   text |-> text, kind |-> convKind]
  BY <1>1
<1>3. /\ routed'.to = r.to /\ routed'.error = r.error /\ routed'.asked = ids /\ routed'.in = inConv
      /\ routed'.last = last /\ routed'.kind = convKind
  BY <1>2
<1>4. Right(r, convKind, inConv, ids, last)
  BY <1>2, ResolvedRight
<1>a. ids = {} => Cardinality(r.to) <= 1
  BY <1>4, OneAtMost DEF Right
<1>5. TargetsRight'
  BY <1>3, <1>4, <1>a DEF TargetsRight, Right
<1>6. UNCHANGED <<draftOf, drafts, handling, created, cancelled, overlapped>>
  BY DEF Route
<1>7. WizardType' /\ CompleteInv' /\ OwnInv' /\ AgentInv'
  BY <1>6, DialogueStays
<1> QED BY <1>5, <1>7

-----------------------------------------------------------------------------
\* The state of the wizard is always as the invariant says
THEOREM WizardInvariance == WizardSpec => []WizardInv
<1>1. WizardInv /\ [WizardNext]_wizardVars => WizardInv'
  <2> SUFFICES ASSUME WizardInv, [WizardNext]_wizardVars PROVE WizardInv'
    OBVIOUS
  <2>1. CASE UNCHANGED wizardVars
    BY <2>1, DialogueStays, RoutedStays DEF wizardVars, WizardInv
  <2>2. ASSUME NEW c \in Tabs, NEW fields \in SUBSET Required, StartDraft(c, fields) \/ AddFields(c, fields)
        PROVE  WizardInv'
    BY <2>2, StartKeeps, FieldsKeeps
  <2>3. ASSUME NEW c \in Tabs,
               CancelDraft(c) \/ Confirm(c) \/ CreateAgent(c) \/ FinishConfirm(c) \/ ConfirmFails(c) \/ CreateAtOnce(c)
        PROVE  WizardInv'
    BY <2>3, CancelKeeps, ConfirmKeeps, CreateKeeps, FinishKeeps, FailKeeps, AtOnceKeeps
  <2> QED BY <2>1, <2>2, <2>3, RouteKeeps DEF WizardNext
<1> QED BY <1>1, WizardStarts, PTL DEF WizardSpec

\* IntakeSound, for any connections, members and bounds: an agent of the wizard is
\* complete, a draft that one connection at a time works on makes one agent and none
\* after its cancellation, and a message goes to the members it is meant for.
THEOREM IntakeIsSound == WizardSpec => []IntakeSound
<1>1. WizardInv => IntakeSound
  <2> SUFFICES ASSUME WizardInv PROVE IntakeSound
    OBVIOUS
  <2> USE DEF WizardInv
  <2>1. WizardTypeOK
    <3>1. Range(drafts) \subseteq SUBSET Required
      <4>1. \A i \in DOMAIN drafts : drafts[i] \in SUBSET Required
        BY LenProperties, ElementOfSeq DEF WizardType
      <4> QED BY <4>1 DEF Range
    <3> QED BY <3>1 DEF WizardTypeOK, WizardType
  <2>2. OneAgentPerDraft
    <3>1. ASSUME NEW d \in DOMAIN drafts \ overlapped
          PROVE  /\ Cardinality(FromDraft(d)) <= 1
                 /\ d \in cancelled => FromDraft(d) = {}
                 /\ FromDraft(d) # {} /\ Confirming(d) = {} => draftOf # d
      <4>1. d \in 1..Len(drafts) \ overlapped
        BY LenProperties DEF WizardType
      <4>2. \A i, j \in FromDraft(d) : i = j
        BY <4>1 DEF AgentInv
      <4>3. Cardinality(FromDraft(d)) <= 1
        BY <4>2, OneAtMost
      <4> QED BY <4>1, <4>3 DEF AgentInv, Confirming, Handles
    <3> QED BY <3>1 DEF OneAgentPerDraft
  <2> QED BY <2>1, <2>2 DEF IntakeSound, CompleteInv
<1> QED BY <1>1, WizardInvariance, PTL

-----------------------------------------------------------------------------
\* The tabs.  The invariant says of every message this connection has been told of in a
\* conversation that is shown where it is: cached, in an event on its way, or about to come
\* with a history or the answer to a fetch.

ServerEvent == [t : {"history", "created"}, c : Convs, user : BOOLEAN, rows : SUBSET (Convs \X Nat)]
ClientEvent == [t : {"join", "text"}, c : Convs]
ReadJoin == [c : Convs, rows : SUBSET (Convs \X Nat)]

Fetch == [id : Nat, c : Convs, at : {"asked", "read"}, rows : SUBSET (Convs \X Nat)]

\* Every event and every answer is about its own conversation
AboutOwn(e) == \A m \in e.rows : m[1] = e.c

NetType ==
  /\ stored \in [Convs -> Nat] /\ socket \in {"open", "closed"}
  /\ subscribed \subseteq Convs /\ turns \subseteq Convs
  /\ wire \in Seq(ServerEvent) /\ \A k \in DOMAIN wire : AboutOwn(wire[k])
  /\ requests \in Seq(ClientEvent)
  /\ joining \subseteq ReadJoin /\ \A j \in joining : j.rows \subseteq Rows(j.c) /\ j.c \in subscribed
  /\ told \in [Convs -> SUBSET (Convs \X Nat)] /\ \A c \in Convs : told[c] \subseteq Rows(c)
  /\ socket = "closed" => wire = <<>> /\ subscribed = {} /\ turns = {} /\ requests = <<>> /\ joining = {}

TabsType ==
  /\ openTabs \in Seq(Convs) /\ DOMAIN tabStates \subseteq Convs
  /\ currentConvId \in {activeTab, NoTab} /\ activeTab \in Opened \cup {NoTab}
  /\ IsInjective(openTabs) /\ Opened \subseteq DOMAIN tabStates
  /\ fetched \in Nat /\ fetches \subseteq Fetch /\ \A f \in fetches : AboutOwn(f)

\* What is shown is in its tab's cache as well, but for the optimistic message
Mirrored ==
  ~mixed /\ currentConvId # NoTab =>
    \A m \in shown : m \in Cached(tabStates, currentConvId) \/ m = Temp(currentConvId)

\* Event k is a history of c, the last one; a message is told after event k
IsHistory(k, c) == wire[k].t = "history" /\ wire[k].c = c
LastHistory(k, c) == IsHistory(k, c) /\ \A l \in DOMAIN wire : l > k => ~IsHistory(l, c)
ToldAfter(m, k) == \E j \in DOMAIN wire : j > k /\ wire[j].t = "created" /\ m \in wire[j].rows

\* The last history under way has every message told of, but for those that are told after it
HistoriesInv ==
  \A c \in Convs : \A k \in DOMAIN wire : LastHistory(k, c) =>
    \A m \in told[c] : m \in wire[k].rows \/ ToldAfter(m, k)

\* A history of c is asked for, being made or under way
Waits(c) == Awaited(c) \/ \E k \in DOMAIN wire : IsHistory(k, c)

\* A tab that waits for neither a fetch nor a history has every message told of or will be
\* told
ViewsInv ==
  socket = "open" /\ ~mixed =>
    \A c \in Opened :
      (\A f \in fetches : f.c # c) /\ ~Waits(c) =>
        \A m \in told[c] : m \in View(c) \/ ToldAfter(m, 0)

TabsInv == NetType /\ TabsType /\ NoTabMixed /\ OpenTabsJoined /\ Mirrored /\ HistoriesInv /\ ViewsInv

LEMMA TabsStart == TabInit => TabsInv
<1> SUFFICES ASSUME TabInit PROVE TabsInv
  OBVIOUS
<1>1. /\ wire = <<>> /\ openTabs = <<>> /\ requests = <<>> /\ Opened = {} /\ joining = {}
      /\ wire \in Seq(ServerEvent) /\ openTabs \in Seq(Convs) /\ requests \in Seq(ClientEvent)
  BY EmptySeq DEF TabInit, Opened
<1>2. NetType
  BY <1>1 DEF TabInit, NetType
<1>3. TabsType /\ NoTabMixed /\ OpenTabsJoined /\ Mirrored /\ HistoriesInv /\ ViewsInv
  BY <1>1 DEF TabInit, TabsType, NoTabMixed, OpenTabsJoined, Mirrored, HistoriesInv, ViewsInv, IsInjective
<1> QED
  BY <1>2, <1>3 DEF TabsInv

LEMMA TabsShow == TabsInv => TabsSound
<1> SUFFICES ASSUME TabsInv PROVE TabsSound
  OBVIOUS
<1>1. TabTypeOK /\ NoTabMixed /\ OpenTabsJoined
  BY DEF TabsInv, TabTypeOK, NetType, TabsType
<1>2. NothingToldIsLost
  BY DEF TabsInv, NothingToldIsLost, ViewsInv, ToldAfter, Waits, Awaited
<1> QED
  BY <1>1, <1>2 DEF TabsSound

-----------------------------------------------------------------------------
\* One more request, or one less
LEMMA OneMoreRequest ==
  ASSUME NetType, NEW q \in ClientEvent, requests' = Append(requests, q), UNCHANGED joining
  PROVE  /\ requests' \in Seq(ClientEvent)
         /\ \A c : Awaited(c) => Awaited(c)'
         /\ \A c : q = ToServer("join", c) => Awaited(c)'
<1>1. requests \in Seq(ClientEvent)
  BY DEF NetType
<1>2. /\ requests' \in Seq(ClientEvent) /\ Len(requests') = Len(requests) + 1
      /\ requests'[Len(requests) + 1] = q /\ \A k \in 1..Len(requests) : requests'[k] = requests[k]
  BY <1>1, AppendProperties
<1>3. Len(requests) \in Nat /\ DOMAIN requests = 1..Len(requests) /\ DOMAIN requests' = 1..Len(requests')
  BY <1>1, <1>2, LenProperties
<1>4. /\ \A k \in DOMAIN requests : k \in DOMAIN requests' /\ requests'[k] = requests[k]
      /\ Len(requests) + 1 \in DOMAIN requests'
  BY <1>2, <1>3
<1>5. \A c : Awaited(c) => Awaited(c)'
  BY <1>4 DEF Awaited
<1>6. \A c : q = ToServer("join", c) => Awaited(c)'
  BY <1>2, <1>4 DEF Awaited
<1> QED
  BY <1>2, <1>5, <1>6

LEMMA OneRequestLess ==
  ASSUME NetType, requests # <<>>, requests' = Tail(requests)
  PROVE  /\ requests' \in Seq(ClientEvent) /\ Head(requests) \in ClientEvent /\ socket = "open"
         /\ \A k \in DOMAIN requests :
              requests[k] = Head(requests) \/ \E l \in DOMAIN requests' : requests'[l] = requests[k]
<1>1. requests \in Seq(ClientEvent) /\ socket = "open"
  BY DEF NetType
<1>2. /\ requests' \in Seq(ClientEvent) /\ Len(requests') = Len(requests) - 1 /\ Head(requests) = requests[1]
      /\ \A k \in 1..Len(requests') : requests'[k] = requests[k + 1]
  BY <1>1, HeadTailProperties
<1>3. PICK n \in Nat : n = Len(requests) /\ n # 0 /\ DOMAIN requests = 1..n /\ DOMAIN requests' = 1..(n - 1)
  BY <1>1, <1>2, LenProperties, EmptySeq
<1>4. Head(requests) \in ClientEvent
  BY <1>1, <1>2, <1>3, ElementOfSeq
<1>5. ASSUME NEW k \in DOMAIN requests, k # 1 PROVE \E l \in DOMAIN requests' : requests'[l] = requests[k]
  <2>1. PICK p \in 2..n : p = k
    BY <1>3, <1>5
  <2>2. p - 1 \in 1..(n - 1) /\ p - 1 + 1 = p
    BY <1>3
  <2>3. requests'[p - 1] = requests[p]
    BY <1>2, <1>3, <2>2
  <2> QED
    BY <1>3, <2>1, <2>2, <2>3
<1> QED
  BY <1>1, <1>2, <1>4, <1>5

\* One more event on the wire
LEMMA OneMoreEvent ==
  ASSUME NetType, NEW e \in ServerEvent, AboutOwn(e), wire' = Append(wire, e)
  PROVE  /\ wire' \in Seq(ServerEvent) /\ \A k \in DOMAIN wire' : AboutOwn(wire'[k])
         /\ Len(wire) + 1 \in DOMAIN wire' /\ wire'[Len(wire) + 1] = e
         /\ \A k \in DOMAIN wire : k \in DOMAIN wire' /\ wire'[k] = wire[k] /\ k < Len(wire) + 1
         /\ \A k \in DOMAIN wire' : k \in DOMAIN wire \/ k = Len(wire) + 1
         /\ Len(wire) \in Nat
<1>1. wire \in Seq(ServerEvent)
  BY DEF NetType
<1>2. /\ wire' \in Seq(ServerEvent) /\ Len(wire') = Len(wire) + 1 /\ wire'[Len(wire) + 1] = e
      /\ \A k \in 1..Len(wire) : wire'[k] = wire[k]
  BY <1>1, AppendProperties
<1>3. Len(wire) \in Nat /\ DOMAIN wire = 1..Len(wire) /\ DOMAIN wire' = 1..Len(wire')
  BY <1>1, <1>2, LenProperties
<1>4. \A k \in DOMAIN wire' : k \in DOMAIN wire \/ k = Len(wire) + 1
  BY <1>2, <1>3
<1>5. \A k \in DOMAIN wire : k \in DOMAIN wire' /\ wire'[k] = wire[k] /\ k < Len(wire) + 1
  BY <1>2, <1>3
<1>6. Len(wire) + 1 \in DOMAIN wire'
  BY <1>2, <1>3
<1>7. \A k \in DOMAIN wire' : AboutOwn(wire'[k])
  BY <1>2, <1>4, <1>5 DEF NetType
<1> QED
  BY <1>2, <1>3, <1>4, <1>5, <1>6, <1>7

\* What is waited for goes on being waited for, what is on the wire stays there
Remains ==
  /\ \A c : Waits(c) => Waits(c)'
  /\ \A m : ToldAfter(m, 0) => ToldAfter(m, 0)'

\* Nothing happens on the wire
LEMMA SameWire ==
  ASSUME NetType, HistoriesInv, UNCHANGED <<stored, socket, requests, joining, subscribed, turns, wire, told>>
  PROVE  NetType' /\ HistoriesInv' /\ Remains
<1>1. NetType'
  BY DEF NetType, Rows
<1>2. HistoriesInv'
  BY DEF HistoriesInv, LastHistory, IsHistory, ToldAfter
<1>3. Remains
  BY DEF Remains, Waits, Awaited, IsHistory, ToldAfter
<1> QED
  BY <1>1, <1>2, <1>3

\* Something is sent to the server
LEMMA SendingKeeps ==
  ASSUME NetType, HistoriesInv, NEW t \in {"join", "text"}, NEW c \in Convs, Send(ToServer(t, c)),
         UNCHANGED <<stored, socket, joining, subscribed, turns, wire, told>>
  PROVE  /\ NetType' /\ HistoriesInv' /\ Remains /\ \A d : Awaited(d) => Awaited(d)'
         /\ t = "join" /\ socket = "open" => Awaited(c)'
<1>1. CASE socket # "open"
  <2>1. requests' = requests
    BY <1>1 DEF Send
  <2>2. NetType' /\ HistoriesInv' /\ Remains
    BY <2>1, SameWire
  <2> QED
    BY <1>1, <2>1, <2>2 DEF Awaited
<1>2. CASE socket = "open"
  <2>1. PICK q \in ClientEvent : q = ToServer(t, c)
    BY DEF ClientEvent, ToServer
  <2>2. requests' = Append(requests, q)
    BY <1>2, <2>1 DEF Send
  <2>3. requests' \in Seq(ClientEvent) /\ (\A d : Awaited(d) => Awaited(d)')
        /\ \A d : q = ToServer("join", d) => Awaited(d)'
    BY <2>2, OneMoreRequest
  <2>4. NetType'
    BY <1>2, <2>3 DEF NetType, Rows
  <2>5. HistoriesInv'
    BY DEF HistoriesInv, LastHistory, IsHistory, ToldAfter
  <2>6. Remains
    BY <2>3 DEF Remains, Waits, IsHistory, ToldAfter
  <2> QED
    BY <2>1, <2>3, <2>4, <2>5, <2>6
<1> QED
  BY <1>1, <1>2

LEMMA JoinKeeps ==
  ASSUME NetType, HistoriesInv, NEW c \in Convs, Join(c),
         UNCHANGED <<stored, socket, joining, subscribed, turns, wire, told>>
  PROVE  /\ NetType' /\ HistoriesInv' /\ Remains /\ \A d : Awaited(d) => Awaited(d)'
         /\ socket = "open" => Awaited(c)'
<1>1. PICK t \in {"join", "text"} : t = "join"
  OBVIOUS
<1>2. Send(ToServer(t, c))
  BY <1>1 DEF Join
<1> QED
  BY <1>1, <1>2, SendingKeeps

\* A message that is stored is told over this connection or not
LEMMA StoreKeeps ==
  ASSUME TabsInv, NEW c \in Convs, NEW user \in BOOLEAN, NEW heard \in BOOLEAN, Store(c, user, heard),
         heard => socket = "open",
         UNCHANGED <<viewVars, fetches, fetched, socket, joining, subscribed, mixed>>,
         requests' \in Seq(ClientEvent), turns' \subseteq Convs,
         socket = "closed" => requests' = <<>> /\ turns' = {},
         \A d : Awaited(d) => Awaited(d)'
  PROVE  TabsInv'
<1> USE DEF viewVars
<1>0. PICK m0 : m0 = <<c, stored[c] + 1>>
  OBVIOUS
<1> DEFINE e == [t |-> "created", c |-> c, user |-> user, rows |-> {m0}]
<1>1. /\ NetType /\ OpenTabsJoined /\ HistoriesInv /\ ViewsInv /\ stored' = [stored EXCEPT ![c] = @ + 1]
      /\ heard => wire' = Append(wire, e) /\ told' = [told EXCEPT ![c] = @ \cup {m0}]
      /\ ~heard => UNCHANGED <<wire, told>>
  BY <1>0 DEF TabsInv, Store
<1>2. e \in ServerEvent /\ AboutOwn(e) /\ m0 \in Convs \X Nat
  BY <1>0, <1>1 DEF ServerEvent, AboutOwn, NetType
<1>3. stored' \in [Convs -> Nat] /\ \A d \in Convs : Rows(d) \subseteq Rows(d)'
  BY <1>1 DEF Rows, NetType
<1>4. m0 \in Rows(c)'
  <2>1. stored'[c] = stored[c] + 1 /\ stored[c] + 1 \in 1..stored'[c]
    BY <1>1 DEF NetType
  <2> QED
    BY <1>0, <2>1 DEF Rows
<1>5. /\ told' \in [Convs -> SUBSET (Convs \X Nat)]
      /\ \A d \in Convs : \A m \in told'[d] : m \in told[d] \/ (heard /\ d = c /\ m = m0)
  <2>1. told \in [Convs -> SUBSET (Convs \X Nat)]
    BY <1>1 DEF NetType
  <2>2. CASE heard
    BY <1>1, <1>2, <2>1, <2>2
  <2>3. CASE ~heard
    BY <1>1, <2>1, <2>3
  <2> QED
    BY <2>2, <2>3
<1>6. \A d \in Convs : told'[d] \subseteq Rows(d)'
  BY <1>1, <1>3, <1>4, <1>5 DEF NetType
<1>7. e.t = "created" /\ m0 \in e.rows
  OBVIOUS
<1> HIDE DEF e
<1>8. /\ wire' \in Seq(ServerEvent) /\ \A k \in DOMAIN wire' : AboutOwn(wire'[k])
      /\ \A k \in DOMAIN wire : k \in DOMAIN wire' /\ wire'[k] = wire[k]
      /\ \A d : \A k \in DOMAIN wire' : IsHistory(k, d)' => k \in DOMAIN wire /\ IsHistory(k, d)
      /\ heard => \A k \in DOMAIN wire \cup {0} : ToldAfter(m0, k)'
  <2>1. CASE heard
    <3>1. wire' = Append(wire, e)
      BY <1>1, <2>1
    <3>2. /\ wire' \in Seq(ServerEvent) /\ \A k \in DOMAIN wire' : AboutOwn(wire'[k])
          /\ Len(wire) + 1 \in DOMAIN wire' /\ wire'[Len(wire) + 1] = e
          /\ \A k \in DOMAIN wire : k \in DOMAIN wire' /\ wire'[k] = wire[k] /\ k < Len(wire) + 1
          /\ \A k \in DOMAIN wire' : k \in DOMAIN wire \/ k = Len(wire) + 1
          /\ Len(wire) \in Nat
      BY <1>1, <1>2, <3>1, OneMoreEvent
    <3>3. \A k \in DOMAIN wire \cup {0} : ToldAfter(m0, k)'
      BY <1>7, <3>2 DEF ToldAfter
    <3>4. \A d : \A k \in DOMAIN wire' : IsHistory(k, d)' => k \in DOMAIN wire /\ IsHistory(k, d)
      BY <1>7, <3>2 DEF IsHistory
    <3> QED
      BY <3>2, <3>3, <3>4
  <2>2. CASE ~heard
    BY <1>1, <2>2 DEF NetType, IsHistory
  <2> QED
    BY <2>1, <2>2
<1>9. \A m, k : ToldAfter(m, k) => ToldAfter(m, k)'
  BY <1>8 DEF ToldAfter
<1>10. socket = "closed" => wire' = <<>>
  BY <1>1 DEF NetType
<1>11. \A j \in joining' : j.rows \subseteq Rows(j.c)' /\ j.c \in subscribed'
  <2> SUFFICES ASSUME NEW j \in joining PROVE j.rows \subseteq Rows(j.c)' /\ j.c \in subscribed
    OBVIOUS
  <2>1. j.rows \subseteq Rows(j.c) /\ j.c \in subscribed /\ j.c \in Convs
    BY <1>1 DEF NetType, ReadJoin
  <2> QED
    BY <1>3, <2>1
<1>12. NetType'
  BY <1>1, <1>3, <1>5, <1>6, <1>8, <1>10, <1>11 DEF NetType
<1>13. HistoriesInv'
  <2> SUFFICES ASSUME NEW d \in Convs, NEW k \in DOMAIN wire', LastHistory(k, d)', NEW m \in told'[d]
               PROVE  m \in wire'[k].rows \/ ToldAfter(m, k)'
    BY DEF HistoriesInv
  <2>1. k \in DOMAIN wire /\ IsHistory(k, d) /\ wire'[k] = wire[k]
    BY <1>8 DEF LastHistory
  <2>2. LastHistory(k, d)
    BY <1>8, <2>1 DEF LastHistory, IsHistory
  <2>3. CASE m \in told[d]
    BY <1>1, <1>9, <2>1, <2>2, <2>3 DEF HistoriesInv
  <2>4. CASE heard /\ m = m0
    BY <1>8, <2>1, <2>4
  <2> QED
    BY <1>5, <2>3, <2>4
<1>14. TabsType' /\ NoTabMixed' /\ Mirrored' /\ Opened' = Opened /\ Opened \subseteq Convs
  BY DEF TabsInv, TabsType, NoTabMixed, Mirrored, Opened, Cached, Temp
<1>15. OpenTabsJoined'
  BY <1>1, <1>14 DEF OpenTabsJoined
<1>16. ViewsInv'
  <2> SUFFICES ASSUME socket' = "open", ~mixed', NEW d \in Opened', \A f \in fetches' : f.c # d,
                      ~Waits(d)', NEW m \in told'[d]
               PROVE  (m \in View(d) \/ ToldAfter(m, 0))'
    BY DEF ViewsInv
  <2>1. d \in Opened /\ d \in Convs /\ View(d)' = View(d)
    BY <1>14 DEF View, Cached
  <2>2. ~Waits(d)
    BY <1>8 DEF Waits, IsHistory
  <2>3. \A n \in told[d] : n \in View(d) \/ ToldAfter(n, 0)
    BY <1>1, <2>1, <2>2 DEF ViewsInv
  <2> QED
    BY <1>5, <1>8, <1>9, <2>1, <2>3
<1> QED
  BY <1>12, <1>13, <1>14, <1>15, <1>16 DEF TabsInv

\* The other views keep what they have, when nothing is taken from the wire
LEMMA ViewsKeep ==
  ASSUME TabsInv, Remains, UNCHANGED <<socket, told>>, mixed => mixed', Opened' \subseteq Convs,
         \A d \in Opened' : ~mixed' /\ socket = "open" =>
           \/ \E f \in fetches' : f.c = d
           \/ Waits(d)'
           \/ d \in Opened /\ (\A f \in fetches : f.c # d) /\ \A m \in View(d) : m \in View(d)' \/ m = Temp(d)
  PROVE  ViewsInv'
<1> SUFFICES ASSUME socket' = "open", ~mixed', NEW d \in Opened', \A f \in fetches' : f.c # d,
                    ~Waits(d)', NEW m \in told'[d]
             PROVE  (m \in View(d) \/ ToldAfter(m, 0))'
  BY DEF ViewsInv
<1>1. d \in Opened /\ (\A f \in fetches : f.c # d) /\ \A n \in View(d) : n \in View(d)' \/ n = Temp(d)
  OBVIOUS
<1>2. ~Waits(d)
  BY DEF Remains
<1>3. m \in told[d] /\ m # Temp(d)
  BY DEF TabsInv, NetType, Rows, Temp
<1>4. m \in View(d) \/ ToldAfter(m, 0)
  BY <1>1, <1>2, <1>3 DEF TabsInv, ViewsInv
<1> QED
  BY <1>1, <1>3, <1>4 DEF Remains

-----------------------------------------------------------------------------
(* The tabs *)

\* When the shown messages are saved, the cache has what the user sees of every tab
LEMMA SavedViews ==
  ASSUME TabsInv
  PROVE  /\ DOMAIN Saved = DOMAIN tabStates
         /\ \A d \in Convs : Cached(Saved, d) = View(d)
         /\ ~mixed => \A d \in Convs : \A m \in View(d) : m[1] = d
<1>1. currentConvId # NoTab => currentConvId \in DOMAIN tabStates
  BY DEF TabsInv, TabsType
<1>2. \A d \in Convs : d # NoTab
  BY TabsAssumption DEF NoTab
<1>3. CASE currentConvId = NoTab
  <2>1. Saved = tabStates /\ \A d \in Convs : View(d) = Cached(tabStates, d)
    BY <1>2, <1>3 DEF Saved, View
  <2> QED
    BY <2>1 DEF TabsInv, NoTabMixed, Cached
<1>4. CASE currentConvId # NoTab
  <2>1. Saved = Put(tabStates, currentConvId, shown)
    BY <1>4 DEF Saved
  <2>2. DOMAIN Saved = DOMAIN tabStates
    BY <1>1, <1>4, <2>1 DEF Put
  <2>3. \A d : Cached(Saved, d) = IF d = currentConvId THEN shown ELSE Cached(tabStates, d)
    BY <2>1 DEF Put, Cached
  <2> QED
    BY <2>2, <2>3 DEF TabsInv, NoTabMixed, Cached, View
<1> QED
  BY <1>3, <1>4

\* One more open tab
LEMMA OpenedMore ==
  ASSUME TabsType, NEW c \in Convs, c \notin Opened, openTabs' = Append(openTabs, c)
  PROVE  openTabs' \in Seq(Convs) /\ IsInjective(openTabs') /\ Opened' = Opened \cup {c}
<1>1. openTabs \in Seq(Convs)
  BY DEF TabsType
<1>2. /\ openTabs' \in Seq(Convs) /\ Len(openTabs') = Len(openTabs) + 1 /\ openTabs'[Len(openTabs) + 1] = c
      /\ \A k \in 1..Len(openTabs) : openTabs'[k] = openTabs[k]
  BY <1>1, AppendProperties
<1>3. Len(openTabs) \in Nat /\ DOMAIN openTabs = 1..Len(openTabs) /\ DOMAIN openTabs' = 1..Len(openTabs')
  BY <1>1, <1>2, LenProperties
<1>4. \A k \in DOMAIN openTabs' : (k \in DOMAIN openTabs /\ openTabs'[k] = openTabs[k]) \/ k = Len(openTabs) + 1
  BY <1>2, <1>3
<1>5. \A k \in DOMAIN openTabs : k \in DOMAIN openTabs' /\ openTabs'[k] = openTabs[k] /\ openTabs[k] # c
  BY <1>2, <1>3 DEF Opened
<1>6. IsInjective(openTabs')
  BY <1>2, <1>4, <1>5 DEF TabsType, IsInjective
<1>7. Len(openTabs) + 1 \in DOMAIN openTabs'
  BY <1>2, <1>3
<1>8. Opened' = Opened \cup {c}
  BY <1>2, <1>4, <1>5, <1>7 DEF Opened
<1> QED
  BY <1>2, <1>6, <1>8

LEMMA OpenTabKeeps == ASSUME TabsInv, NEW c \in Convs, OpenTab(c) PROVE TabsInv'
<1> DEFINE cached == Cached(Saved, c)
<1>1. /\ c \notin Opened /\ activeTab' = c /\ currentConvId' = c /\ openTabs' = Append(openTabs, c)
      /\ tabStates' = Put(Saved, c, cached) /\ shown' = cached
      /\ UNCHANGED <<socket, drops, stored, joining, subscribed, turns, wire, told, mixed>>
      /\ \/ /\ fetches' = fetches \cup {[id |-> fetched, c |-> c, at |-> "asked", rows |-> {}]}
            /\ fetched' = fetched + 1 /\ UNCHANGED requests
         \/ Join(c) /\ UNCHANGED <<fetches, fetched>>
  BY DEF OpenTab, connVars
<1>2. NetType /\ TabsType /\ HistoriesInv /\ OpenTabsJoined
  BY DEF TabsInv
<1>3. openTabs' \in Seq(Convs) /\ IsInjective(openTabs') /\ Opened' = Opened \cup {c}
  BY <1>1, <1>2, OpenedMore
<1>4. /\ DOMAIN Saved = DOMAIN tabStates /\ \A d \in Convs : Cached(Saved, d) = View(d)
      /\ ~mixed => \A d \in Convs : \A m \in View(d) : m[1] = d
  BY SavedViews
<1>5. /\ DOMAIN tabStates' = DOMAIN tabStates \cup {c}
      /\ \A d \in Convs : Cached(tabStates', d) = IF d = c THEN cached ELSE Cached(Saved, d)
  <2>1. DOMAIN tabStates' = DOMAIN Saved \cup {c}
    BY <1>1 DEF Put
  <2>2. \A d \in Convs : Cached(tabStates', d) = IF d = c THEN cached ELSE Cached(Saved, d)
    BY <1>1, <2>1 DEF Put, Cached
  <2> QED
    BY <1>4, <2>1, <2>2
<1> HIDE DEF cached
<1>6. cached = View(c) /\ \A d \in Convs : Cached(tabStates', d) = View(d) /\ View(d)' = View(d)
  BY <1>1, <1>4, <1>5 DEF View, cached
<1>7. /\ NetType' /\ HistoriesInv' /\ Remains /\ \A d : Awaited(d) => Awaited(d)'
      /\ (\E f \in fetches' : f.c = c) \/ (socket = "open" => Awaited(c)')
      /\ \A f \in fetches : f \in fetches'
      /\ \A f \in fetches' : f \in fetches \/ (f \in Fetch /\ f.rows = {})
      /\ fetched' \in Nat
  <2>1. CASE fetches' = fetches \cup {[id |-> fetched, c |-> c, at |-> "asked", rows |-> {}]}
             /\ fetched' = fetched + 1 /\ UNCHANGED requests
    <3>1. NetType' /\ HistoriesInv' /\ Remains
      BY <1>1, <1>2, <2>1, SameWire
    <3>2. PICK f0 : f0 = [id |-> fetched, c |-> c, at |-> "asked", rows |-> {}]
      OBVIOUS
    <3>3. fetches' = fetches \cup {f0} /\ f0.c = c /\ f0.rows = {} /\ f0 \in Fetch
      BY <1>2, <2>1, <3>2 DEF TabsType, Fetch
    <3>4. fetched' \in Nat
      BY <1>2, <2>1 DEF TabsType
    <3>5. \A d : Awaited(d) => Awaited(d)'
      BY <1>1, <2>1 DEF Awaited
    <3> QED
      BY <2>1, <3>1, <3>3, <3>4, <3>5
  <2>2. CASE Join(c) /\ UNCHANGED <<fetches, fetched>>
    BY <1>1, <1>2, <2>2, JoinKeeps DEF TabsType
  <2> QED
    BY <1>1, <2>1, <2>2
<1>8. TabsType'
  <2>1. fetched' \in Nat /\ fetches' \subseteq Fetch /\ \A f \in fetches' : AboutOwn(f)
    BY <1>2, <1>7 DEF TabsType, AboutOwn
  <2> QED
    BY <1>1, <1>2, <1>3, <1>5, <2>1 DEF TabsType
<1>9. NoTabMixed' /\ Mirrored'
  <2>1. ~mixed' => \A m \in shown' : m[1] = currentConvId'
    BY <1>1, <1>4, <1>6
  <2>2. ~mixed' => \A d \in DOMAIN tabStates' : \A m \in tabStates'[d] : m[1] = d
    BY <1>1, <1>2, <1>4, <1>5, <1>6 DEF Cached, TabsType
  <2>3. \A m \in shown' : m \in Cached(tabStates', currentConvId')
    BY <1>1, <1>5
  <2> QED
    BY <2>1, <2>2, <2>3 DEF NoTabMixed, Mirrored
<1>10. OpenTabsJoined'
  BY <1>1, <1>2, <1>3, <1>7 DEF OpenTabsJoined
<1>11. ViewsInv'
  <2>1. ASSUME NEW d \in Opened', d # c PROVE d \in Opened /\ d \in Convs
    BY <1>2, <1>3, <2>1 DEF TabsType
  <2>2. Opened' \subseteq Convs
    BY <1>2, <1>3 DEF TabsType
  <2>3. (\E f \in fetches' : f.c = c) \/ (socket = "open" => Waits(c)')
    BY <1>7 DEF Waits
  <2>4. \A d \in Opened' : d # c => (\E f \in fetches' : f.c = d) \/ (\A f \in fetches : f.c # d)
    BY <1>7
  <2>5. \A d \in Opened' : d # c => d \in Opened /\ \A m \in View(d) : m \in View(d)'
    BY <1>6, <2>1
  <2> QED
    BY <1>1, <1>7, <2>2, <2>3, <2>4, <2>5, ViewsKeep
<1> QED
  BY <1>7, <1>8, <1>9, <1>10, <1>11 DEF TabsInv

LEMMA FetchReadKeeps == ASSUME TabsInv, NEW f \in fetches, FetchRead(f) PROVE TabsInv'
<1>1. PICK g : g = [f EXCEPT !.at = "read", !.rows = Page(f.c)]
  OBVIOUS
<1>2. fetches' = (fetches \ {f}) \cup {g} /\ UNCHANGED <<viewVars, fetched, netVars, mixed>>
  BY <1>1 DEF FetchRead
<1> USE DEF viewVars, netVars, connVars
<1>3. NetType' /\ HistoriesInv' /\ Remains
  BY <1>2, SameWire DEF TabsInv
<1>4. \A c : (\E e \in fetches : e.c = c) <=> (\E e \in fetches' : e.c = c)
  <2>1. g.c = f.c
    BY <1>1 DEF TabsInv, TabsType, Fetch
  <2> QED
    BY <1>2, <2>1
<1>5. TabsType'
  <2>1. g \in Fetch /\ AboutOwn(g)
    <3>1. f \in Fetch /\ stored \in [Convs -> Nat]
      BY DEF TabsInv, TabsType, NetType
    <3>2. Page(f.c) \in SUBSET (Convs \X Nat)
      BY <3>1 DEF Fetch, Rows, Page
    <3>3. g.c = f.c /\ g.rows = Page(f.c) /\ g \in Fetch
      BY <1>1, <3>1, <3>2 DEF Fetch
    <3> QED
      BY <3>3 DEF AboutOwn, Rows, Page
  <2> QED
    BY <1>2, <2>1 DEF TabsInv, TabsType, Opened
<1>6. NoTabMixed' /\ Mirrored' /\ OpenTabsJoined'
  BY <1>2, <1>4 DEF TabsInv, NoTabMixed, Mirrored, OpenTabsJoined, Opened, Cached, Awaited
<1>7. ViewsInv'
  <2>1. Opened' = Opened /\ Opened \subseteq Convs /\ \A d : View(d)' = View(d)
    BY <1>2 DEF Opened, View, Cached, TabsInv, TabsType
  <2>2. \A d : (\E e \in fetches' : e.c = d) \/ (\A e \in fetches : e.c # d)
    BY <1>4
  <2> QED
    BY <1>2, <1>3, <2>1, <2>2, ViewsKeep
<1> QED
  BY <1>3, <1>5, <1>6, <1>7 DEF TabsInv

\* The answer comes, or none
LEMMA FetchEndsKeeps == ASSUME TabsInv, NEW f \in fetches, Fetched(f) \/ FetchFails(f) PROVE TabsInv'
<1>1. PICK c \in Convs : c = f.c
  BY DEF TabsInv, TabsType, Fetch
<1>2. /\ fetches' = fetches \ {f} /\ Join(c)
      /\ UNCHANGED <<currentConvId, activeTab, openTabs, fetched, socket, drops, stored, joining, subscribed, turns,
                     wire, told>>
      /\ \/ /\ shown' = f.rows /\ tabStates' = Put(tabStates, c, f.rows)
            /\ mixed' = (mixed \/ currentConvId # c)
         \/ UNCHANGED <<shown, tabStates, mixed>>
  BY <1>1 DEF Fetched, FetchFails, viewVars, connVars
<1>3. NetType' /\ HistoriesInv' /\ Remains /\ (\A d : Awaited(d) => Awaited(d)')
      /\ (socket = "open" => Awaited(c)' /\ Waits(c)')
  BY <1>2, JoinKeeps DEF TabsInv, Waits
<1>4. \A e \in fetches : e \in fetches' \/ e.c = c
  BY <1>1, <1>2
<1>5. Opened' = Opened /\ Opened \subseteq Convs
  BY <1>2 DEF Opened, TabsInv, TabsType
<1>6. \A m \in f.rows : m[1] = c
  BY <1>1 DEF TabsInv, TabsType, AboutOwn
<1>7. CASE /\ shown' = f.rows /\ tabStates' = Put(tabStates, c, f.rows)
           /\ mixed' = (mixed \/ currentConvId # c)
  <2>1. DOMAIN tabStates' = DOMAIN tabStates \cup {c}
    BY <1>7 DEF Put
  <2>2. \A d : Cached(tabStates', d) = IF d = c THEN f.rows ELSE Cached(tabStates, d)
    BY <1>7, <2>1 DEF Put, Cached
  <2>3. TabsType'
    BY <1>2, <1>5, <2>1 DEF TabsInv, TabsType
  <2>4. ~mixed' => currentConvId' = c
    BY <1>2, <1>7
  <2>5. NoTabMixed' /\ Mirrored'
    <3>1. ~mixed' => ~mixed
      BY <1>7
    <3>2. ~mixed' => \A m \in shown' : m[1] = currentConvId'
      BY <1>6, <1>7, <2>4
    <3>3. ~mixed' => \A d \in DOMAIN tabStates' : \A m \in tabStates'[d] : m[1] = d
      BY <1>6, <2>1, <2>2, <3>1 DEF TabsInv, NoTabMixed, Cached
    <3>4. ~mixed' => \A m \in shown' : m \in Cached(tabStates', currentConvId')
      BY <1>7, <2>2, <2>4
    <3> QED
      BY <3>2, <3>3, <3>4 DEF NoTabMixed, Mirrored
  <2>6. OpenTabsJoined'
    BY <1>2, <1>3, <1>4, <1>5 DEF TabsInv, OpenTabsJoined
  <2>7. ~mixed' => \A d : d # c => View(d)' = View(d)
    BY <1>2, <1>7, <2>2, <2>4 DEF View
  <2>8. \A d \in Opened' : d # c /\ ~mixed' =>
          (\E e \in fetches' : e.c = d) \/ (\A e \in fetches : e.c # d)
    BY <1>4
  <2>9. mixed => mixed'
    BY <1>7
  <2>10. ViewsInv'
    BY <1>2, <1>3, <1>5, <2>7, <2>8, <2>9, ViewsKeep
  <2> QED
    BY <1>3, <2>3, <2>5, <2>6, <2>10 DEF TabsInv
<1>8. CASE UNCHANGED <<shown, tabStates, mixed>>
  <2>1. TabsType'
    BY <1>2, <1>5, <1>8 DEF TabsInv, TabsType
  <2>2. NoTabMixed' /\ Mirrored'
    BY <1>2, <1>8 DEF TabsInv, NoTabMixed, Mirrored
  <2>3. OpenTabsJoined'
    BY <1>2, <1>3, <1>4, <1>5 DEF TabsInv, OpenTabsJoined
  <2>4. \A d : View(d)' = View(d)
    BY <1>2, <1>8 DEF View
  <2>5. \A d \in Opened' : d # c => (\E e \in fetches' : e.c = d) \/ (\A e \in fetches : e.c # d)
    BY <1>4
  <2>6. ViewsInv'
    BY <1>2, <1>3, <1>5, <1>8, <2>4, <2>5, ViewsKeep
  <2> QED
    BY <1>3, <2>1, <2>2, <2>3, <2>6 DEF TabsInv
<1> QED
  BY <1>2, <1>7, <1>8

\* Some tabs in their order; all n tabs but the i-th
Part(a, tabs, from, len) == a \in Seq(Convs) /\ Len(a) = len /\ \A j \in 1..len : a[j] = tabs[from + j]
AllBut(rest, tabs, n, i) ==
  DOMAIN rest = 1..(n - 1) /\ \A j \in 1..(n - 1) : rest[j] = tabs[IF j < i THEN j ELSE j + 1]

\* The elements of rest are those of tabs but e
Lacks(rest, tabs, e) ==
  \A c : (\E j \in DOMAIN rest : rest[j] = c) <=> c # e /\ \E j \in DOMAIN tabs : tabs[j] = c

\* What two parts of the tabs are together
LEMMA Joined ==
  ASSUME NEW n \in Nat, NEW i \in 1..n, NEW tabs,
         NEW a, Part(a, tabs, 0, i - 1), NEW b, Part(b, tabs, i, n - i)
  PROVE  a \o b \in Seq(Convs) /\ AllBut(a \o b, tabs, n, i)
<1>0. /\ a \in Seq(Convs) /\ b \in Seq(Convs) /\ Len(a) = i - 1 /\ Len(b) = n - i
      /\ \A j \in 1..(i - 1) : a[j] = tabs[j]
      /\ \A j \in 1..(n - i) : b[j] = tabs[i + j]
  BY DEF Part
<1>1. /\ a \o b \in Seq(Convs) /\ Len(a \o b) = Len(a) + Len(b)
      /\ \A j \in 1..(Len(a) + Len(b)) : (a \o b)[j] = IF j <= Len(a) THEN a[j] ELSE b[j - Len(a)]
  BY <1>0, ConcatProperties
<1>2. Len(a) + Len(b) = n - 1
  BY <1>0
<1>3. Len(a \o b) = n - 1
  BY <1>1, <1>2
<1>4. DOMAIN (a \o b) = 1..(n - 1)
  BY <1>1, <1>3, LenProperties
<1>5. ASSUME NEW j \in 1..(n - 1) PROVE (a \o b)[j] = tabs[IF j < i THEN j ELSE j + 1]
  <2>1. (a \o b)[j] = IF j <= i - 1 THEN a[j] ELSE b[j - (i - 1)]
    BY <1>0, <1>1, <1>2
  <2>2. CASE j < i
    <3>1. j <= i - 1 /\ j \in 1..(i - 1)
      BY <2>2
    <3> QED
      BY <1>0, <2>1, <2>2, <3>1
  <2>3. CASE ~(j < i)
    <3>1. ~(j <= i - 1) /\ j - (i - 1) \in 1..(n - i) /\ i + (j - (i - 1)) = j + 1
      BY <2>3
    <3> QED
      BY <1>0, <2>1, <2>3, <3>1
  <2> QED
    BY <2>2, <2>3
<1> QED
  BY <1>1, <1>4, <1>5 DEF AllBut

\* Without its i-th place a list without repetition lacks that element alone
LEMMA Without ==
  ASSUME NEW tabs, NEW rest, NEW n \in Nat, NEW i \in 1..n, IsInjective(tabs),
         DOMAIN tabs = 1..n, AllBut(rest, tabs, n, i)
  PROVE  IsInjective(rest) /\ Lacks(rest, tabs, tabs[i])
<1> DEFINE At(j) == IF j < i THEN j ELSE j + 1
<1>1. \A j \in 1..(n - 1) : At(j) \in (1..n) \ {i}
  OBVIOUS
<1>2. \A j, k \in 1..(n - 1) : At(j) = At(k) => j = k
  OBVIOUS
<1>3. DOMAIN rest = 1..(n - 1) /\ \A j \in 1..(n - 1) : rest[j] = tabs[At(j)]
  BY DEF AllBut
<1>4. ASSUME NEW k \in (1..n) \ {i} PROVE \E j \in 1..(n - 1) : At(j) = k
  <2>1. CASE k < i
    <3>1. k \in 1..(n - 1) /\ At(k) = k
      BY <2>1
    <3> QED
      BY <3>1
  <2>2. CASE k > i
    <3>1. k - 1 \in 1..(n - 1) /\ At(k - 1) = k
      BY <2>2
    <3> QED
      BY <3>1
  <2> QED
    BY <2>1, <2>2
<1> HIDE DEF At
<1>5. IsInjective(rest)
  BY <1>1, <1>2, <1>3 DEF IsInjective
<1>6. ASSUME NEW c, NEW j \in DOMAIN rest, rest[j] = c
      PROVE c # tabs[i] /\ \E k \in DOMAIN tabs : tabs[k] = c
  <2>1. At(j) \in DOMAIN tabs /\ At(j) # i /\ i \in DOMAIN tabs /\ c = tabs[At(j)]
    BY <1>1, <1>3, <1>6
  <2> QED
    BY <2>1 DEF IsInjective
<1>7. ASSUME NEW c, c # tabs[i], NEW k \in DOMAIN tabs, tabs[k] = c PROVE \E j \in DOMAIN rest : rest[j] = c
  <2>1. PICK j \in 1..(n - 1) : At(j) = k
    BY <1>4, <1>7
  <2> QED
    BY <1>3, <1>7, <2>1
<1> QED
  BY <1>5, <1>6, <1>7 DEF Lacks

\* The open tabs without one of them
LEMMA TheRest ==
  ASSUME NEW tabs \in Seq(Convs), IsInjective(tabs), NEW i \in DOMAIN tabs, NEW rest,
         rest = SubSeq(tabs, 1, i - 1) \o SubSeq(tabs, i + 1, Len(tabs))
  PROVE  rest \in Seq(Convs) /\ IsInjective(rest) /\ Lacks(rest, tabs, tabs[i])
<1>1. PICK n \in Nat : n = Len(tabs) /\ DOMAIN tabs = 1..n /\ i \in 1..n /\ \A j \in 1..n : tabs[j] \in Convs
  BY LenProperties
<1>2. PICK p \in 1..n : p = i
  BY <1>1
<1>3. PICK a, b : a = SubSeq(tabs, 1, p - 1) /\ b = SubSeq(tabs, p + 1, n)
  OBVIOUS
<1>4. Part(a, tabs, 0, p - 1)
  <2>1. 1 \in Int /\ p - 1 \in Int /\ \A j \in 1..(p - 1) : tabs[j] \in Convs
    BY <1>1
  <2>2. /\ a \in Seq(Convs) /\ Len(a) = IF 1 <= p - 1 THEN p - 1 - 1 + 1 ELSE 0
        /\ \A j \in 1..(p - 1 - 1 + 1) : a[j] = tabs[1 + j - 1]
    BY <1>3, <2>1, SubSeqProperties
  <2>3. p \in Nat /\ p - 1 - 1 + 1 = p - 1 /\ \A j \in 1..(p - 1) : 1 + j - 1 = 0 + j
    BY <1>1
  <2> QED
    BY <1>1, <2>2, <2>3 DEF Part
<1>5. Part(b, tabs, p, n - p)
  <2>1. p + 1 \in Int /\ n \in Int /\ \A j \in (p + 1)..n : tabs[j] \in Convs
    BY <1>1
  <2>2. /\ b \in Seq(Convs) /\ Len(b) = IF p + 1 <= n THEN n - (p + 1) + 1 ELSE 0
        /\ \A j \in 1..(n - (p + 1) + 1) : b[j] = tabs[p + 1 + j - 1]
    BY <1>3, <2>1, SubSeqProperties
  <2>3. p \in Nat /\ n - (p + 1) + 1 = n - p /\ \A j \in 1..(n - p) : p + 1 + j - 1 = p + j
    BY <1>1
  <2> QED
    <3>1. Len(b) = n - p
      BY <1>1, <2>2, <2>3
    <3>2. \A j \in 1..(n - p) : b[j] = tabs[p + j]
      BY <2>2, <2>3
    <3> QED
      BY <2>2, <3>1, <3>2 DEF Part
<1>6. rest = a \o b
  BY <1>1, <1>2, <1>3
<1>7. rest \in Seq(Convs) /\ AllBut(rest, tabs, n, p)
  BY <1>4, <1>5, <1>6, Joined
<1>8. DOMAIN tabs = 1..n
  BY <1>1
<1>9. IsInjective(rest) /\ Lacks(rest, tabs, tabs[p])
  BY <1>7, <1>8, Without
<1> QED
  BY <1>2, <1>7, <1>9

LEMMA CloseTabKeeps == ASSUME TabsInv, NEW i \in DOMAIN openTabs, CloseTab(i) PROVE TabsInv'
<1> DEFINE c == openTabs[i]
           next == CASE activeTab # c                     -> activeTab
                     [] activeTab = c /\ openTabs' = <<>> -> NoTab
                     [] OTHER                             -> openTabs'[IF i <= Len(openTabs') THEN i ELSE Len(openTabs')]
<1>1. /\ openTabs' = SubSeq(openTabs, 1, i - 1) \o SubSeq(openTabs, i + 1, Len(openTabs))
      /\ tabStates' = [d \in DOMAIN tabStates \ {c} |-> tabStates[d]]
      /\ activeTab' = next /\ currentConvId' = next /\ shown' = Cached(tabStates', next)
      /\ UNCHANGED <<fetches, fetched, socket, drops, stored, requests, joining, subscribed, turns, wire, told, mixed>>
  BY DEF CloseTab, netVars, connVars
<1>2. openTabs \in Seq(Convs) /\ IsInjective(openTabs)
  BY DEF TabsInv, TabsType
<1>3. PICK tabs \in Seq(Convs) : tabs = openTabs
  BY <1>2
<1>4. PICK rest : rest = openTabs'
  OBVIOUS
<1>5. i \in DOMAIN tabs /\ IsInjective(tabs)
      /\ rest = SubSeq(tabs, 1, i - 1) \o SubSeq(tabs, i + 1, Len(tabs))
  BY <1>1, <1>2, <1>3, <1>4
<1>6. rest \in Seq(Convs) /\ IsInjective(rest) /\ Lacks(rest, tabs, tabs[i])
  BY <1>5, TheRest
<1>7. Opened' = Opened \ {c}
  <2>1. \A d : d \in Opened' <=> \E j \in DOMAIN rest : rest[j] = d
    BY <1>4 DEF Opened
  <2>2. \A d : d \in Opened <=> \E j \in DOMAIN tabs : tabs[j] = d
    BY <1>3 DEF Opened
  <2>3. c = tabs[i]
    BY <1>3
  <2> QED
    BY <1>6, <2>1, <2>2, <2>3 DEF Lacks
<1>8. next \in Opened' \cup {NoTab}
  <2>1. CASE activeTab # c
    BY <1>7, <2>1 DEF TabsInv, TabsType
  <2>2. CASE activeTab = c /\ openTabs' = <<>>
    BY <2>2
  <2>3. CASE activeTab = c /\ openTabs' # <<>>
    <3>1. Len(rest) \in Nat /\ DOMAIN rest = 1..Len(rest) /\ rest # <<>>
      BY <1>4, <1>6, <2>3, LenProperties
    <3>2. Len(rest) # 0
      BY <1>6, <3>1, EmptySeq
    <3>3. PICK p \in Nat : p = i /\ p # 0
      BY <1>2, LenProperties
    <3>4. PICK k \in DOMAIN rest : k = IF p <= Len(rest) THEN p ELSE Len(rest)
      BY <3>1, <3>2, <3>3
    <3>5. next = rest[k]
      BY <1>4, <2>3, <3>3, <3>4
    <3> QED
      BY <1>4, <3>5 DEF Opened
  <2> QED
    BY <2>1, <2>2, <2>3
<1>9. DOMAIN tabStates' = DOMAIN tabStates \ {c}
      /\ \A d : d # c => Cached(tabStates', d) = Cached(tabStates, d)
  <2>1. DOMAIN tabStates' = DOMAIN tabStates \ {c}
    BY <1>1
  <2> HIDE DEF c
  <2> QED
    BY <1>1, <2>1 DEF Cached
<1> HIDE DEF next, c
<1>10. NetType' /\ HistoriesInv' /\ Remains
  BY <1>1, SameWire DEF TabsInv
<1>11. TabsType'
  BY <1>1, <1>4, <1>6, <1>7, <1>8, <1>9 DEF TabsInv, TabsType
<1>12. NoTabMixed' /\ Mirrored'
  <2>1. ~mixed' => \A d \in DOMAIN tabStates' : \A m \in tabStates'[d] : m[1] = d
    BY <1>1, <1>9 DEF TabsInv, NoTabMixed, Cached
  <2>2. ~mixed' => \A m \in shown' : m[1] = currentConvId'
    BY <1>1, <2>1 DEF Cached
  <2> QED
    BY <1>1, <2>1, <2>2 DEF NoTabMixed, Mirrored
<1>13. OpenTabsJoined'
  BY <1>1, <1>7 DEF TabsInv, OpenTabsJoined, Awaited
<1>14. ViewsInv'
  <2>1. ASSUME NEW d \in Opened', ~mixed' PROVE d \in Opened /\ \A m \in View(d) : m \in View(d)' \/ m = Temp(d)
    <3>1. d \in Opened /\ d # c /\ d \in Convs
      BY <1>7 DEF TabsInv, TabsType, Opened
    <3>2. View(d)' = Cached(tabStates, d)
      BY <1>1, <1>9, <3>1 DEF View
    <3>3. d # NoTab
      BY <3>1, TabsAssumption DEF NoTab
    <3> QED
      BY <1>1, <2>1, <3>1, <3>2, <3>3 DEF TabsInv, Mirrored, View
  <2>2. \A d \in Opened' : (\E f \in fetches' : f.c = d) \/ (\A f \in fetches : f.c # d)
    BY <1>1
  <2>3. Opened' \subseteq Convs
    BY <1>7 DEF TabsInv, TabsType
  <2> QED
    BY <1>1, <1>10, <2>1, <2>2, <2>3, ViewsKeep
<1> QED
  BY <1>10, <1>11, <1>12, <1>13, <1>14 DEF TabsInv

LEMMA SwitchTabKeeps == ASSUME TabsInv, NEW c \in Convs, SwitchTab(c) PROVE TabsInv'
<1>1. /\ c \in Opened /\ c # currentConvId /\ activeTab' = c /\ currentConvId' = c
      /\ tabStates' = Saved /\ shown' = Cached(Saved, c)
      /\ UNCHANGED <<openTabs, fetches, fetched, socket, drops, stored, requests, joining, subscribed, turns, wire,
                     told, mixed>>
  BY DEF SwitchTab, netVars, connVars
<1>2. /\ DOMAIN Saved = DOMAIN tabStates /\ \A d \in Convs : Cached(Saved, d) = View(d)
      /\ ~mixed => \A d \in Convs : \A m \in View(d) : m[1] = d
  BY SavedViews
<1>3. \A d \in Convs : View(d)' = View(d)
  BY <1>1, <1>2 DEF View
<1>4. NetType' /\ HistoriesInv' /\ Remains
  BY <1>1, SameWire DEF TabsInv
<1>5. Opened' = Opened /\ Opened \subseteq Convs
  BY <1>1 DEF Opened, TabsInv, TabsType
<1>6. TabsType'
  BY <1>1, <1>2, <1>5 DEF TabsInv, TabsType
<1>7. NoTabMixed' /\ Mirrored'
  <2>1. ~mixed' => \A m \in shown' : m[1] = currentConvId'
    BY <1>1, <1>2
  <2>2. ~mixed' => \A d \in DOMAIN tabStates' : \A m \in tabStates'[d] : m[1] = d
    BY <1>1, <1>2 DEF Cached, TabsInv, TabsType
  <2> QED
    BY <1>1, <2>1, <2>2 DEF NoTabMixed, Mirrored
<1>8. OpenTabsJoined'
  BY <1>1, <1>5 DEF TabsInv, OpenTabsJoined, Awaited
<1>9. ViewsInv'
  <2>1. \A d \in Opened' : (\E f \in fetches' : f.c = d) \/ (\A f \in fetches : f.c # d)
    BY <1>1
  <2> QED
    BY <1>1, <1>3, <1>4, <1>5, <2>1, ViewsKeep
<1> QED
  BY <1>4, <1>6, <1>7, <1>8, <1>9 DEF TabsInv

LEMMA ArchiveKeeps == ASSUME TabsInv, Archive PROVE TabsInv'
<1>1. /\ currentConvId # NoTab /\ currentConvId' = NoTab /\ shown' = {}
      /\ UNCHANGED <<activeTab, openTabs, tabStates, fetches, fetched, socket, drops, stored, requests, joining,
                     subscribed, turns, wire, told, mixed>>
  BY DEF Archive, netVars, connVars
<1>2. NetType' /\ HistoriesInv' /\ Remains
  BY <1>1, SameWire DEF TabsInv
<1>3. TabsType'
  BY <1>1 DEF TabsInv, TabsType, Opened
<1>4. NoTabMixed' /\ Mirrored' /\ OpenTabsJoined'
  BY <1>1 DEF TabsInv, NoTabMixed, Mirrored, OpenTabsJoined, Opened, Awaited
<1>5. Opened' = Opened /\ Opened \subseteq Convs /\ \A d \in Opened : d # NoTab
  BY <1>1, TabsAssumption DEF TabsInv, TabsType, Opened, NoTab
<1>6. \A d \in Opened' : ~mixed' => \A m \in View(d) : m \in View(d)' \/ m = Temp(d)
  BY <1>1, <1>5 DEF TabsInv, Mirrored, View, Cached
<1>7. \A d \in Opened' : (\E f \in fetches' : f.c = d) \/ (\A f \in fetches : f.c # d)
  BY <1>1
<1>8. ViewsInv'
  BY <1>1, <1>2, <1>5, <1>6, <1>7, ViewsKeep
<1> QED
  BY <1>2, <1>3, <1>4, <1>8 DEF TabsInv

-----------------------------------------------------------------------------
(* The messages and the socket *)

\* Requests are taken: the history is read and sent, a text is stored
LEMMA JoinReadKeeps == ASSUME TabsInv, JoinRead PROVE TabsInv'
<1>1. PICK q : q = Head(requests)
  OBVIOUS
<1>2. PICK j : j = [c |-> q.c, rows |-> Page(q.c)]
  OBVIOUS
<1>3. /\ requests # <<>> /\ q.t = "join" /\ subscribed' = subscribed \cup {q.c} /\ joining = {} /\ joining' = {j}
      /\ requests' = Tail(requests)
      /\ UNCHANGED <<viewVars, fetches, fetched, socket, drops, stored, turns, wire, told, mixed>>
  BY <1>1, <1>2 DEF JoinRead
<1> USE DEF viewVars
<1>4. /\ NetType /\ requests' \in Seq(ClientEvent) /\ q \in ClientEvent /\ socket = "open"
      /\ \A k \in DOMAIN requests : requests[k] = q \/ \E l \in DOMAIN requests' : requests'[l] = requests[k]
  BY <1>1, <1>3, OneRequestLess DEF TabsInv
<1>5. q.c \in Convs
  BY <1>4 DEF ClientEvent
<1>6. j.c = q.c /\ j.rows \subseteq Rows(j.c) /\ j \in ReadJoin
  BY <1>2, <1>4, <1>5 DEF Rows, Page, NetType, ReadJoin
<1>7. NetType'
  BY <1>3, <1>4, <1>5, <1>6 DEF NetType, Rows
<1>8. \A d : Awaited(d) => Awaited(d)'
  <2> SUFFICES ASSUME NEW d, Awaited(d) PROVE Awaited(d)'
    OBVIOUS
  <2>1. PICK k \in DOMAIN requests : requests[k] = ToServer("join", d)
    BY <1>3 DEF Awaited
  <2>2. CASE requests[k] = q
    <3>1. q.c = d
      BY <2>1, <2>2 DEF ToServer
    <3> QED
      BY <1>3, <1>6, <3>1 DEF Awaited
  <2>3. CASE \E l \in DOMAIN requests' : requests'[l] = requests[k]
    BY <2>1, <2>3 DEF Awaited
  <2> QED
    BY <1>4, <2>2, <2>3
<1>9. HistoriesInv'
  BY <1>3 DEF TabsInv, HistoriesInv, LastHistory, IsHistory, ToldAfter
<1>10. Remains
  BY <1>3, <1>8 DEF Remains, Waits, IsHistory, ToldAfter
<1>11. Opened' = Opened /\ Opened \subseteq Convs /\ \A d : View(d)' = View(d)
  BY <1>3 DEF Opened, View, Cached, TabsInv, TabsType
<1>12. TabsType' /\ NoTabMixed' /\ Mirrored'
  BY <1>3 DEF TabsInv, TabsType, NoTabMixed, Mirrored, Opened, Cached, Temp
<1>13. OpenTabsJoined'
  BY <1>3, <1>8, <1>11 DEF TabsInv, OpenTabsJoined
<1>14. ViewsInv'
  <2>1. \A d \in Opened' : (\E f \in fetches' : f.c = d) \/ (\A f \in fetches : f.c # d)
    BY <1>3
  <2> QED
    BY <1>3, <1>10, <1>11, <2>1, ViewsKeep
<1> QED
  BY <1>7, <1>9, <1>12, <1>13, <1>14 DEF TabsInv

LEMMA HistorySentKeeps == ASSUME TabsInv, NEW j \in joining, HistorySent(j) PROVE TabsInv'
<1> DEFINE e == [t |-> "history", c |-> j.c, user |-> FALSE, rows |-> j.rows]
<1>1. /\ joining' = joining \ {j} /\ wire' = Append(wire, e) /\ told' = [told EXCEPT ![j.c] = j.rows]
      /\ UNCHANGED <<viewVars, fetches, fetched, socket, drops, stored, requests, subscribed, turns, mixed>>
  BY DEF HistorySent
<1> USE DEF viewVars
<1>2. /\ NetType /\ j \in ReadJoin /\ j.c \in Convs /\ j.rows \subseteq Rows(j.c) /\ j.c \in subscribed
      /\ j.rows \in SUBSET (Convs \X Nat)
  BY DEF TabsInv, NetType, ReadJoin
<1>3. e \in ServerEvent /\ AboutOwn(e)
  BY <1>2 DEF ServerEvent, AboutOwn, Rows
<1>4. e.t = "history" /\ e.c = j.c /\ e.rows = j.rows
  OBVIOUS
<1> HIDE DEF e
<1>5. /\ wire' \in Seq(ServerEvent) /\ \A k \in DOMAIN wire' : AboutOwn(wire'[k])
      /\ Len(wire) + 1 \in DOMAIN wire' /\ wire'[Len(wire) + 1] = e
      /\ \A k \in DOMAIN wire : k \in DOMAIN wire' /\ wire'[k] = wire[k] /\ k < Len(wire) + 1
      /\ \A k \in DOMAIN wire' : k \in DOMAIN wire \/ k = Len(wire) + 1
  BY <1>1, <1>2, <1>3, OneMoreEvent
<1>6. /\ told' \in [Convs -> SUBSET (Convs \X Nat)] /\ told'[j.c] = j.rows
      /\ \A d \in Convs : d # j.c => told'[d] = told[d]
  BY <1>1, <1>2 DEF NetType
<1>7. NetType'
  <2>1. \A d \in Convs : told'[d] \subseteq Rows(d)'
    BY <1>1, <1>2, <1>6 DEF NetType, Rows
  <2>2. socket # "closed"
    BY <1>2 DEF NetType
  <2>3. \A i \in joining' : i \in ReadJoin /\ i.rows \subseteq Rows(i.c)' /\ i.c \in subscribed'
    BY <1>1 DEF TabsInv, NetType, Rows
  <2> QED
    BY <1>1, <1>2, <1>5, <1>6, <2>1, <2>2, <2>3 DEF NetType
<1>8. \A m, k : ToldAfter(m, k) => ToldAfter(m, k)'
  BY <1>5 DEF ToldAfter
<1>9. PICK n : n = Len(wire) + 1 /\ n \in DOMAIN wire' /\ IsHistory(n, j.c)' /\ \A k \in DOMAIN wire : k < n
  BY <1>4, <1>5 DEF IsHistory
<1>10. \A d : \A k \in DOMAIN wire : IsHistory(k, d)' <=> IsHistory(k, d)
  BY <1>5 DEF IsHistory
<1>11. HistoriesInv'
  <2> SUFFICES ASSUME NEW d \in Convs, NEW k \in DOMAIN wire', LastHistory(k, d)', NEW m \in told'[d]
               PROVE  m \in wire'[k].rows \/ ToldAfter(m, k)'
    BY DEF HistoriesInv
  <2>1. CASE d = j.c
    <3>1. k = Len(wire) + 1
      BY <1>5, <1>9, <2>1 DEF LastHistory
    <3> QED
      BY <1>4, <1>5, <1>6, <2>1, <3>1
  <2>2. CASE d # j.c
    <3>1. k \in DOMAIN wire /\ wire'[k] = wire[k]
      BY <1>4, <1>5, <2>2 DEF LastHistory, IsHistory
    <3>2. LastHistory(k, d)
      BY <1>5, <1>10, <3>1 DEF LastHistory
    <3> QED
      BY <1>6, <1>8, <2>2, <3>1, <3>2 DEF TabsInv, HistoriesInv
  <2> QED
    BY <2>1, <2>2
<1>12. \A d : d # j.c => (Awaited(d) => Awaited(d)')
  BY <1>1 DEF Awaited
<1>13. Opened' = Opened /\ Opened \subseteq Convs /\ \A d : View(d)' = View(d)
  BY <1>1 DEF Opened, View, Cached, TabsInv, TabsType
<1>14. TabsType' /\ NoTabMixed' /\ Mirrored'
  BY <1>1 DEF TabsInv, TabsType, NoTabMixed, Mirrored, Opened, Cached, Temp
<1>15. OpenTabsJoined'
  BY <1>1, <1>2, <1>12, <1>13 DEF TabsInv, OpenTabsJoined
<1>16. ViewsInv'
  <2> SUFFICES ASSUME socket' = "open", ~mixed', NEW d \in Opened', \A f \in fetches' : f.c # d,
                      ~Waits(d)', NEW m \in told'[d]
               PROVE  (m \in View(d) \/ ToldAfter(m, 0))'
    BY DEF ViewsInv
  <2>1. d # j.c
    BY <1>5, <1>9 DEF Waits
  <2>2. ~Waits(d)
    BY <1>5, <1>10, <1>12, <2>1 DEF Waits
  <2>3. m \in told[d] /\ d \in Opened
    BY <1>6, <1>13, <2>1
  <2>4. m \in View(d) \/ ToldAfter(m, 0)
    BY <1>1, <2>2, <2>3 DEF TabsInv, ViewsInv
  <2> QED
    BY <1>8, <1>13, <2>4
<1> QED
  BY <1>7, <1>11, <1>14, <1>15, <1>16 DEF TabsInv

\* The head of the requests is a text: those that wait for a history still do
LEMMA TextLess ==
  ASSUME NetType, requests # <<>>, Head(requests).t = "text", requests' = Tail(requests), UNCHANGED joining
  PROVE  /\ requests' \in Seq(ClientEvent) /\ Head(requests).c \in Convs /\ socket = "open"
         /\ \A d : Awaited(d) => Awaited(d)'
<1>1. PICK q : q = Head(requests)
  OBVIOUS
<1>2. /\ requests' \in Seq(ClientEvent) /\ q \in ClientEvent /\ socket = "open"
      /\ \A k \in DOMAIN requests : requests[k] = q \/ \E l \in DOMAIN requests' : requests'[l] = requests[k]
  BY <1>1, OneRequestLess
<1>3. \A d : q # ToServer("join", d)
  BY <1>1 DEF ToServer
<1>4. \A d : Awaited(d) => Awaited(d)'
  BY <1>2, <1>3 DEF Awaited
<1> QED
  BY <1>1, <1>2, <1>4 DEF ClientEvent

LEMMA TextTakenKeeps == ASSUME TabsInv, TextTaken PROVE TabsInv'
<1>1. PICK c : c = Head(requests).c
  OBVIOUS
<1>2. /\ requests # <<>> /\ Head(requests).t = "text" /\ requests' = Tail(requests) /\ turns' = turns \cup {c}
      /\ Store(c, TRUE, TRUE)
      /\ UNCHANGED <<viewVars, fetches, fetched, socket, drops, joining, subscribed, mixed>>
  BY <1>1 DEF TextTaken
<1>3. NetType
  BY DEF TabsInv
<1>4. requests' \in Seq(ClientEvent) /\ c \in Convs /\ socket = "open" /\ \A d : Awaited(d) => Awaited(d)'
  BY <1>1, <1>2, <1>3, TextLess
<1>5. turns' \subseteq Convs
  BY <1>2, <1>3, <1>4 DEF NetType
<1> QED
  BY <1>2, <1>4, <1>5, StoreKeeps

LEMMA TextRefusedKeeps == ASSUME TabsInv, TextRefused PROVE TabsInv'
<1>1. /\ requests # <<>> /\ Head(requests).t = "text" /\ requests' = Tail(requests)
      /\ UNCHANGED <<viewVars, fetches, fetched, socket, drops, stored, joining, subscribed, turns, wire, told, mixed>>
  BY DEF TextRefused, connVars
<1> USE DEF viewVars
<1>2. NetType
  BY DEF TabsInv
<1>3. requests' \in Seq(ClientEvent) /\ socket = "open" /\ \A d : Awaited(d) => Awaited(d)'
  BY <1>1, <1>2, TextLess
<1>4. NetType'
  BY <1>1, <1>2, <1>3 DEF NetType, Rows
<1>5. HistoriesInv'
  BY <1>1 DEF TabsInv, HistoriesInv, LastHistory, IsHistory, ToldAfter
<1>6. Remains
  BY <1>1, <1>3 DEF Remains, Waits, IsHistory, ToldAfter
<1>7. Opened' = Opened /\ Opened \subseteq Convs /\ \A d : View(d)' = View(d)
  BY <1>1 DEF Opened, View, Cached, TabsInv, TabsType
<1>8. TabsType' /\ NoTabMixed' /\ Mirrored'
  BY <1>1 DEF TabsInv, TabsType, NoTabMixed, Mirrored, Opened, Cached, Temp
<1>9. OpenTabsJoined'
  BY <1>1, <1>3, <1>7 DEF TabsInv, OpenTabsJoined
<1>10. ViewsInv'
  <2>1. \A d \in Opened' : (\E f \in fetches' : f.c = d) \/ (\A f \in fetches : f.c # d)
    BY <1>1
  <2> QED
    BY <1>1, <1>6, <1>7, <2>1, ViewsKeep
<1> QED
  BY <1>4, <1>5, <1>8, <1>9, <1>10 DEF TabsInv

\* A message that is stored while the requests stay
LEMMA MessageKeeps ==
  ASSUME TabsInv, NEW c \in Convs, TurnMessage(c) \/ BroadcastMessage(c) \/ MessageFromElsewhere(c)
  PROVE  TabsInv'
<1>1. /\ requests \in Seq(ClientEvent) /\ turns \subseteq Convs /\ (socket = "closed" => requests = <<>> /\ turns = {})
      /\ (c \in turns \/ c \in subscribed => socket = "open")
  BY DEF TabsInv, NetType
<1>2. PICK user \in BOOLEAN, heard \in BOOLEAN : Store(c, user, heard) /\ (heard => c \in turns \/ c \in subscribed)
  <2>1. CASE TurnMessage(c)
    BY <2>1 DEF TurnMessage
  <2>2. CASE BroadcastMessage(c)
    <3>1. PICK user \in BOOLEAN : Store(c, user, c \in subscribed)
      BY <2>2 DEF BroadcastMessage
    <3>2. CASE c \in subscribed
      <4>1. Store(c, user, TRUE)
        BY <3>1, <3>2 DEF Store
      <4> QED
        BY <3>2, <4>1
    <3>3. CASE c \notin subscribed
      <4>1. Store(c, user, FALSE)
        BY <3>1, <3>3 DEF Store
      <4> QED
        BY <4>1
    <3> QED
      BY <3>2, <3>3
  <2>3. CASE MessageFromElsewhere(c)
    BY <2>3 DEF MessageFromElsewhere
  <2> QED
    BY <2>1, <2>2, <2>3
<1>3. UNCHANGED <<viewVars, fetches, fetched, socket, drops, requests, joining, subscribed, turns, mixed>>
  BY DEF TurnMessage, BroadcastMessage, MessageFromElsewhere
<1>4. \A d : Awaited(d) => Awaited(d)'
  BY <1>3 DEF Awaited
<1> QED
  BY <1>1, <1>2, <1>3, <1>4, StoreKeeps

LEMMA SendTextKeeps == ASSUME TabsInv, SendText PROVE TabsInv'
<1>1. PICK c : c = currentConvId
  OBVIOUS
<1>2. PICK t \in {"join", "text"} : t = "text"
  OBVIOUS
<1>3. /\ c # NoTab /\ shown' = shown \cup {Temp(c)} /\ Send(ToServer(t, c))
      /\ UNCHANGED <<currentConvId, activeTab, openTabs, tabStates, fetches, fetched, socket, drops, stored,
                     joining, subscribed, turns, wire, told, mixed>>
  BY <1>1, <1>2 DEF SendText, connVars
<1>4. c \in Convs
  BY <1>1, <1>3 DEF TabsInv, TabsType
<1>5. NetType' /\ HistoriesInv' /\ Remains /\ \A d : Awaited(d) => Awaited(d)'
  BY <1>3, <1>4, SendingKeeps DEF TabsInv
<1>6. TabsType' /\ OpenTabsJoined' /\ Opened' = Opened /\ Opened \subseteq Convs
  BY <1>3, <1>5 DEF TabsInv, TabsType, OpenTabsJoined, Opened
<1>7. NoTabMixed' /\ Mirrored'
  BY <1>1, <1>3 DEF TabsInv, NoTabMixed, Mirrored, Temp, Cached
<1>8. ViewsInv'
  <2>1. \A d : \A m \in View(d) : m \in View(d)'
    BY <1>3 DEF View, Cached
  <2>2. \A d \in Opened' : (\E f \in fetches' : f.c = d) \/ (\A f \in fetches : f.c # d)
    BY <1>3
  <2> QED
    BY <1>3, <1>5, <1>6, <2>1, <2>2, ViewsKeep
<1> QED
  BY <1>5, <1>6, <1>7, <1>8 DEF TabsInv

LEMMA LoseSocketKeeps == ASSUME TabsInv, LoseSocket PROVE TabsInv'
<1>1. /\ socket' = "closed" /\ subscribed' = {} /\ wire' = <<>> /\ requests' = <<>> /\ joining' = {} /\ turns' = {}
      /\ told' = [c \in Convs |-> {}]
      /\ UNCHANGED <<viewVars, fetches, fetched, stored, mixed>>
  BY DEF LoseSocket
<1> USE DEF viewVars
<1>2. wire' \in Seq(ServerEvent) /\ DOMAIN wire' = {} /\ requests' \in Seq(ClientEvent)
  BY <1>1, EmptySeq
<1>3. NetType' /\ HistoriesInv' /\ ViewsInv' /\ OpenTabsJoined'
  BY <1>1, <1>2 DEF TabsInv, NetType, HistoriesInv, ViewsInv, OpenTabsJoined
<1>4. TabsType' /\ NoTabMixed' /\ Mirrored'
  BY <1>1 DEF TabsInv, TabsType, NoTabMixed, Mirrored, Opened, Cached
<1> QED
  BY <1>3, <1>4 DEF TabsInv

LEMMA ReconnectKeeps == ASSUME TabsInv, Reconnect PROVE TabsInv'
<1>1. /\ socket = "closed" /\ socket' = "open"
      /\ requests' = [i \in DOMAIN openTabs |-> ToServer("join", openTabs[i])]
      /\ UNCHANGED <<viewVars, fetches, fetched, stored, joining, subscribed, turns, wire, told, mixed>>
  BY DEF Reconnect, connVars
<1> USE DEF viewVars
<1>2. /\ openTabs \in Seq(Convs) /\ DOMAIN openTabs = 1..Len(openTabs) /\ Len(openTabs) \in Nat
      /\ \A i \in DOMAIN openTabs : openTabs[i] \in Convs
  BY LenProperties DEF TabsInv, TabsType
<1>3. requests' \in Seq(ClientEvent)
  <2> DEFINE n == Len(openTabs)
             JoinOf(i) == ToServer("join", openTabs[i])
  <2>1. \A i \in 1..n : JoinOf(i) \in ClientEvent
    BY <1>2 DEF ToServer, ClientEvent
  <2>2. requests' = [i \in 1..n |-> JoinOf(i)] /\ n \in Nat
    BY <1>1, <1>2
  <2> HIDE DEF n, JoinOf
  <2> QED
    BY <2>1, <2>2
<1>4. \A c \in Opened : Awaited(c)'
  BY <1>1 DEF Awaited, Opened
<1>5. Opened' = Opened
  BY <1>1 DEF Opened
<1>6. NetType'
  BY <1>1, <1>3 DEF TabsInv, NetType, Rows
<1>7. HistoriesInv'
  BY <1>1 DEF TabsInv, HistoriesInv, LastHistory, IsHistory, ToldAfter
<1>8. ViewsInv' /\ OpenTabsJoined'
  BY <1>4, <1>5 DEF ViewsInv, OpenTabsJoined, Waits
<1>9. TabsType' /\ NoTabMixed' /\ Mirrored'
  BY <1>1 DEF TabsInv, TabsType, NoTabMixed, Mirrored, Opened, Cached
<1> QED
  BY <1>6, <1>7, <1>8, <1>9 DEF TabsInv

\* The first event is taken from the wire
LEMMA OneEventLess ==
  ASSUME NetType, wire # <<>>, wire' = Tail(wire)
  PROVE  /\ wire' \in Seq(ServerEvent) /\ 1 \in DOMAIN wire /\ Head(wire) = wire[1]
         /\ \A k \in DOMAIN wire' : k \in Nat /\ k # 0 /\ k + 1 \in DOMAIN wire /\ wire'[k] = wire[k + 1]
         /\ \A k \in DOMAIN wire : k = 1 \/ (k \in Nat /\ k > 1 /\ k - 1 \in DOMAIN wire' /\ wire'[k - 1] = wire[k])
<1>1. wire \in Seq(ServerEvent)
  BY DEF NetType
<1>2. /\ wire' \in Seq(ServerEvent) /\ Len(wire') = Len(wire) - 1 /\ Head(wire) = wire[1]
      /\ \A k \in 1..Len(wire') : wire'[k] = wire[k + 1]
  BY <1>1, HeadTailProperties
<1>3. PICK n \in Nat : n = Len(wire) /\ n # 0 /\ DOMAIN wire = 1..n /\ DOMAIN wire' = 1..(n - 1)
  BY <1>1, <1>2, LenProperties, EmptySeq
<1>4. \A k \in DOMAIN wire' : k \in Nat /\ k # 0 /\ k + 1 \in DOMAIN wire /\ wire'[k] = wire[k + 1]
  BY <1>2, <1>3
<1>5. ASSUME NEW k \in DOMAIN wire, k # 1
      PROVE k \in Nat /\ k > 1 /\ k - 1 \in DOMAIN wire' /\ wire'[k - 1] = wire[k]
  <2>1. PICK p \in 2..n : p = k
    BY <1>3, <1>5
  <2>2. p - 1 \in 1..(n - 1) /\ p - 1 + 1 = p
    BY <1>3
  <2>3. wire'[p - 1] = wire[p]
    BY <1>2, <1>3, <2>2
  <2> QED
    BY <1>3, <2>1, <2>2, <2>3
<1>6. 1 \in DOMAIN wire
  BY <1>3
<1> QED
  BY <1>2, <1>4, <1>5, <1>6

LEMMA ApplyServerEventKeeps == ASSUME TabsInv, ApplyServerEvent PROVE TabsInv'
<1>1. PICK evt : evt = Head(wire)
  OBVIOUS
<1>2. /\ wire # <<>> /\ wire' = Tail(wire)
      /\ \/ /\ evt.c # currentConvId /\ shown' = shown
            /\ tabStates' = IF evt.c \in DOMAIN tabStates
                            THEN Put(tabStates, evt.c, Reduced(tabStates[evt.c], evt))
                            ELSE tabStates
         \/ /\ evt.c = currentConvId /\ shown' = Reduced(shown, evt)
            /\ tabStates' = Put(tabStates, evt.c, shown')
      /\ UNCHANGED <<currentConvId, activeTab, openTabs, fetches, fetched, socket, drops, stored,
                     requests, joining, subscribed, turns, told, mixed>>
  BY <1>1 DEF ApplyServerEvent, Background
<1>3. /\ wire' \in Seq(ServerEvent) /\ 1 \in DOMAIN wire /\ evt = wire[1]
      /\ \A k \in DOMAIN wire' : k \in Nat /\ k # 0 /\ k + 1 \in DOMAIN wire /\ wire'[k] = wire[k + 1]
      /\ \A k \in DOMAIN wire : k = 1 \/ (k \in Nat /\ k > 1 /\ k - 1 \in DOMAIN wire' /\ wire'[k - 1] = wire[k])
  BY <1>1, <1>2, OneEventLess DEF TabsInv
<1>4. evt \in ServerEvent /\ AboutOwn(evt) /\ evt.c \in Convs
  <2>1. evt \in ServerEvent /\ AboutOwn(evt)
    BY <1>3, ElementOfSeq, LenProperties DEF TabsInv, NetType
  <2> QED
    BY <2>1 DEF ServerEvent
<1>5. Opened' = Opened /\ Opened \subseteq Convs /\ Opened \subseteq DOMAIN tabStates
      /\ DOMAIN tabStates \subseteq Convs
  BY <1>2 DEF Opened, TabsInv, TabsType
<1>6. NetType'
  <2>1. \A k \in DOMAIN wire' : AboutOwn(wire'[k])
    BY <1>3 DEF TabsInv, NetType
  <2>2. socket' # "closed"
    BY <1>2 DEF TabsInv, NetType
  <2> QED
    BY <1>2, <1>3, <2>1, <2>2 DEF TabsInv, NetType, Rows
<1>7. \A k \in Nat : \A m : ToldAfter(m, k + 1) => ToldAfter(m, k)'
  <2> SUFFICES ASSUME NEW k \in Nat, NEW m, ToldAfter(m, k + 1) PROVE ToldAfter(m, k)'
    OBVIOUS
  <2>1. PICK j \in DOMAIN wire : j > k + 1 /\ wire[j].t = "created" /\ m \in wire[j].rows
    BY DEF ToldAfter
  <2>2. j # 1
    BY <2>1
  <2>3. PICK p \in Nat : p = j
    BY <1>3, <2>2
  <2>4. p - 1 > k /\ p - 1 \in DOMAIN wire' /\ wire'[p - 1] = wire[p]
    BY <1>3, <2>1, <2>2, <2>3
  <2> QED
    BY <2>1, <2>3, <2>4 DEF ToldAfter
<1>8. \A k \in DOMAIN wire' : \A d : IsHistory(k, d)' <=> IsHistory(k + 1, d)
  BY <1>3 DEF IsHistory
<1>9. HistoriesInv'
  <2> SUFFICES ASSUME NEW c \in Convs, NEW k \in DOMAIN wire', LastHistory(k, c)', NEW m \in told'[c]
               PROVE  m \in wire'[k].rows \/ ToldAfter(m, k)'
    BY DEF HistoriesInv
  <2>1. k \in Nat /\ k + 1 \in DOMAIN wire /\ IsHistory(k + 1, c) /\ wire'[k] = wire[k + 1]
    BY <1>3, <1>8 DEF LastHistory
  <2>2. ASSUME NEW l \in DOMAIN wire, l > k + 1, IsHistory(l, c) PROVE FALSE
    <3>1. l # 1
      BY <2>1, <2>2
    <3>2. PICK p \in Nat : p = l
      BY <1>3, <3>1
    <3>3. p - 1 \in DOMAIN wire' /\ wire'[p - 1] = wire[p] /\ p - 1 > k
      BY <1>3, <2>1, <2>2, <3>1, <3>2
    <3> QED
      BY <2>2, <3>2, <3>3 DEF LastHistory, IsHistory
  <2>3. LastHistory(k + 1, c)
    BY <2>1, <2>2 DEF LastHistory
  <2>4. m \in wire[k + 1].rows \/ ToldAfter(m, k + 1)
    BY <1>2, <2>1, <2>3 DEF TabsInv, HistoriesInv
  <2> QED
    BY <1>7, <2>1, <2>4
<1>10. /\ DOMAIN tabStates \subseteq DOMAIN tabStates' /\ DOMAIN tabStates' \subseteq DOMAIN tabStates \cup {evt.c}
       /\ \A d : d # evt.c => Cached(tabStates', d) = Cached(tabStates, d)
       /\ evt.c = currentConvId => Cached(tabStates', evt.c) = shown' /\ shown' = Reduced(shown, evt)
       /\ evt.c # currentConvId => shown' = shown
       /\ evt.c # currentConvId /\ evt.c \in DOMAIN tabStates =>
            Cached(tabStates', evt.c) = Reduced(Cached(tabStates, evt.c), evt)
       /\ evt.c # currentConvId /\ evt.c \notin DOMAIN tabStates => tabStates' = tabStates
  <2>1. ASSUME NEW ms PROVE LET cache == Put(tabStates, evt.c, ms) IN
          /\ DOMAIN cache = DOMAIN tabStates \cup {evt.c} /\ Cached(cache, evt.c) = ms
          /\ \A d : d # evt.c => Cached(cache, d) = Cached(tabStates, d)
    BY DEF Put, Cached
  <2>2. CASE evt.c = currentConvId
    BY <1>2, <2>1, <2>2
  <2>3. CASE evt.c # currentConvId /\ evt.c \in DOMAIN tabStates
    <3>1. tabStates' = Put(tabStates, evt.c, Reduced(Cached(tabStates, evt.c), evt)) /\ shown' = shown
      BY <1>2, <2>3 DEF Cached
    <3> QED
      BY <2>1, <2>3, <3>1
  <2>4. CASE evt.c # currentConvId /\ evt.c \notin DOMAIN tabStates
    BY <1>2, <2>4
  <2> QED
    BY <2>2, <2>3, <2>4
<1>11. TabsType'
  BY <1>2, <1>4, <1>5, <1>10 DEF TabsInv, TabsType
<1>12. \A ms : \A m \in Reduced(ms, evt) : m \in ms \/ m \in evt.rows
  BY DEF Reduced
<1>13. NoTabMixed'
  <2> SUFFICES ASSUME ~mixed' PROVE NoTabMixed'
    BY DEF NoTabMixed
  <2>1. (\A m \in shown : m[1] = currentConvId) /\ \A d : \A m \in Cached(tabStates, d) : m[1] = d
    BY <1>2 DEF TabsInv, NoTabMixed, Cached
  <2>2. \A m \in evt.rows : m[1] = evt.c
    BY <1>4 DEF AboutOwn
  <2>3. \A m \in shown' : m[1] = currentConvId'
    BY <1>2, <1>10, <1>12, <2>1, <2>2
  <2>4. \A d : \A m \in Cached(tabStates', d) : m[1] = d
    <3> SUFFICES ASSUME NEW d, NEW m \in Cached(tabStates', d) PROVE m[1] = d
      OBVIOUS
    <3>1. CASE d # evt.c
      BY <1>10, <2>1, <3>1
    <3>2. CASE d = evt.c /\ evt.c = currentConvId
      BY <1>2, <1>10, <2>3, <3>2
    <3>3. CASE d = evt.c /\ evt.c # currentConvId
      BY <1>10, <1>12, <2>1, <2>2, <3>3
    <3> QED
      BY <3>1, <3>2, <3>3
  <2> QED
    BY <2>3, <2>4 DEF NoTabMixed, Cached
<1>14. Mirrored' /\ OpenTabsJoined'
  BY <1>2, <1>5, <1>10 DEF TabsInv, Mirrored, OpenTabsJoined, Temp, Awaited
<1>15. \A d \in Opened : View(d)' = IF d = evt.c THEN Reduced(View(d), evt) ELSE View(d)
  BY <1>2, <1>5, <1>10 DEF View
<1>16. ViewsInv'
  <2> SUFFICES ASSUME socket' = "open", ~mixed', NEW d \in Opened', \A f \in fetches' : f.c # d,
                      ~Waits(d)', NEW m \in told'[d]
               PROVE  m \in View(d)' \/ ToldAfter(m, 0)'
    BY DEF ViewsInv
  <2>0. m \in told[d] /\ d \in Opened /\ d \in Convs
    BY <1>2, <1>5
  <2>1. d \in Opened /\ d \in Convs /\ m \in told[d] /\ m # Temp(d) /\ m[1] = d
    BY <2>0 DEF TabsInv, NetType, Rows, Temp
  <2>2. \A n : ToldAfter(n, 1) => ToldAfter(n, 0)'
    BY <1>7
  <2>3. CASE evt.t = "history" /\ evt.c = d
    <3>1. LastHistory(1, d)
      <4>1. ASSUME NEW l \in DOMAIN wire, l > 1, IsHistory(l, d) PROVE FALSE
        BY <1>3, <4>1 DEF Waits, IsHistory
      <4> QED
        BY <1>3, <2>3, <4>1 DEF LastHistory, IsHistory
    <3>2. m \in evt.rows \/ ToldAfter(m, 1)
      BY <1>3, <2>1, <3>1 DEF TabsInv, HistoriesInv
    <3>3. View(d)' = evt.rows
      BY <1>15, <2>1, <2>3 DEF Reduced
    <3> QED
      BY <2>2, <3>2, <3>3
  <2>4. CASE ~(evt.t = "history" /\ evt.c = d)
    <3>1. ~Waits(d)
      <4>1. ASSUME NEW k \in DOMAIN wire, IsHistory(k, d) PROVE FALSE
        <5>1. k # 1
          BY <1>3, <2>4, <4>1 DEF IsHistory
        <5> QED
          BY <1>3, <4>1, <5>1 DEF Waits, IsHistory
      <4> QED
        BY <1>2, <4>1 DEF Waits, Awaited
    <3>2. m \in View(d) \/ ToldAfter(m, 0)
      BY <1>2, <2>1, <3>1 DEF TabsInv, ViewsInv
    <3>3. ToldAfter(m, 0) => (evt.t = "created" /\ m \in evt.rows) \/ ToldAfter(m, 1)
      BY <1>3 DEF ToldAfter
    <3>4. m \in evt.rows => evt.c = d
      BY <1>4, <2>1 DEF AboutOwn
    <3>5. \A ms : d = evt.c => (m \in ms => m \in Reduced(ms, evt)) /\ (m \in evt.rows => m \in Reduced(ms, evt))
      BY <2>1, <2>4 DEF Reduced
    <3> QED
      BY <1>15, <2>1, <2>2, <3>2, <3>3, <3>4, <3>5
  <2> QED
    BY <2>3, <2>4
<1> QED
  BY <1>6, <1>9, <1>11, <1>13, <1>14, <1>16 DEF TabsInv

-----------------------------------------------------------------------------
\* The inductive invariant holds for any conversations, messages, fetches and lost connections.
THEOREM TabsInvariance == TabSpec => []TabsInv
<1>1. TabsInv /\ [TabNext]_tabVars => TabsInv'
  <2> SUFFICES ASSUME TabsInv, [TabNext]_tabVars PROVE TabsInv'
    OBVIOUS
  <2>1. CASE UNCHANGED tabVars
    <3>1. NetType' /\ HistoriesInv'
      BY <2>1, SameWire DEF TabsInv, tabVars
    <3>2. TabsType' /\ NoTabMixed' /\ OpenTabsJoined' /\ Mirrored'
      BY <2>1 DEF TabsInv, TabsType, NoTabMixed, OpenTabsJoined, Mirrored, tabVars, Opened, Cached, Awaited
    <3>3. ViewsInv'
      BY <2>1 DEF TabsInv, ViewsInv, tabVars, Opened, Cached, View, Waits, Awaited, IsHistory, ToldAfter
    <3> QED
      BY <3>1, <3>2, <3>3 DEF TabsInv
  <2>2. CASE TabNext
    BY <2>2, OpenTabKeeps, SwitchTabKeeps, MessageKeeps, JoinReadKeeps, HistorySentKeeps, TextTakenKeeps,
       TextRefusedKeeps, FetchReadKeeps, FetchEndsKeeps, CloseTabKeeps, ArchiveKeeps, SendTextKeeps,
       ApplyServerEventKeeps, LoseSocketKeeps, ReconnectKeeps DEF TabNext
  <2> QED
    BY <2>1, <2>2
<1> QED
  BY <1>1, TabsStart, PTL DEF TabSpec

\* Whatever order tabs are opened, switched and closed in, with answers, events and lost
\* connections in between: no tab shows messages of another but after an answer that came
\* back to another tab, every open tab is joined, and none has lost a message of its last
\* history on this connection or one the connection was told of since.
THEOREM TabsAreSound == TabSpec => []TabsSound
BY TabsInvariance, TabsShow, PTL

-----------------------------------------------------------------------------
\* The artifacts.  Every version was made from an older artifact and is one more than that
\* one's; contents never change, so what a diff message or an answer said of one stays true.

ArtifactRow == [parent : Nat, content : Texts, version : Nat]
Posted == [base : Nat, applied : Nat, before : Texts, after : Texts]
EditorAsk == [id : Nat, kind : {"load", "compare", "save"}, a : Nat, text : Texts \cup {"none"}]
Checked == [at : {"checked"}, base : Nat, before : Texts, after : Texts]

RowsInv ==
  /\ artifact_rows \in Seq(ArtifactRow)
  /\ \A c \in ArtifactIds :
       /\ artifact_rows[c].parent < c
       /\ artifact_rows[c].version =
            IF artifact_rows[c].parent = 0 THEN 1 ELSE artifact_rows[artifact_rows[c].parent].version + 1

DiffsInv ==
  /\ diffs \subseteq Posted
  /\ \A d \in diffs :
       /\ d.base \in ArtifactIds /\ d.applied \in ArtifactIds /\ d.base = artifact_rows[d.applied].parent
       /\ d.before = artifact_rows[d.base].content /\ Unescaped(d.after) = artifact_rows[d.applied].content

ApplyingInv ==
  /\ applying \in [Requesters -> Checked \cup {NoDiff}]
  /\ \A r \in Requesters : applying[r] # NoDiff => applying[r].base \in ArtifactIds

EditorType ==
  /\ views \subseteq EditorAsk /\ view_count \in Nat /\ loading \in 0..view_count
  /\ typed_text \in Texts \cup {"none"} /\ original \in Texts \cup {"none"} /\ reverted \in BOOLEAN
  /\ edited \in ArtifactIds \cup {0}

\* The newest load is of the artifact shown, and nothing else answers to its number
AsksInv ==
  \A v \in views :
    /\ v.id \in 1..view_count /\ v.a \in ArtifactIds
    /\ v.kind = "save" => v.text \in Texts
    /\ v.kind = "load" /\ v.id = loading => v.a = edited

EditedInv ==
  /\ views # {} \/ typed_text # "none" => edited # 0
  /\ edited # 0 /\ loading = 0 /\ ~reverted => original = artifact_rows[edited].content

EditorInv == EditorType /\ AsksInv /\ EditedInv

ArtInv == RowsInv /\ DiffsInv /\ ApplyingInv /\ EditorInv

-----------------------------------------------------------------------------
LEMMA UnescapedIs == \A text \in Texts : Unescaped(text) \in Texts
BY DEF Unescaped, Texts

LEMMA RowIs ==
  ASSUME RowsInv
  PROVE  /\ ArtifactIds = 1..Len(artifact_rows) /\ Len(artifact_rows) \in Nat
         /\ \A c \in ArtifactIds : /\ artifact_rows[c].parent \in Nat /\ artifact_rows[c].version \in Nat
                                /\ artifact_rows[c].content \in Texts
<1>1. artifact_rows \in Seq(ArtifactRow)
  BY DEF RowsInv
<1>2. ArtifactIds = 1..Len(artifact_rows) /\ Len(artifact_rows) \in Nat
  BY <1>1, LenProperties DEF ArtifactIds
<1>3. \A c \in ArtifactIds : artifact_rows[c] \in ArtifactRow
  BY <1>1, <1>2
<1> QED BY <1>2, <1>3 DEF ArtifactRow

\* A row more, and the message that shows it: nothing of the older rows changes.
LEMMA RowCreated ==
  ASSUME RowsInv, DiffsInv, NEW parent \in ArtifactIds \cup {0}, NEW text \in Texts, NEW before,
         parent # 0 => before = artifact_rows[parent].content,
         Create(parent, text, before)
  PROVE  /\ RowsInv' /\ DiffsInv' /\ Len(artifact_rows') = Len(artifact_rows) + 1
         /\ Len(artifact_rows') \in ArtifactIds' /\ Len(artifact_rows') \notin ArtifactIds
         /\ ArtifactIds \subseteq ArtifactIds'
         /\ \A c \in ArtifactIds : artifact_rows'[c] = artifact_rows[c]
<1> DEFINE n == Len(artifact_rows)
           row == [parent |-> parent, content |-> Unescaped(text), version |-> VersionAfter(parent)]
<1>1. artifact_rows \in Seq(ArtifactRow) /\ n \in Nat /\ ArtifactIds = 1..n
  BY LenProperties DEF RowsInv, ArtifactIds
<1>2. \A c \in ArtifactIds : artifact_rows[c] \in ArtifactRow
  BY <1>1 DEF ArtifactIds
<1>3. row \in ArtifactRow
  <2>1. parent \in Nat
    BY <1>1
  <2>2. VersionAfter(parent) \in Nat
    BY <1>2 DEF VersionAfter, ArtifactRow
  <2> QED BY <2>1, <2>2, UnescapedIs DEF ArtifactRow
<1>4. artifact_rows' = Append(artifact_rows, row)
  BY DEF Create
<1>5. /\ artifact_rows' \in Seq(ArtifactRow) /\ Len(artifact_rows') = n + 1
      /\ artifact_rows'[n + 1] = row /\ \A c \in 1..n : artifact_rows'[c] = artifact_rows[c]
  <2> HIDE DEF row
  <2> QED BY <1>1, <1>3, <1>4, AppendProperties
<1>6. ArtifactIds' = 1..(n + 1)
  BY <1>5, LenProperties DEF ArtifactIds
<1>7. parent < n + 1 /\ row.parent = parent /\ row.content = Unescaped(text) /\ row.version = VersionAfter(parent)
  BY <1>1
<1>8. RowsInv'
  <2> SUFFICES ASSUME NEW c \in 1..(n + 1)
               PROVE  /\ artifact_rows'[c].parent < c
                      /\ artifact_rows'[c].version =
                           IF artifact_rows'[c].parent = 0 THEN 1
                           ELSE artifact_rows'[artifact_rows'[c].parent].version + 1
    BY <1>5, <1>6 DEF RowsInv
  <2>1. CASE c = n + 1
    <3> HIDE DEF row
    <3> QED BY <2>1, <1>1, <1>5, <1>7 DEF VersionAfter
  <2>2. CASE c \in 1..n
    <3>1. /\ artifact_rows[c].parent < c
          /\ artifact_rows[c].version =
               IF artifact_rows[c].parent = 0 THEN 1 ELSE artifact_rows[artifact_rows[c].parent].version + 1
      BY <2>2, <1>1 DEF RowsInv
    <3>2. artifact_rows[c].parent \in Nat
      BY <2>2, <1>1, <1>2 DEF ArtifactRow
    <3>3. artifact_rows[c].parent # 0 => artifact_rows[c].parent \in 1..n
      BY <2>2, <3>1, <3>2
    <3> QED BY <2>2, <1>5, <3>1, <3>3
  <2> QED BY <2>1, <2>2
<1>9. DiffsInv'
  <2> DEFINE d == [base |-> parent, applied |-> n + 1, before |-> before, after |-> text]
  <2>1. diffs' = IF parent = 0 THEN diffs ELSE diffs \cup {d}
    BY <1>5 DEF Create
  <2>2. parent # 0 => /\ d \in Posted /\ d.base = parent /\ d.applied = n + 1 /\ d.before = before /\ d.after = text
    BY <1>1, <1>2 DEF Posted, ArtifactRow
  <2> HIDE DEF d
  <2>3. ASSUME NEW e \in diffs'
        PROVE  /\ e \in Posted /\ e.base \in 1..(n + 1) /\ e.applied \in 1..(n + 1)
               /\ e.base = artifact_rows'[e.applied].parent
               /\ e.before = artifact_rows'[e.base].content /\ Unescaped(e.after) = artifact_rows'[e.applied].content
    <3>1. CASE e \in diffs
      BY <3>1, <1>1, <1>5 DEF DiffsInv
    <3>2. CASE parent # 0 /\ e = d
      <4> HIDE DEF row
      <4> QED BY <3>2, <2>2, <1>1, <1>5, <1>7
    <3> QED BY <2>1, <2>3, <3>1, <3>2
  <2> QED BY <2>3, <1>6 DEF DiffsInv
<1> QED BY <1>1, <1>5, <1>6, <1>8, <1>9

\* What the editor shows is not touched by a new row.
LEMMA EditorSame ==
  ASSUME EditorInv, UNCHANGED <<edited, typed_text, original, loading, views, view_count, reverted>>,
         ArtifactIds \subseteq ArtifactIds', \A c \in ArtifactIds : artifact_rows'[c] = artifact_rows[c]
  PROVE  EditorInv'
BY DEF EditorInv, EditorType, AsksInv, EditedInv

LEMMA ApplyingSame ==
  ASSUME ApplyingInv, ArtifactIds \subseteq ArtifactIds', NEW r \in Requesters,
         UNCHANGED applying \/ applying' = [applying EXCEPT ![r] = NoDiff]
  PROVE  ApplyingInv'
BY DEF ApplyingInv

LEMMA StoreStepKeeps ==
  ASSUME ArtInv
  PROVE  /\ \A text \in Texts : CreateArtifact(text) => ArtInv'
         /\ \A r \in Requesters :
              /\ \A base \in ArtifactIds, before, after \in Texts : ApplyDiff(r, base, before, after) => ArtInv'
              /\ DiffApplied(r) => ArtInv'
              /\ DiffConflicts(r) => ArtInv'
<1> USE DEF ArtInv
<1>1. ASSUME NEW text \in Texts, CreateArtifact(text) PROVE ArtInv'
  <2>1. Create(0, text, "none") /\ UNCHANGED <<applying, editorVars>>
    BY <1>1 DEF CreateArtifact
  <2>2. /\ RowsInv' /\ DiffsInv' /\ ArtifactIds \subseteq ArtifactIds'
        /\ \A c \in ArtifactIds : artifact_rows'[c] = artifact_rows[c]
    BY <2>1, RowCreated
  <2>3. EditorInv'
    BY <2>1, <2>2, EditorSame DEF editorVars
  <2>4. ApplyingInv'
    BY <2>1, <2>2 DEF ApplyingInv
  <2> QED BY <2>2, <2>3, <2>4
<1>2. ASSUME NEW r \in Requesters, NEW base \in ArtifactIds, NEW before \in Texts, NEW after \in Texts,
             ApplyDiff(r, base, before, after)
      PROVE  ArtInv'
  <2> DEFINE job == [at |-> "checked", base |-> base, before |-> before, after |-> after]
  <2>1. applying' = [applying EXCEPT ![r] = job] /\ UNCHANGED <<artifact_rows, diffs, editorVars>>
    BY <1>2 DEF ApplyDiff
  <2>2. base \in Nat
    BY LenProperties DEF RowsInv, ArtifactIds
  <2>3. job \in Checked /\ job.base = base
    BY <2>2 DEF Checked
  <2>4. ApplyingInv'
    <3> HIDE DEF job
    <3> QED BY <2>1, <2>3 DEF ApplyingInv, ArtifactIds
  <2>5. RowsInv' /\ DiffsInv'
    BY <2>1 DEF RowsInv, DiffsInv, ArtifactIds
  <2>6. EditorInv'
    BY <2>1, EditorSame DEF editorVars, ArtifactIds
  <2> QED BY <2>4, <2>5, <2>6
<1>3. ASSUME NEW r \in Requesters, DiffApplied(r) PROVE ArtInv'
  <2> DEFINE job == applying[r]
  <2>1. /\ job.at = "checked" /\ job.before = artifact_rows[job.base].content
        /\ Create(job.base, job.after, job.before)
        /\ applying' = [applying EXCEPT ![r] = NoDiff] /\ UNCHANGED editorVars
    BY <1>3 DEF DiffApplied
  <2>2. job \in Checked /\ job.base \in ArtifactIds
    BY <2>1 DEF ApplyingInv, NoDiff
  <2>3. job.after \in Texts
    BY <2>2 DEF Checked
  <2>4. /\ RowsInv' /\ DiffsInv' /\ ArtifactIds \subseteq ArtifactIds'
        /\ \A c \in ArtifactIds : artifact_rows'[c] = artifact_rows[c]
    <3> HIDE DEF job
    <3> QED BY <2>1, <2>2, <2>3, RowCreated
  <2>5. EditorInv'
    BY <2>1, <2>4, EditorSame DEF editorVars
  <2>6. ApplyingInv'
    BY <2>1, <2>4, ApplyingSame
  <2> QED BY <2>4, <2>5, <2>6
<1>4. ASSUME NEW r \in Requesters, DiffConflicts(r) PROVE ArtInv'
  <2>1. applying' = [applying EXCEPT ![r] = NoDiff] /\ UNCHANGED <<artifact_rows, diffs, editorVars>>
    BY <1>4 DEF DiffConflicts
  <2>2. RowsInv' /\ DiffsInv'
    BY <2>1 DEF RowsInv, DiffsInv, ArtifactIds
  <2>3. EditorInv'
    BY <2>1, EditorSame DEF editorVars, ArtifactIds
  <2>4. ApplyingInv'
    BY <2>1, ApplyingSame DEF ArtifactIds
  <2> QED BY <2>2, <2>3, <2>4
<1> QED BY <1>1, <1>2, <1>3, <1>4

\* An editor's request more
LEMMA AskedNow ==
  ASSUME EditorInv, NEW what \in {"load", "compare", "save"}, NEW a \in ArtifactIds, NEW text \in Texts \cup {"none"},
         artifact_rows \in Seq(ArtifactRow)
  PROVE  /\ EditorRequest(what, a, text) \in EditorAsk
         /\ EditorRequest(what, a, text).id = view_count + 1 /\ EditorRequest(what, a, text).a = a
         /\ EditorRequest(what, a, text).kind = what /\ EditorRequest(what, a, text).text = text
<1>1. a \in Nat
  BY LenProperties DEF ArtifactIds
<1> QED BY <1>1 DEF EditorRequest, EditorAsk, EditorInv, EditorType, AsksInv, EditedInv

\* The editor shows another artifact and asks for its content.
LEMMA ShowKeeps ==
  ASSUME EditorInv, NEW a \in ArtifactIds', NEW more, more \subseteq views, Show(a, more),
         typed_text' \in Texts \cup {"none"}, original' \in Texts \cup {"none"}, reverted' \in BOOLEAN,
         artifact_rows' \in Seq(ArtifactRow), ArtifactIds \subseteq ArtifactIds'
  PROVE  EditorInv'
<1> DEFINE ask == EditorRequest("load", a, "none")
<1>1. /\ edited' = a /\ view_count' = view_count + 1 /\ loading' = view_count + 1 /\ views' = more \cup {ask}
  BY DEF Show
<1>2. a \in Nat /\ a # 0
  BY LenProperties DEF ArtifactIds
<1>3. view_count \in Nat
  BY DEF EditorInv, EditorType, AsksInv, EditedInv
<1>4. ask \in EditorAsk /\ ask.id = view_count + 1 /\ ask.a = a /\ ask.kind = "load"
  BY <1>2, <1>3 DEF EditorRequest, EditorAsk
<1> HIDE DEF ask
<1>5. \A v \in views' : v = ask \/ (v \in views /\ v.id \in 1..view_count /\ v.id # view_count + 1)
  BY <1>1, <1>3 DEF EditorInv, EditorType, AsksInv, EditedInv
<1>6. \A v \in views' : /\ v \in EditorAsk /\ v.id \in 1..(view_count + 1) /\ v.a \in ArtifactIds'
                        /\ v.kind = "save" => v.text \in Texts
                        /\ v.kind = "load" /\ v.id = view_count + 1 => v.a = a
  <2> SUFFICES ASSUME NEW v \in views'
               PROVE  /\ v \in EditorAsk /\ v.id \in 1..(view_count + 1) /\ v.a \in ArtifactIds'
                      /\ v.kind = "save" => v.text \in Texts
                      /\ v.kind = "load" /\ v.id = view_count + 1 => v.a = a
    OBVIOUS
  <2>1. CASE v = ask
    BY <1>3, <1>4, <2>1
  <2>2. CASE v \in views
    BY <1>3, <1>5, <2>2 DEF EditorInv, EditorType, AsksInv, EditedInv
  <2> QED BY <1>5, <2>1, <2>2
<1> QED BY <1>1, <1>2, <1>3, <1>6 DEF EditorInv, EditorType, AsksInv, EditedInv

LEMMA EditorKeeps ==
  ASSUME ArtInv
  PROVE  /\ \A text \in Texts : Type(text) => ArtInv'
         /\ \A a \in ArtifactIds : OpenEditor(a) => ArtInv'
         /\ Save => ArtInv'
<1> USE DEF ArtInv
<1>1. ASSUME UNCHANGED storeVars PROVE RowsInv' /\ DiffsInv' /\ ApplyingInv' /\ ArtifactIds' = ArtifactIds
  BY <1>1 DEF storeVars, RowsInv, DiffsInv, ApplyingInv, ArtifactIds
<1>2. ASSUME NEW text \in Texts, Type(text) PROVE ArtInv'
  <2>1. UNCHANGED storeVars /\ EditorInv'
    BY <1>2 DEF Type, EditorInv, EditorType, AsksInv, EditedInv, storeVars, ArtifactIds, Texts
  <2> QED BY <1>1, <2>1
<1>3. ASSUME NEW a \in ArtifactIds, OpenEditor(a) PROVE ArtInv'
  <2>1. UNCHANGED storeVars /\ UNCHANGED <<typed_text, original, reverted>>
    BY <1>3 DEF OpenEditor
  <2>2. CASE a = edited
    <3>1. UNCHANGED <<edited, view_count, loading, views>>
      BY <1>3, <2>2 DEF OpenEditor
    <3>2. EditorInv'
      BY <2>1, <3>1, EditorSame DEF storeVars, ArtifactIds
    <3> QED BY <1>1, <2>1, <3>2
  <2>3. CASE a # edited
    <3>1. Show(a, views) /\ a \in ArtifactIds' /\ ArtifactIds \subseteq ArtifactIds' /\ artifact_rows' \in Seq(ArtifactRow)
      BY <1>3, <1>1, <2>1, <2>3 DEF OpenEditor, RowsInv
    <3>2. typed_text' \in Texts \cup {"none"} /\ original' \in Texts \cup {"none"} /\ reverted' \in BOOLEAN
      BY <2>1 DEF EditorInv, EditorType, AsksInv, EditedInv
    <3>3. EditorInv'
      BY <3>1, <3>2, ShowKeeps
    <3> QED BY <1>1, <2>1, <3>3
  <2> QED BY <2>2, <2>3
<1>4. ASSUME Save PROVE ArtInv'
  <2> DEFINE ask == EditorRequest("save", edited, typed_text)
  <2>1. /\ typed_text # "none" /\ view_count' = view_count + 1 /\ views' = views \cup {ask}
        /\ UNCHANGED storeVars /\ UNCHANGED <<edited, typed_text, original, loading, reverted>>
    BY <1>4 DEF Save
  <2>2. edited \in ArtifactIds /\ typed_text \in Texts
    BY <2>1 DEF EditorInv, EditorType, AsksInv, EditedInv
  <2>3. ask \in EditorAsk /\ ask.id = view_count + 1 /\ ask.a = edited /\ ask.kind = "save" /\ ask.text \in Texts
    BY <2>2, AskedNow DEF RowsInv
  <2> HIDE DEF ask
  <2>4. EditorInv'
    BY <2>1, <2>2, <2>3, <1>1 DEF EditorInv, EditorType, AsksInv, EditedInv, storeVars
  <2> QED BY <1>1, <2>1, <2>4
<1> QED BY <1>2, <1>3, <1>4

\* The answers to what the editor has asked
LEMMA AnswerKeeps ==
  ASSUME ArtInv
  PROVE  /\ \A i \in Nat : CompareOldest(i) /\ Panel(edited)[i] \in ArtifactIds => ArtInv'
         /\ \A v \in views : /\ ContentLoaded(v) => ArtInv'
                             /\ LoadFails(v) => ArtInv'
                             /\ OldestLoaded(v) => ArtInv'
                             /\ VersionSaved(v) => ArtInv'
                             /\ SaveFails(v) => ArtInv'
<1> USE DEF ArtInv
<1>1. ASSUME UNCHANGED storeVars PROVE RowsInv' /\ DiffsInv' /\ ApplyingInv' /\ ArtifactIds' = ArtifactIds
  BY <1>1 DEF storeVars, RowsInv, DiffsInv, ApplyingInv, ArtifactIds
<1>2. \A c \in ArtifactIds : artifact_rows[c].content \in Texts
  BY RowIs
<1>3. ASSUME NEW i \in Nat, CompareOldest(i), Panel(edited)[i] \in ArtifactIds PROVE ArtInv'
  <2> DEFINE ask == EditorRequest("compare", Panel(edited)[i], "none")
  <2>1. /\ edited # 0 /\ view_count' = view_count + 1 /\ views' = views \cup {ask}
        /\ UNCHANGED storeVars /\ UNCHANGED <<edited, typed_text, original, loading, reverted>>
    BY <1>3 DEF CompareOldest
  <2>2. ask \in EditorAsk /\ ask.id = view_count + 1 /\ ask.a \in ArtifactIds /\ ask.kind = "compare"
    BY <1>3, AskedNow DEF RowsInv
  <2> HIDE DEF ask
  <2>3. EditorInv'
    BY <2>1, <2>2, <1>1 DEF EditorInv, EditorType, AsksInv, EditedInv, storeVars
  <2> QED BY <1>1, <2>1, <2>3
<1>4. ASSUME NEW v \in views, ContentLoaded(v) PROVE ArtInv'
  <2>1. /\ v.kind = "load" /\ views' = views \ {v} /\ UNCHANGED storeVars /\ UNCHANGED <<edited, view_count>>
        /\ \/ /\ v.id = loading /\ typed_text' = artifact_rows[v.a].content /\ original' = typed_text'
              /\ loading' = 0 /\ reverted' = FALSE
           \/ UNCHANGED <<typed_text, original, loading, reverted>>
    BY <1>4 DEF ContentLoaded, Current
  <2>2. v.a \in ArtifactIds /\ (v.id = loading => v.a = edited) /\ artifact_rows[v.a].content \in Texts /\ edited # 0
    BY <2>1, <1>2 DEF EditorInv, EditorType, AsksInv, EditedInv
  <2>3. /\ ArtifactIds' = ArtifactIds /\ artifact_rows' = artifact_rows
        /\ views' \subseteq views /\ \A w \in views : w.id # 0
    BY <2>1, <1>1 DEF storeVars, EditorInv, EditorType, AsksInv, EditedInv
  <2>4. EditorInv'
    <3>1. CASE /\ v.id = loading /\ typed_text' = artifact_rows[v.a].content /\ original' = typed_text'
               /\ loading' = 0 /\ reverted' = FALSE
      <4>1. EditorType'
        <5>1. reverted' \in BOOLEAN
          BY <3>1
        <5>2. /\ views' \subseteq EditorAsk /\ view_count' \in Nat /\ loading' \in 0..view_count'
              /\ typed_text' \in Texts \cup {"none"} /\ original' \in Texts \cup {"none"}
              /\ edited' \in ArtifactIds' \cup {0}
          BY <2>1, <2>2, <2>3, <3>1 DEF EditorInv, EditorType
        <5> QED BY <5>1, <5>2 DEF EditorType
      <4>2. AsksInv'
        BY <2>1, <2>2, <2>3, <3>1 DEF EditorInv, AsksInv
      <4>3. EditedInv'
        BY <2>1, <2>2, <2>3, <3>1 DEF EditorInv, EditedInv
      <4> QED BY <4>1, <4>2, <4>3 DEF EditorInv
    <3>2. CASE UNCHANGED <<typed_text, original, loading, reverted>>
      BY <2>1, <2>2, <2>3, <3>2 DEF EditorInv, EditorType, AsksInv, EditedInv
    <3> QED BY <2>1, <3>1, <3>2
  <2> QED BY <1>1, <2>1, <2>4
<1>5. ASSUME NEW v \in views, LoadFails(v) PROVE ArtInv'
  <2>1. /\ v.kind = "load" /\ views' = views \ {v} /\ UNCHANGED storeVars
        /\ UNCHANGED <<edited, typed_text, original, view_count>>
        /\ \/ v.id = loading /\ loading' = 0 /\ reverted' = TRUE
           \/ UNCHANGED <<loading, reverted>>
    BY <1>5 DEF LoadFails, Current, EditorInv, EditorType, AsksInv, EditedInv
  <2>2. /\ ArtifactIds' = ArtifactIds /\ artifact_rows' = artifact_rows /\ edited # 0
        /\ views' \subseteq views /\ \A w \in views : w.id # 0
    BY <2>1, <1>1 DEF storeVars, EditorInv, EditorType, AsksInv, EditedInv
  <2>3. EditorInv'
    <3>1. CASE v.id = loading /\ loading' = 0 /\ reverted' = TRUE
      BY <2>1, <2>2, <3>1 DEF EditorInv, EditorType, AsksInv, EditedInv
    <3>2. CASE UNCHANGED <<loading, reverted>>
      BY <2>1, <2>2, <3>2 DEF EditorInv, EditorType, AsksInv, EditedInv
    <3> QED BY <2>1, <3>1, <3>2
  <2> QED BY <1>1, <2>1, <2>3
<1>6. ASSUME NEW v \in views, OldestLoaded(v) PROVE ArtInv'
  <2>1. /\ views' = views \ {v} /\ UNCHANGED storeVars /\ UNCHANGED <<edited, loading, view_count>>
        /\ typed_text' = artifact_rows[v.a].content /\ original' = typed_text' /\ reverted' = TRUE
    BY <1>6 DEF OldestLoaded
  <2>2. artifact_rows[v.a].content \in Texts /\ edited # 0
    BY <1>2 DEF EditorInv, EditorType, AsksInv, EditedInv
  <2>3. EditorInv'
    BY <2>1, <2>2, <1>1 DEF EditorInv, EditorType, AsksInv, EditedInv, storeVars
  <2> QED BY <1>1, <2>1, <2>3
<1>7. ASSUME NEW v \in views, VersionSaved(v) PROVE ArtInv'
  <2>1. /\ v.kind = "save" /\ Create(v.a, v.text, artifact_rows[v.a].content)
        /\ Show(Len(artifact_rows'), views \ {v}) /\ original' = v.text
        /\ UNCHANGED <<applying, artifact_prop, typed_text, reverted>>
    BY <1>7 DEF VersionSaved
  <2>2. v.a \in ArtifactIds /\ v.text \in Texts
    BY <2>1 DEF EditorInv, EditorType, AsksInv, EditedInv
  <2>3. /\ RowsInv' /\ DiffsInv' /\ Len(artifact_rows') \in ArtifactIds' /\ ArtifactIds \subseteq ArtifactIds'
        /\ \A c \in ArtifactIds : artifact_rows'[c] = artifact_rows[c]
    BY <2>1, <2>2, RowCreated
  <2>4. EditorInv'
    <3>1. typed_text' \in Texts \cup {"none"} /\ original' \in Texts \cup {"none"} /\ reverted' \in BOOLEAN
      BY <2>1, <2>2 DEF EditorInv, EditorType, AsksInv, EditedInv
    <3> QED BY <2>1, <2>3, <3>1, ShowKeeps DEF RowsInv
  <2>5. ApplyingInv'
    BY <2>1, <2>3 DEF ApplyingInv
  <2> QED BY <2>3, <2>4, <2>5
<1>8. ASSUME NEW v \in views, SaveFails(v) PROVE ArtInv'
  <2>1. /\ views' = views \ {v} /\ UNCHANGED storeVars
        /\ UNCHANGED <<edited, typed_text, original, loading, view_count, reverted>>
    BY <1>8 DEF SaveFails
  <2>2. EditorInv'
    BY <2>1, <1>1 DEF EditorInv, EditorType, AsksInv, EditedInv, storeVars
  <2> QED BY <1>1, <2>1, <2>2
<1> QED BY <1>3, <1>4, <1>5, <1>6, <1>7, <1>8

-----------------------------------------------------------------------------
\* A chain of versions from a root down: the k-th is version k, made from the one before.
Linked(h) ==
  /\ Len(h) >= 1
  /\ \A k \in 1..Len(h) : /\ artifact_rows[h[k]].version = k
                         /\ artifact_rows[h[k]].parent = IF k = 1 THEN 0 ELSE h[k - 1]
Chains == {h \in Seq(ArtifactIds) : Linked(h)}

LEMMA AboveIs ==
  ASSUME RowsInv
  PROVE  /\ ArtifactIds = 1..Len(artifact_rows) /\ Len(artifact_rows) \in Nat
         /\ \A c \in ArtifactIds :
              /\ artifact_rows[c].parent \in 0..(c - 1) /\ artifact_rows[c].version \in Nat
              /\ Above(c) \in ArtifactIds
              /\ IF artifact_rows[c].parent = 0 THEN Above(c) = c ELSE Above(c) < c
<1>1. ASSUME NEW c \in ArtifactIds PROVE artifact_rows[c].parent \in 0..(c - 1)
  BY RowIs DEF RowsInv
<1> QED BY <1>1, RowIs DEF Above

\* The run up from parent to parent
UpRun(a, f) == f = [n \in 0..Len(artifact_rows) |-> IF n = 0 THEN a ELSE Above(f[n - 1])]

LEMMA RootIs ==
  ASSUME RowsInv, NEW a \in ArtifactIds
  PROVE  Root(a) \in ArtifactIds /\ artifact_rows[Root(a)].parent = 0
<1> DEFINE N == Len(artifact_rows)
           turn == [nx \in (1..N) \X ArtifactIds |-> Above(nx[2])]
<1>1. N \in Nat /\ ArtifactIds = 1..N
  BY AboveIs
<1>2. turn \in [(1..N) \X ArtifactIds -> ArtifactIds]
  BY AboveIs
<1>3. \E f : UpRun(a, f)
  <2> PICK X : X = ArtifactIds
    OBVIOUS
  <2> PICK h : Recursion(N, X, a, turn, h)
    <3> HIDE DEF N, turn
    <3> QED BY <1>1, <1>2, RecursionTheorem
  <2>1. h \in [0..N -> X] /\ h = [n \in 0..N |-> IF n = 0 THEN a ELSE turn[<<n, h[n - 1]>>]]
    BY DEF Recursion
  <2>2. \A n \in 0..N : n # 0 => <<n, h[n - 1]>> \in (1..N) \X ArtifactIds
    <3>1. h \in [0..N -> X]
      BY <2>1
    <3> HIDE DEF turn
    <3> QED BY <1>1, <3>1
  <2>3. \A n \in 0..N : n # 0 => turn[<<n, h[n - 1]>>] = Above(h[n - 1])
    BY <2>2
  <2> HIDE DEF turn
  <2> QED BY <2>1, <2>3 DEF UpRun
<1>4. Root(a) = (CHOOSE f : UpRun(a, f))[N]
  BY DEF Root, UpRun
<1> PICK f : UpRun(a, f) /\ Root(a) = f[N]
  BY <1>3, <1>4
<1> DEFINE P == {n \in Nat : n <= N =>
                  f[n] \in ArtifactIds /\ (artifact_rows[f[n]].parent # 0 => f[n] <= a - n)}
<1>5. f[0] = a /\ \A n \in Nat : n + 1 <= N => f[n + 1] = Above(f[n])
  BY <1>1 DEF UpRun
<1>6. 0 \in P
  BY <1>1, <1>5
<1>7. ASSUME NEW n \in P PROVE n + 1 \in P
  <2> SUFFICES ASSUME n + 1 <= N
               PROVE  f[n + 1] \in ArtifactIds /\ (artifact_rows[f[n + 1]].parent # 0 => f[n + 1] <= a - (n + 1))
    BY <1>1
  <2>1. f[n] \in ArtifactIds /\ (artifact_rows[f[n]].parent # 0 => f[n] <= a - n) /\ f[n + 1] = Above(f[n])
    BY <1>1, <1>5
  <2>2. /\ Above(f[n]) \in ArtifactIds
        /\ IF artifact_rows[f[n]].parent = 0 THEN Above(f[n]) = f[n] ELSE Above(f[n]) < f[n]
    BY <2>1, AboveIs
  <2> QED BY <1>1, <2>1, <2>2
<1>8. P = Nat
  <2> HIDE DEF P
  <2>1. P \subseteq Nat
    BY DEF P
  <2> QED BY <1>6, <1>7, <2>1, Inductive
<1>9. N \in P
  BY <1>1, <1>8
<1> QED BY <1>1, <1>9

\* The first child of a version is the next one.
LEMMA ExtendedIs == ASSUME RowsInv, NEW h \in Chains PROVE Extended(h) \in Chains
<1> DEFINE n == Len(h)
           cs == Children(Last(h))
<1>1. /\ h \in Seq(ArtifactIds) /\ n \in Nat /\ n >= 1 /\ h[n] \in ArtifactIds /\ Last(h) = h[n]
  BY LenProperties DEF Chains, Linked, Last
<1>2. CASE cs = {}
  BY <1>2 DEF Extended
<1>3. CASE cs # {}
  <2> DEFINE c == First(cs)
  <2>1. c \in cs
    <3>1. cs \subseteq Nat
      BY AboveIs DEF Children
    <3>2. \E m \in cs : \A k \in cs : m <= k
      BY <1>3, <3>1, Least
    <3> QED BY <3>2 DEF First
  <2>2. c \in ArtifactIds /\ artifact_rows[c].parent = h[n] /\ h[n] # 0
    BY <1>1, <2>1, AboveIs DEF Children
  <2>3. artifact_rows[c].version = n + 1
    BY <1>1, <2>2 DEF RowsInv, Chains, Linked
  <2>4. Extended(h) = Append(h, c)
    BY <1>3 DEF Extended
  <2> HIDE DEF c, cs
  <2>5. /\ Append(h, c) \in Seq(ArtifactIds) /\ Len(Append(h, c)) = n + 1
        /\ Append(h, c)[n + 1] = c /\ \A k \in 1..n : Append(h, c)[k] = h[k]
    BY <1>1, <2>2, AppendProperties
  <2>6. ASSUME NEW k \in 1..(n + 1)
        PROVE  /\ artifact_rows[Append(h, c)[k]].version = k
               /\ artifact_rows[Append(h, c)[k]].parent = IF k = 1 THEN 0 ELSE Append(h, c)[k - 1]
    <3>1. CASE k = n + 1
      BY <3>1, <1>1, <2>2, <2>3, <2>5
    <3>2. CASE k \in 1..n
      <4>1. /\ artifact_rows[h[k]].version = k
            /\ artifact_rows[h[k]].parent = IF k = 1 THEN 0 ELSE h[k - 1]
        BY <3>2 DEF Chains, Linked
      <4>2. Append(h, c)[k] = h[k] /\ (k # 1 => k - 1 \in 1..n /\ Append(h, c)[k - 1] = h[k - 1])
        BY <3>2, <1>1, <2>5
      <4> QED BY <4>1, <4>2
    <3> QED BY <1>1, <3>1, <3>2
  <2>7. Linked(Append(h, c))
    BY <1>1, <2>5, <2>6 DEF Linked
  <2>8. Append(h, c) \in Chains
    BY <2>5, <2>7 DEF Chains
  <2> QED BY <2>4, <2>8
<1> QED BY <1>2, <1>3

\* The run down from first child to first child
DownRun(a, f) == f = [n \in 0..Len(artifact_rows) |-> IF n = 0 THEN <<Root(a)>> ELSE Extended(f[n - 1])]

LEMMA HistoryIs == ASSUME RowsInv, NEW a \in ArtifactIds PROVE History(a) \in Chains
<1> DEFINE N == Len(artifact_rows)
           X == Chains
           start == <<Root(a)>>
           turn == [nx \in (1..N) \X X |-> Extended(nx[2])]
<1>1. N \in Nat
  BY AboveIs
<1>2. start \in X
  <2>1. Root(a) \in ArtifactIds /\ artifact_rows[Root(a)].parent = 0 /\ artifact_rows[Root(a)].version = 1
    BY RootIs DEF RowsInv
  <2>2. start \in Seq(ArtifactIds) /\ Len(start) = 1 /\ start[1] = Root(a)
    BY <2>1
  <2> HIDE DEF start
  <2>3. Linked(start)
    BY <2>1, <2>2 DEF Linked
  <2> QED BY <2>2, <2>3 DEF Chains
<1>3. turn \in [(1..N) \X X -> X]
  <2>1. \A h \in X : Extended(h) \in X
    BY ExtendedIs
  <2> HIDE DEF X
  <2> QED BY <2>1
<1>4. PICK h \in [0..N -> X] : h = [n \in 0..N |-> IF n = 0 THEN start ELSE turn[<<n, h[n - 1]>>]]
  <2> HIDE DEF start, N, turn, X
  <2> PICK Y : Y = X
    OBVIOUS
  <2> PICK h : Recursion(N, Y, start, turn, h)
    BY <1>1, <1>2, <1>3, RecursionTheorem
  <2> QED BY DEF Recursion
<1>5. DownRun(a, h)
  <2>1. \A n \in 0..N : n # 0 => <<n, h[n - 1]>> \in (1..N) \X X
    <3> HIDE DEF X
    <3> QED BY <1>1
  <2>2. \A n \in 0..N : n # 0 => turn[<<n, h[n - 1]>>] = Extended(h[n - 1])
    BY <2>1
  <2> HIDE DEF turn
  <2> QED BY <1>4, <2>2 DEF DownRun
<1>6. History(a) = (CHOOSE f : DownRun(a, f))[N]
  BY DEF History, DownRun
<1> PICK f : DownRun(a, f) /\ History(a) = f[N]
  BY <1>5, <1>6
<1> DEFINE P == {n \in Nat : n <= N => f[n] \in X}
<1>7. f[0] = start /\ \A n \in Nat : n + 1 <= N => f[n + 1] = Extended(f[n])
  BY <1>1 DEF DownRun
<1>8. 0 \in P
  BY <1>2, <1>7
<1>9. ASSUME NEW n \in P PROVE n + 1 \in P
  <2> SUFFICES ASSUME n + 1 <= N PROVE f[n + 1] \in X
    OBVIOUS
  <2>1. f[n] \in X /\ f[n + 1] = Extended(f[n])
    BY <1>1, <1>7
  <2> QED BY <2>1, ExtendedIs
<1>10. P = Nat
  <2> HIDE DEF P
  <2>1. P \subseteq Nat
    BY DEF P
  <2> QED BY <1>8, <1>9, <2>1, Inductive
<1>11. N \in P
  BY <1>1, <1>10
<1> QED BY <1>11

\* The panel is the history the other way round.
LEMMA PanelIs ==
  ASSUME RowsInv, NEW a \in ArtifactIds
  PROVE  \E h \in Chains : /\ DOMAIN Panel(a) = 1..Len(h) /\ Len(Panel(a)) = Len(h)
                           /\ \A k \in 1..Len(h) : Panel(a)[k] = h[Len(h) + 1 - k]
<1> PICK h \in Chains : h = History(a)
  BY HistoryIs
<1> DEFINE n == Len(h)
<1>1. h \in Seq(ArtifactIds) /\ n \in Nat /\ DOMAIN h = 1..n
  BY LenProperties DEF Chains
<1>2. ASSUME NEW i \in 1..n PROVE Cardinality(UpTo(h, i)) = n - i + 1
  <2>1. \A j \in 1..n : artifact_rows[h[j]].version = j
    BY DEF Chains, Linked
  <2>2. UpTo(h, i) = i..n
    BY <1>1, <2>1 DEF UpTo
  <2> QED BY <1>1, <2>2, FS_Interval
<1>3. ASSUME NEW k \in 1..n PROVE (CHOOSE i \in 1..n : Cardinality(UpTo(h, i)) = k) = n + 1 - k
  <2>1. n + 1 - k \in 1..n /\ \A i \in 1..n : (n - i + 1 = k) <=> (i = n + 1 - k)
    BY <1>1
  <2>2. \A i \in 1..n : Cardinality(UpTo(h, i)) = k <=> i = n + 1 - k
    BY <1>2, <2>1
  <2> HIDE DEF n
  <2> QED BY <2>1, <2>2
<1>4. Panel(a) = [k \in 1..n |-> h[CHOOSE i \in 1..n : Cardinality(UpTo(h, i)) = k]]
  BY <1>1 DEF Panel
<1>5. \A k \in 1..n : Panel(a)[k] = h[n + 1 - k]
  <2> DEFINE place(k) == CHOOSE i \in 1..n : Cardinality(UpTo(h, i)) = k
  <2>1. \A k \in 1..n : place(k) = n + 1 - k
    BY <1>3
  <2>2. Panel(a) = [k \in 1..n |-> h[place(k)]]
    BY <1>4
  <2> HIDE DEF place, n
  <2> QED BY <2>1, <2>2
<1>6. Len(Panel(a)) = n
  BY <1>1, <1>4
<1> QED BY <1>4, <1>5, <1>6

LEMMA PanelListed == ASSUME RowsInv, NEW a \in ArtifactIds PROVE \A i \in DOMAIN Panel(a) : Panel(a)[i] \in ArtifactIds
<1> PICK h \in Chains : /\ DOMAIN Panel(a) = 1..Len(h) /\ Len(Panel(a)) = Len(h)
                       /\ \A k \in 1..Len(h) : Panel(a)[k] = h[Len(h) + 1 - k]
  BY PanelIs
<1>1. h \in Seq(ArtifactIds) /\ Len(h) \in Nat
  BY LenProperties DEF Chains
<1> QED BY <1>1

LEMMA ComparedIs ==
  ASSUME RowsInv, NEW a \in ArtifactIds, NEW i \in DOMAIN Panel(a)
  PROVE  ComparedWith(a, i) = artifact_rows[Panel(a)[i]].parent
<1> PICK h \in Chains : /\ DOMAIN Panel(a) = 1..Len(h) /\ Len(Panel(a)) = Len(h)
                       /\ \A k \in 1..Len(h) : Panel(a)[k] = h[Len(h) + 1 - k]
  BY PanelIs
<1> DEFINE n == Len(h)
           k == n + 1 - i
<1>1. h \in Seq(ArtifactIds) /\ n \in Nat /\ i \in 1..n /\ k \in 1..n
  BY LenProperties DEF Chains
<1>2. artifact_rows[h[k]].parent = (IF k = 1 THEN 0 ELSE h[k - 1]) /\ Panel(a)[i] = h[k]
  <2>1. \A j \in 1..n : artifact_rows[h[j]].parent = IF j = 1 THEN 0 ELSE h[j - 1]
    BY DEF Chains, Linked
  <2>2. Panel(a)[i] = h[k]
    BY <1>1
  <2> HIDE DEF k, n
  <2> QED BY <1>1, <2>1, <2>2
<1>3. CASE i < n
  <2>1. i + 1 \in 1..n /\ n + 1 - (i + 1) = k - 1 /\ k # 1
    <3>1. n \in Nat /\ i \in 1..n /\ i < n
      BY <1>1, <1>3
    <3> HIDE DEF n
    <3> QED BY <3>1
  <2>2. Panel(a)[i + 1] = h[k - 1]
    BY <2>1
  <2>3. ComparedWith(a, i) = Panel(a)[i + 1]
    BY <1>3 DEF ComparedWith
  <2> HIDE DEF k
  <2> QED BY <1>2, <2>1, <2>2, <2>3
<1>4. CASE i = n
  BY <1>1, <1>2, <1>4 DEF ComparedWith
<1> QED BY <1>1, <1>3, <1>4

-----------------------------------------------------------------------------
LEMMA ArtStarts == ArtInit => ArtInv
<1> SUFFICES ASSUME ArtInit PROVE ArtInv
  OBVIOUS
<1>1. RowsInv
  BY EmptySeq DEF ArtInit, RowsInv, ArtifactIds
<1>2. DiffsInv /\ ApplyingInv
  BY DEF ArtInit, DiffsInv, ApplyingInv
<1>3. EditorInv
  <2>1. EditorType
    <3>1. reverted \in BOOLEAN
      BY DEF ArtInit
    <3>2. /\ views \subseteq EditorAsk /\ view_count \in Nat /\ loading \in 0..view_count
          /\ typed_text \in Texts \cup {"none"} /\ original \in Texts \cup {"none"}
          /\ edited \in ArtifactIds \cup {0}
      BY DEF ArtInit
    <3> QED BY <3>1, <3>2 DEF EditorType
  <2>2. AsksInv /\ EditedInv
    BY DEF ArtInit, AsksInv, EditedInv
  <2> QED BY <2>1, <2>2 DEF EditorInv
<1> QED BY <1>1, <1>2, <1>3 DEF ArtInv

LEMMA ArtStep == ArtInv /\ [ArtNext]_artVars => ArtInv'
<1> SUFFICES ASSUME ArtInv, [ArtNext]_artVars PROVE ArtInv'
  OBVIOUS
<1>1. CASE UNCHANGED artVars
  BY <1>1 DEF artVars, ArtInv, RowsInv, DiffsInv, ApplyingInv, EditorInv, EditorType, AsksInv, EditedInv, ArtifactIds
<1>2. ASSUME NEW text \in Texts, CreateArtifact(text) \/ Type(text) PROVE ArtInv'
  BY <1>2, StoreStepKeeps, EditorKeeps
<1>3. ASSUME NEW r \in Requesters,
             \/ \E base \in ArtifactIds, before, after \in Texts : ApplyDiff(r, base, before, after)
             \/ DiffApplied(r) \/ DiffConflicts(r)
      PROVE  ArtInv'
  BY <1>3, StoreStepKeeps
<1>4. ASSUME NEW a \in ArtifactIds, OpenEditor(a) PROVE ArtInv'
  BY <1>4, EditorKeeps
<1>5. ASSUME NEW i \in 1..MaxArtifacts, CompareOldest(i) PROVE ArtInv'
  <2>1. edited \in ArtifactIds /\ i \in DOMAIN Panel(edited)
    BY <1>5 DEF CompareOldest, ArtInv, EditorInv, EditorType, AsksInv, EditedInv
  <2>2. Panel(edited)[i] \in ArtifactIds /\ i \in Nat
    BY <2>1, PanelListed, ArtifactsAssumption DEF ArtInv
  <2> QED BY <1>5, <2>2, AnswerKeeps
<1>6. CASE Save
  BY <1>6, EditorKeeps
<1>7. ASSUME NEW v \in views,
             ContentLoaded(v) \/ LoadFails(v) \/ OldestLoaded(v) \/ VersionSaved(v) \/ SaveFails(v)
      PROVE  ArtInv'
  BY <1>7, AnswerKeeps
<1> QED BY <1>1, <1>2, <1>3, <1>4, <1>5, <1>6, <1>7 DEF ArtNext

\* What is known of the artifacts, the requests and the editor in every state of every
\* behaviour of the module.
THEOREM ArtifactsInvariance == ArtSpec => []ArtInv
BY ArtStarts, ArtStep, PTL DEF ArtSpec

LEMMA VersionsShow == ArtInv => VersionsSound
<1> SUFFICES ASSUME ArtInv PROVE VersionsSound
  OBVIOUS
<1>1. \A a \in ArtifactIds : \A i \in DOMAIN Panel(a) : ComparedWith(a, i) = artifact_rows[Panel(a)[i]].parent
  BY ComparedIs DEF ArtInv
<1> QED BY <1>1 DEF ArtInv, DiffsInv, EditorInv, EditedInv, VersionsSound

\* Whichever requests ran side by side and in whatever order their answers came, a diff
\* message shows the change it stands for, the panel compares every version with the one
\* it was made from, and the editor with the artifact a save will name.
THEOREM VersionsAreSound == ArtSpec => []VersionsSound
BY ArtifactsInvariance, VersionsShow, PTL
=============================================================================
