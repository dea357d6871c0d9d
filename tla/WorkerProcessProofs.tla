------------------------- MODULE WorkerProcessProofs -------------------------
(***************************************************************************)
(* Proofs about the process lane, for any number of ids and any bounds: a  *)
(* caller that is told its call never ran is told the truth, the close     *)
(* summary blames the right side, and no caller dies with the pump.        *)
(*                                                                         *)
(* The argument for the summary is an agreement between two tables that    *)
(* frames in two sockets separate.  While the worker keeps the protocol,   *)
(* the session and the worker agree on every id (Ties), a frame on its way *)
(* to the worker keeps them in agreement when it arrives (Backed), and the *)
(* frames on their way to the host are ones the session is ready for, in   *)
(* their order and whatever the host does meanwhile (Ready).  Keeps is     *)
(* what a step of the host preserves of that; Takes is what a frame does.  *)
(***************************************************************************)
EXTENDS WorkerProcess, TLAPS

Phases == {"hello", "active", "closed"}
HostStates == {"fresh", "open", "spent"}
WorkerStates == {"fresh", "open", "spent", "void"}
HandleStates == {"fresh", "live", "reclaimed", "released", "void"}
OfferStates == {"fresh", "offered", "pending", "released"}

\* The frames the host sends, and the events a session reports.
Messages ==
    {<<"goodbye">>, <<"accept">>, <<"refuse">>}
    \cup ({"call", "cancel"} \X HostIds) \cup ({"release"} \X OfferIds)
    \cup ({"ack"} \X HandleIds) \cup ({"reply"} \X WorkerIds \X SUBSET HandleIds)

News ==
    {<<"active">>} \cup ({"over"} \X {"goodbye", "protocol", "midframe", "disconnect"})
    \cup ({"lost"} \X HostIds \X {"unknown", "cancelled"}) \cup ({"settled"} \X HostIds)
    \cup ({"acked"} \X OfferIds) \cup ({"call", "cancel"} \X WorkerIds)

Sessions ==
    [phase : Phases, host : [HostIds -> HostStates], worker : [WorkerIds -> WorkerStates],
     handle : [HandleIds -> HandleStates], minted : [HandleIds -> WorkerIds \cup {NoCall}],
     offer : [OfferIds -> OfferStates], out : Seq(Messages), news : SUBSET News]

\* The fields of a session.
LEMMA Fields ==
  ASSUME NEW s \in Sessions
  PROVE  /\ s.phase \in Phases /\ s.host \in [HostIds -> HostStates]
         /\ s.worker \in [WorkerIds -> WorkerStates] /\ s.handle \in [HandleIds -> HandleStates]
         /\ s.minted \in [HandleIds -> WorkerIds \cup {NoCall}]
         /\ s.offer \in [OfferIds -> OfferStates]
         /\ s.out \in Seq(Messages) /\ s.news \in SUBSET News
BY DEF Sessions

\* Everything but the queue of frames, and everything but the news.
SameTables(s, t) ==
    /\ t.phase = s.phase /\ t.host = s.host /\ t.worker = s.worker
    /\ t.handle = s.handle /\ t.minted = s.minted /\ t.offer = s.offer

\* The members of a queue that has grown.
LEMMA AppendSet ==
  ASSUME NEW S, NEW q \in Seq(S), NEW m \in S
  PROVE  Append(q, m) \in Seq(S) /\ \A x : x \in Range(Append(q, m)) <=> x \in Range(q) \/ x = m
<1>1. /\ Append(q, m) \in Seq(S) /\ Len(q) \in Nat /\ DOMAIN q = 1..Len(q)
      /\ DOMAIN Append(q, m) = 1..(Len(q) + 1)
      /\ \A i \in 1..Len(q) : Append(q, m)[i] = q[i]
      /\ Append(q, m)[Len(q) + 1] = m
  OBVIOUS
<1>2. \A x : x \in Range(q) <=> \E i \in 1..Len(q) : x = q[i]
  BY <1>1, Zenon DEF Range
<1>3. \A x : x \in Range(Append(q, m)) <=> \E i \in 1..(Len(q) + 1) : x = Append(q, m)[i]
  BY <1>1, Zenon DEF Range
<1>4. ASSUME NEW x PROVE x \in Range(Append(q, m)) <=> x \in Range(q) \/ x = m
  <2>1. (\E i \in 1..(Len(q) + 1) : x = Append(q, m)[i]) <=> (\E i \in 1..Len(q) : x = q[i]) \/ x = m
    BY <1>1
  <2> QED BY <1>2, <1>3, <2>1, Zenon
<1> QED BY <1>1, <1>4, Zenon

\* A frame is queued.
LEMMA Sends ==
  ASSUME NEW s \in Sessions, NEW m \in Messages
  PROVE  /\ Send(s, m) \in Sessions /\ SameTables(s, Send(s, m)) /\ Send(s, m).news = s.news
         /\ \A x : x \in Range(Send(s, m).out) <=> x \in Range(s.out) \/ x = m
<1>1. s.out \in Seq(Messages) /\ Append(s.out, m) \in Seq(Messages)
  BY Fields, AppendSet, Zenon
<1> DEFINE q == Append(s.out, m)
<1>2. Send(s, m) = [s EXCEPT !.out = q]
  BY DEF Send
<1>3. q \in Seq(Messages)
  BY <1>1
<1> HIDE DEF q
<1>4. Send(s, m) \in Sessions /\ SameTables(s, Send(s, m)) /\ Send(s, m).news = s.news
      /\ Send(s, m).out = q
  BY <1>2, <1>3, Zenon DEF Sessions, SameTables
<1> QED BY <1>1, <1>4, AppendSet, Zenon DEF q

\* An event is reported.
LEMMA Reports ==
  ASSUME NEW s \in Sessions, NEW e \in News
  PROVE  /\ Report(s, e) \in Sessions /\ SameTables(s, Report(s, e)) /\ Report(s, e).out = s.out
         /\ Report(s, e).news = s.news \cup {e}
<1> DEFINE n == s.news \cup {e}
<1>1. Report(s, e) = [s EXCEPT !.news = n] /\ n \in SUBSET News
  BY Fields DEF Report
<1> HIDE DEF n
<1>2. /\ Report(s, e) \in Sessions /\ SameTables(s, Report(s, e)) /\ Report(s, e).out = s.out
      /\ Report(s, e).news = n
  BY <1>1 DEF Sessions, SameTables
<1> QED BY <1>2, Zenon DEF n

\* What the ends of a session have in common.
LEMMA Ends ==
  ASSUME NEW s \in Sessions, NEW end \in {"unknown", "cancelled"}
  PROVE  /\ Ended(s, end) \in Sessions /\ Ended(s, end).phase = "closed"
         /\ Ended(s, end).out = s.out
         /\ \A c \in HostIds : Ended(s, end).host[c] = IF s.host[c] = "open" THEN "spent" ELSE s.host[c]
         /\ \A e : e \in Ended(s, end).news
                     <=> e \in s.news \/ \E c \in HostIds : s.host[c] = "open" /\ e = <<"lost", c, end>>
<1> DEFINE host == With(s.host, Where(s.host, "open"), "spent")
           worker == With(s.worker, Where(s.worker, "open"), "void")
           handle == With(s.handle, Where(s.handle, "live") \cup Where(s.handle, "reclaimed"), "void")
           offer == With(s.offer, Where(s.offer, "pending"), "offered")
           news == s.news \cup {<<"lost", c, end>> : c \in Where(s.host, "open")}
<1>1. Ended(s, end) = [s EXCEPT !.phase = "closed", !.host = host, !.worker = worker,
                                !.handle = handle, !.offer = offer, !.news = news]
  BY DEF Ended
<1>2. host \in [HostIds -> HostStates] /\ worker \in [WorkerIds -> WorkerStates]
  BY Fields DEF With, Where, HostStates, WorkerStates
<1>3. handle \in [HandleIds -> HandleStates] /\ offer \in [OfferIds -> OfferStates]
  BY Fields DEF With, Where, HandleStates, OfferStates
<1>4. news \in SUBSET News
  BY Fields DEF News, Where
<1>5. \A c \in HostIds : host[c] = IF s.host[c] = "open" THEN "spent" ELSE s.host[c]
  BY Fields DEF With, Where
<1>6. \A e : e \in news <=> e \in s.news \/ \E c \in HostIds : s.host[c] = "open" /\ e = <<"lost", c, end>>
  <2>1. DOMAIN s.host = HostIds
    BY Fields
  <2> QED BY <2>1, Zenon DEF Where
<1> HIDE DEF host, worker, handle, offer, news
<1>7. Ended(s, end) \in Sessions
  BY <1>1, <1>2, <1>3, <1>4, Zenon DEF Sessions, Phases
<1>8. /\ Ended(s, end).phase = "closed" /\ Ended(s, end).out = s.out
      /\ Ended(s, end).host = host /\ Ended(s, end).news = news
  BY <1>1 DEF Sessions
<1> QED BY <1>5, <1>6, <1>7, <1>8

-----------------------------------------------------------------------------
(* What a frame does to a session *)

NoOpen(s) == s.phase = "active" \/ \A c \in HostIds : s.host[c] # "open"

\* A frame that the session takes without fault.
Expected(s, f) ==
    /\ f[1] # "garbage" /\ (f[1] = "hello" <=> s.phase = "hello")
    /\ f[1] \in {"app", "law"} => s.worker[f[2]] = "fresh"
    /\ f[1] = "reply" => s.host[f[2]] # "fresh" /\ (f[3] # NoOffer => s.offer[f[3]] = "fresh")
    /\ f[1] = "release" => s.handle[f[2]] \in {"live", "reclaimed"}
    /\ f[1] = "ack" => s.offer[f[2]] = "pending"

\* The calls, the phase and the news when the session goes from s to t on f.
TakesCalls(s, f, t) ==
    /\ \A c \in HostIds :
          \/ t.host[c] = s.host[c]
          \/ s.host[c] = "open" /\ t.host[c] = "spent" /\ EndsOf(t, c) # {}
    /\ \/ t.phase = s.phase
       \/ s.phase = "hello" /\ t.phase = "active" /\ f[1] = "hello"
       \/ t.phase = "closed" /\ Over(t)
    /\ NoOpen(s) => NoOpen(t)

TakesTables(s, f, t) ==
    t.phase # "closed" =>
        /\ \A w \in WorkerIds : t.worker[w] = s.worker[w] \/ (f[1] \in {"app", "law"} /\ f[2] = w)
        /\ \A h \in HandleIds :
              \/ t.handle[h] = s.handle[h]
              \/ /\ f[1] = "release" /\ f[2] = h
                 /\ s.handle[h] \in {"live", "reclaimed"} /\ t.handle[h] = "released"
        /\ \A o \in OfferIds :
              \/ t.offer[o] = s.offer[o]
              \/ f[1] = "reply" /\ f[3] = o /\ s.offer[o] = "fresh" /\ t.offer[o] = "offered"
              \/ f[1] = "ack" /\ f[2] = o /\ s.offer[o] = "pending" /\ t.offer[o] = "released"

TakesNews(s, f, t) ==
    /\ s.news \subseteq t.news
    /\ \A c \in HostIds : Told(t, <<"lost", c, "cancelled">>)
                            => Told(s, <<"lost", c, "cancelled">>) \/ f[1] = "goodbye"
    /\ \A o \in OfferIds : Told(t, <<"acked", o>>)
                             => Told(s, <<"acked", o>>) \/ (f[1] = "ack" /\ f[2] = o)
    /\ Told(t, <<"over", "goodbye">>) => Told(s, <<"over", "goodbye">>) \/ f[1] = "goodbye"
    /\ Told(t, <<"over", "disconnect">>) => Told(s, <<"over", "disconnect">>)
    /\ Told(t, <<"over", "midframe">>) => Told(s, <<"over", "midframe">>)
    /\ Told(t, <<"over", "protocol">>) => Told(s, <<"over", "protocol">>) \/ ~Expected(s, f)

\* A frame is answered by frames that neither call the worker, nor ask it for anything,
\* nor hand it a handle.
TakesOut(s, t) ==
    \A m \in Range(t.out) :
        \/ m \in Range(s.out)
        \/ m[1] \in {"ack", "goodbye", "accept", "refuse"}
        \/ m[1] = "reply" /\ m[3] = {}

Takes(s, f, t) ==
    t \in Sessions /\ TakesCalls(s, f, t) /\ TakesTables(s, f, t) /\ TakesNews(s, f, t) /\ TakesOut(s, t)

\* The frames the session answers with, and its events.
LEMMA Kinds ==
  /\ {<<"goodbye">>, <<"accept">>, <<"refuse">>} \subseteq Messages
  /\ \A c \in HostIds : <<"call", c>> \in Messages /\ <<"cancel", c>> \in Messages
  /\ \A o \in OfferIds : <<"release", o>> \in Messages
  /\ \A h \in HandleIds : <<"ack", h>> \in Messages
  /\ \A w \in WorkerIds : \A H \in SUBSET HandleIds : <<"reply", w, H>> \in Messages
  /\ <<"active">> \in News
  /\ \A cause \in {"goodbye", "protocol", "midframe", "disconnect"} : <<"over", cause>> \in News
  /\ \A c \in HostIds : <<"settled", c>> \in News
  /\ \A c \in HostIds : \A end \in {"unknown", "cancelled"} : <<"lost", c, end>> \in News
  /\ \A o \in OfferIds : <<"acked", o>> \in News
  /\ \A w \in WorkerIds : <<"call", w>> \in News /\ <<"cancel", w>> \in News
<1>1. /\ {<<"goodbye">>, <<"accept">>, <<"refuse">>} \subseteq Messages
      /\ \A c \in HostIds : <<"call", c>> \in Messages /\ <<"cancel", c>> \in Messages
      /\ \A o \in OfferIds : <<"release", o>> \in Messages
      /\ \A h \in HandleIds : <<"ack", h>> \in Messages
  BY DEF Messages
<1>2. \A w \in WorkerIds : \A H \in SUBSET HandleIds : <<"reply", w, H>> \in Messages
  BY DEF Messages
<1>3. /\ <<"active">> \in News
      /\ \A cause \in {"goodbye", "protocol", "midframe", "disconnect"} : <<"over", cause>> \in News
      /\ \A c \in HostIds : <<"settled", c>> \in News
      /\ \A o \in OfferIds : <<"acked", o>> \in News
      /\ \A w \in WorkerIds : <<"call", w>> \in News /\ <<"cancel", w>> \in News
  BY DEF News
<1>4. \A c \in HostIds : \A end \in {"unknown", "cancelled"} : <<"lost", c, end>> \in News
  BY DEF News
<1> QED BY <1>1, <1>2, <1>3, <1>4, Zenon

\* Events of different kinds are different.
LEMMA Apart ==
  /\ \A x, y, z : /\ <<"lost", x, y>> # <<"over", z>> /\ <<"lost", x, y>> # <<"acked", z>>
                  /\ <<"lost", x, y>> # <<"settled", z>> /\ <<"lost", x, y>> # <<"active">>
                  /\ <<"lost", x, y>> # <<"call", z>> /\ <<"lost", x, y>> # <<"cancel", z>>
  /\ \A x, y : /\ <<"over", x>> # <<"acked", y>> /\ <<"over", x>> # <<"settled", y>>
               /\ <<"over", x>> # <<"call", y>> /\ <<"over", x>> # <<"cancel", y>>
               /\ <<"over", x>> # <<"active">>
               /\ <<"acked", x>> # <<"settled", y>> /\ <<"acked", x>> # <<"call", y>>
               /\ <<"acked", x>> # <<"cancel", y>> /\ <<"acked", x>> # <<"active">>
  /\ \A x, y, u, v : <<"lost", x, y>> = <<"lost", u, v>> => x = u /\ y = v
  /\ \A x, y : <<"over", x>> = <<"over", y>> => x = y
  /\ \A x, y : <<"acked", x>> = <<"acked", y>> => x = y
<1>1. \A x, y, z : /\ <<"lost", x, y>> # <<"over", z>> /\ <<"lost", x, y>> # <<"acked", z>>
                   /\ <<"lost", x, y>> # <<"settled", z>> /\ <<"lost", x, y>> # <<"active">>
                   /\ <<"lost", x, y>> # <<"call", z>> /\ <<"lost", x, y>> # <<"cancel", z>>
  OBVIOUS
<1>2. \A x, y : /\ <<"over", x>> # <<"acked", y>> /\ <<"over", x>> # <<"settled", y>>
               /\ <<"over", x>> # <<"call", y>> /\ <<"over", x>> # <<"cancel", y>>
               /\ <<"over", x>> # <<"active">>
               /\ <<"acked", x>> # <<"settled", y>> /\ <<"acked", x>> # <<"call", y>>
               /\ <<"acked", x>> # <<"cancel", y>> /\ <<"acked", x>> # <<"active">>
  OBVIOUS
<1>3. /\ \A x, y, u, v : <<"lost", x, y>> = <<"lost", u, v>> => x = u /\ y = v
      /\ \A x, y : <<"over", x>> = <<"over", y>> => x = y
      /\ \A x, y : <<"acked", x>> = <<"acked", y>> => x = y
  OBVIOUS
<1> QED BY <1>1, <1>2, <1>3, Zenon

\* A session that a frame ends, with the news it has of it.
LEMMA Closing ==
  ASSUME NEW s \in Sessions, NEW f, NEW t \in Sessions, t.phase = "closed",
         NEW end \in {"unknown", "cancelled"}, NEW cause \in {"goodbye", "protocol"},
         \A c \in HostIds : t.host[c] = IF s.host[c] = "open" THEN "spent" ELSE s.host[c],
         \A e : e \in t.news <=> \/ e \in s.news
                                 \/ \E c \in HostIds : s.host[c] = "open" /\ e = <<"lost", c, end>>
                                 \/ e = <<"over", cause>>,
         end = "cancelled" => f[1] = "goodbye", cause = "goodbye" => f[1] = "goodbye",
         cause = "protocol" => ~Expected(s, f), TakesOut(s, t)
  PROVE  Takes(s, f, t)
<1>1. TakesCalls(s, f, t)
  <2>1. Over(t)
    BY Zenon DEF Over, Causes, Told
  <2>2. ASSUME NEW c \in HostIds, s.host[c] = "open" PROVE EndsOf(t, c) # {}
    <3>1. Told(t, <<"lost", c, end>>)
      BY <2>2, Zenon DEF Told
    <3> QED BY <3>1, Zenon DEF EndsOf
  <2>3. \A c \in HostIds : t.host[c] # "open"
    OBVIOUS
  <2> QED BY <2>1, <2>2, <2>3, Zenon DEF TakesCalls, NoOpen
<1>2. TakesTables(s, f, t)
  BY Zenon DEF TakesTables
<1>3. TakesNews(s, f, t)
  <2>1. s.news \subseteq t.news
    BY Zenon
  <2>2. ASSUME NEW e \in t.news, e \notin s.news
        PROVE  (\E c \in HostIds : e = <<"lost", c, end>>) \/ e = <<"over", cause>>
    BY <2>2, Zenon
  <2>3. ASSUME NEW c \in HostIds, Told(t, <<"lost", c, "cancelled">>),
               ~Told(s, <<"lost", c, "cancelled">>)
        PROVE  f[1] = "goodbye"
    <3>1. end = "cancelled"
      BY <2>2, <2>3, Apart DEF Told
    <3> QED BY <3>1
  <2>4. ASSUME NEW o \in OfferIds, Told(t, <<"acked", o>>), ~Told(s, <<"acked", o>>)
        PROVE  FALSE
    BY <2>2, <2>4, Apart DEF Told
  <2>5. ASSUME NEW x, Told(t, <<"over", x>>), ~Told(s, <<"over", x>>)
        PROVE  x = cause
    BY <2>2, <2>5, Apart DEF Told
  <2>6. /\ Told(t, <<"over", "goodbye">>) => Told(s, <<"over", "goodbye">>) \/ f[1] = "goodbye"
        /\ Told(t, <<"over", "protocol">>) => Told(s, <<"over", "protocol">>) \/ ~Expected(s, f)
    BY <2>5, Zenon
  <2>7. /\ Told(t, <<"over", "disconnect">>) => Told(s, <<"over", "disconnect">>)
        /\ Told(t, <<"over", "midframe">>) => Told(s, <<"over", "midframe">>)
    <3>1. cause # "disconnect" /\ cause # "midframe"
      OBVIOUS
    <3> QED BY <2>5, <3>1, Zenon
  <2> QED BY <2>1, <2>3, <2>4, <2>6, <2>7, Zenon DEF TakesNews
<1> QED BY <1>1, <1>2, <1>3, Zenon DEF Takes

\* A session that a frame leaves as it is, except for an answer and an event.
LEMMA Stays ==
  ASSUME NEW s \in Sessions, NEW f, NEW t \in Sessions, SameTables(s, t), s.news \subseteq t.news,
         \A e \in t.news : e \in s.news \/ \E w : e = <<"call", w>> \/ e = <<"cancel", w>>,
         TakesOut(s, t)
  PROVE  Takes(s, f, t)
<1>1. TakesCalls(s, f, t) /\ TakesTables(s, f, t)
  BY Zenon DEF TakesCalls, TakesTables, SameTables, NoOpen
<1>2. TakesNews(s, f, t)
  BY Apart, Zenon DEF TakesNews, Told
<1> QED BY <1>1, <1>2, Zenon DEF Takes

\* fatal, on a session that is not over.
LEMMA FatalEnds ==
  ASSUME NEW s \in Sessions, s.phase # "closed", NEW cause \in {"goodbye", "protocol", "midframe", "disconnect"}
  PROVE  LET t == Fatal(s, cause) IN
         /\ t \in Sessions /\ t.phase = "closed" /\ TakesOut(s, t)
         /\ \A c \in HostIds : t.host[c] = IF s.host[c] = "open" THEN "spent" ELSE s.host[c]
         /\ \A x : x \in t.news <=> \/ x \in s.news
                                    \/ \E c \in HostIds : s.host[c] = "open" /\ x = <<"lost", c, "unknown">>
                                    \/ x = <<"over", cause>>
<1> DEFINE d == Ended(s, "unknown")
           e == Report(d, <<"over", cause>>)
           t == Fatal(s, cause)
<1>1. /\ d \in Sessions /\ d.phase = "closed" /\ d.out = s.out
      /\ \A c \in HostIds : d.host[c] = IF s.host[c] = "open" THEN "spent" ELSE s.host[c]
      /\ \A x : x \in d.news
           <=> x \in s.news \/ \E c \in HostIds : s.host[c] = "open" /\ x = <<"lost", c, "unknown">>
  BY Ends, Zenon
<1>2. /\ e \in Sessions /\ SameTables(d, e) /\ e.out = d.out
      /\ e.news = d.news \cup {<<"over", cause>>}
  <2>1. <<"over", cause>> \in News
    BY Kinds, Zenon
  <2> HIDE DEF d
  <2> QED BY <1>1, <2>1, Reports, Zenon
<1>3. /\ t \in Sessions /\ SameTables(e, t) /\ t.news = e.news
      /\ \A x : x \in Range(t.out) => x \in Range(s.out) \/ x = <<"goodbye">>
  <2>1. CASE s.phase = "active"
    <3>1. t = Send(e, <<"goodbye">>)
      BY <2>1, Zenon DEF Fatal
    <3>2. <<"goodbye">> \in Messages
      BY Kinds, Zenon
    <3> HIDE DEF e, t
    <3> QED BY <1>1, <1>2, <3>1, <3>2, Sends, Zenon
  <2>2. CASE s.phase # "active"
    <3>1. t = e
      BY <2>2, Zenon DEF Fatal
    <3> QED BY <1>1, <1>2, <3>1, Zenon DEF SameTables
  <2> QED BY <2>1, <2>2
<1> HIDE DEF d, e, t
<1>4. TakesOut(s, t)
  <2>1. <<"goodbye">>[1] = "goodbye"
    OBVIOUS
  <2> QED BY <1>3, <2>1, Zenon DEF TakesOut
<1>5. /\ t.phase = "closed"
      /\ \A c \in HostIds : t.host[c] = IF s.host[c] = "open" THEN "spent" ELSE s.host[c]
  BY <1>1, <1>2, <1>3, Zenon DEF SameTables
<1>6. \A x : x \in t.news <=> \/ x \in s.news
                              \/ \E c \in HostIds : s.host[c] = "open" /\ x = <<"lost", c, "unknown">>
                              \/ x = <<"over", cause>>
  BY <1>1, <1>2, <1>3, Zenon
<1> QED BY <1>3, <1>4, <1>5, <1>6, Zenon DEF t

\* fatal on a frame that was not expected.
LEMMA FatalTakes ==
  ASSUME NEW s \in Sessions, NEW f, ~Expected(s, f)
  PROVE  Takes(s, f, Fatal(s, "protocol"))
<1>1. CASE s.phase = "closed"
  <2>1. Fatal(s, "protocol") = s
    BY <1>1, Zenon DEF Fatal
  <2> QED BY <2>1, Stays, Zenon DEF SameTables, TakesOut
<1>2. CASE s.phase # "closed"
  <2> DEFINE t == Fatal(s, "protocol")
  <2>1. /\ t \in Sessions /\ t.phase = "closed" /\ TakesOut(s, t)
        /\ \A c \in HostIds : t.host[c] = IF s.host[c] = "open" THEN "spent" ELSE s.host[c]
        /\ \A x : x \in t.news <=> \/ x \in s.news
                                   \/ \E c \in HostIds : s.host[c] = "open" /\ x = <<"lost", c, "unknown">>
                                   \/ x = <<"over", "protocol">>
    BY <1>2, FatalEnds, Zenon
  <2> HIDE DEF t
  <2>2. "unknown" # "cancelled" /\ "protocol" # "goodbye"
    OBVIOUS
  <2>3. Takes(s, f, t)
    BY <2>1, <2>2, Closing
  <2> QED BY <2>3, Zenon DEF t
<1> QED BY <1>1, <1>2

\* The worker's goodbye.
LEMMA GoodbyeTakes ==
  ASSUME NEW s \in Sessions, NEW f, f[1] = "goodbye"
  PROVE  Takes(s, f, OnGoodbye(s))
<1> DEFINE d == Ended(s, "cancelled")
           t == OnGoodbye(s)
<1>1. /\ d \in Sessions /\ d.phase = "closed" /\ d.out = s.out
      /\ \A c \in HostIds : d.host[c] = IF s.host[c] = "open" THEN "spent" ELSE s.host[c]
      /\ \A x : x \in d.news
           <=> x \in s.news \/ \E c \in HostIds : s.host[c] = "open" /\ x = <<"lost", c, "cancelled">>
  BY Ends, Zenon
<1>2. /\ t \in Sessions /\ SameTables(d, t) /\ t.out = d.out
      /\ t.news = d.news \cup {<<"over", "goodbye">>}
  BY <1>1, Kinds, Reports, Zenon DEF OnGoodbye
<1> HIDE DEF d, t
<1>3. TakesOut(s, t)
  BY <1>1, <1>2, Zenon DEF TakesOut
<1>4. /\ t.phase = "closed"
      /\ \A c \in HostIds : t.host[c] = IF s.host[c] = "open" THEN "spent" ELSE s.host[c]
  BY <1>1, <1>2, Zenon DEF SameTables
<1>5. \A x : x \in t.news <=> \/ x \in s.news
                              \/ \E c \in HostIds : s.host[c] = "open" /\ x = <<"lost", c, "cancelled">>
                              \/ x = <<"over", "goodbye">>
  BY <1>1, <1>2, Zenon
<1>6. "goodbye" # "protocol"
  OBVIOUS
<1>7. Takes(s, f, t)
  BY <1>2, <1>3, <1>4, <1>5, <1>6, Closing
<1> QED BY <1>7, Zenon DEF t

\* on_pre_negotiation, and garbage before the hello.
LEMMA HelloTakes ==
  ASSUME NEW s \in Sessions, NEW f, s.phase = "hello"
  PROVE  Takes(s, f, OnFrame(s, f))
<1>1. CASE Malformed(f)
  <2>1. OnFrame(s, f) = Fatal(s, "protocol")
    BY <1>1 DEF OnFrame
  <2>2. ~Expected(s, f)
    BY <1>1, Zenon DEF Expected, Malformed
  <2> QED BY <2>1, <2>2, FatalTakes, Zenon
<1>2. CASE ~Malformed(f) /\ f[1] = "hello"
  <2> DEFINE a == [s EXCEPT !.phase = "active"]
             b == Send(a, <<"accept">>)
             t == Report(b, <<"active">>)
  <2>1. OnFrame(s, f) = t
    BY <1>2 DEF OnFrame, OnPreNegotiation
  <2>2. /\ a \in Sessions /\ a.phase = "active" /\ a.host = s.host /\ a.worker = s.worker
        /\ a.handle = s.handle /\ a.offer = s.offer /\ a.out = s.out /\ a.news = s.news
    BY Zenon DEF Sessions, Phases
  <2> HIDE DEF a
  <2>3. /\ b \in Sessions /\ SameTables(a, b) /\ b.news = a.news
        /\ \A x : x \in Range(b.out) <=> x \in Range(a.out) \/ x = <<"accept">>
    BY <2>2, Kinds, Sends, Zenon
  <2> HIDE DEF b
  <2>4. /\ t \in Sessions /\ SameTables(b, t) /\ t.out = b.out /\ t.news = b.news \cup {<<"active">>}
    BY <2>3, Kinds, Reports, Zenon
  <2> HIDE DEF t
  <2>5. TakesOut(s, t)
    <3>1. <<"accept">>[1] = "accept"
      OBVIOUS
    <3> QED BY <2>2, <2>3, <2>4, <3>1, Zenon DEF TakesOut
  <2>6. TakesCalls(s, f, t) /\ TakesTables(s, f, t)
    BY <1>2, <2>2, <2>3, <2>4, Zenon DEF TakesCalls, TakesTables, SameTables, NoOpen
  <2>7. TakesNews(s, f, t)
    BY <2>2, <2>3, <2>4, Apart, Zenon DEF TakesNews, Told
  <2> QED BY <2>1, <2>4, <2>5, <2>6, <2>7, Zenon DEF Takes
<1>3. CASE ~Malformed(f) /\ f[1] # "hello"
  <2> DEFINE a == [s EXCEPT !.phase = "closed"]
             b == Send(a, <<"refuse">>)
             t == Report(b, <<"over", "protocol">>)
  <2>1. OnFrame(s, f) = t
    BY <1>3 DEF OnFrame, OnPreNegotiation
  <2>2. /\ a \in Sessions /\ a.phase = "closed" /\ a.host = s.host
        /\ a.out = s.out /\ a.news = s.news
    BY Zenon DEF Sessions, Phases
  <2> HIDE DEF a
  <2>3. /\ b \in Sessions /\ SameTables(a, b) /\ b.news = a.news
        /\ \A x : x \in Range(b.out) <=> x \in Range(a.out) \/ x = <<"refuse">>
    BY <2>2, Kinds, Sends, Zenon
  <2> HIDE DEF b
  <2>4. /\ t \in Sessions /\ SameTables(b, t) /\ t.out = b.out
        /\ t.news = b.news \cup {<<"over", "protocol">>}
    BY <2>3, Kinds, Reports, Zenon
  <2> HIDE DEF t
  <2>5. TakesOut(s, t)
    <3>1. <<"refuse">>[1] = "refuse"
      OBVIOUS
    <3> QED BY <2>2, <2>3, <2>4, <3>1, Zenon DEF TakesOut
  <2>6. TakesCalls(s, f, t) /\ TakesTables(s, f, t)
    <3>1. Over(t)
      BY <2>4, Zenon DEF Over, Causes, Told
    <3>2. s.phase # "active"
      OBVIOUS
    <3> QED BY <2>2, <2>3, <2>4, <3>1, <3>2, Zenon DEF TakesCalls, TakesTables, SameTables, NoOpen
  <2>7. TakesNews(s, f, t)
    <3>1. "protocol" \notin {"goodbye", "disconnect", "midframe"} /\ ~Expected(s, f)
      BY <1>3 DEF Expected
    <3> QED BY <2>2, <2>3, <2>4, <3>1, Apart, Zenon DEF TakesNews, Told
  <2> QED BY <2>1, <2>4, <2>5, <2>6, <2>7, Zenon DEF Takes
<1> QED BY <1>1, <1>2, <1>3, Zenon

\* The row of a worker call is written.
LEMMA WriteWorker ==
  ASSUME NEW s \in Sessions, NEW w \in WorkerIds, NEW v \in WorkerStates
  PROVE  LET t == [s EXCEPT !.worker[w] = v] IN
         /\ t \in Sessions /\ t.phase = s.phase /\ t.out = s.out /\ t.news = s.news
         /\ t.host = s.host /\ t.handle = s.handle /\ t.minted = s.minted /\ t.offer = s.offer
         /\ \A x \in WorkerIds : t.worker[x] = IF x = w THEN v ELSE s.worker[x]
BY Zenon DEF Sessions

\* The row of a handle is written.
LEMMA WriteHandle ==
  ASSUME NEW s \in Sessions, NEW h \in HandleIds, NEW v \in HandleStates
  PROVE  LET t == [s EXCEPT !.handle[h] = v] IN
         /\ t \in Sessions /\ t.phase = s.phase /\ t.out = s.out /\ t.news = s.news
         /\ t.host = s.host /\ t.worker = s.worker /\ t.minted = s.minted /\ t.offer = s.offer
         /\ \A x \in HandleIds : t.handle[x] = IF x = h THEN v ELSE s.handle[x]
BY DEF Sessions

\* The row of an offer is written.
LEMMA WriteOffer ==
  ASSUME NEW s \in Sessions, NEW o \in OfferIds, NEW v \in OfferStates
  PROVE  LET t == [s EXCEPT !.offer[o] = v] IN
         /\ t \in Sessions /\ t.phase = s.phase /\ t.out = s.out /\ t.news = s.news
         /\ t.host = s.host /\ t.worker = s.worker /\ t.handle = s.handle /\ t.minted = s.minted
         /\ \A x \in OfferIds : t.offer[x] = IF x = o THEN v ELSE s.offer[x]
BY Zenon DEF Sessions

\* The row of a host call is written.
LEMMA WriteHost ==
  ASSUME NEW s \in Sessions, NEW c \in HostIds, NEW v \in HostStates
  PROVE  LET t == [s EXCEPT !.host[c] = v] IN
         /\ t \in Sessions /\ t.phase = s.phase /\ t.out = s.out /\ t.news = s.news
         /\ t.worker = s.worker /\ t.handle = s.handle /\ t.minted = s.minted /\ t.offer = s.offer
         /\ \A x \in HostIds : t.host[x] = IF x = c THEN v ELSE s.host[x]
BY Zenon DEF Sessions

\* What the parts of a frame are.
LEMMA FrameParts ==
  ASSUME NEW f \in Frames
  PROVE  /\ f[1] \in {"hello", "goodbye", "garbage", "app", "law", "cancel", "reply", "release", "ack"}
         /\ f[1] \in {"app", "law", "cancel"} => f[2] \in WorkerIds
         /\ f[1] = "reply" => f[2] \in HostIds /\ f[3] \in OfferIds \cup {NoOffer}
         /\ f[1] = "release" => f[2] \in HandleIds
         /\ f[1] = "ack" => f[2] \in OfferIds
BY DEF Frames

\* The worker gives a handle back.
LEMMA ReleaseTakes ==
  ASSUME NEW s \in Sessions, NEW f \in Frames, f[1] = "release", s.phase = "active"
  PROVE  Takes(s, f, OnRelease(s, f[2]))
<1> DEFINE h == f[2]
<1>1. h \in HandleIds
  BY FrameParts, Zenon
<1>2. CASE s.handle[h] \in {"live", "reclaimed"}
  <2> DEFINE a == [s EXCEPT !.handle[h] = "released"]
             t == Send(a, <<"ack", h>>)
  <2>1. OnRelease(s, h) = t
    BY <1>2, Zenon DEF OnRelease
  <2>2. "released" \in HandleStates
    BY DEF HandleStates
  <2>3. /\ a \in Sessions /\ a.phase = s.phase /\ a.host = s.host /\ a.worker = s.worker
        /\ a.minted = s.minted /\ a.offer = s.offer /\ a.out = s.out /\ a.news = s.news
        /\ \A x \in HandleIds : a.handle[x] = IF x = h THEN "released" ELSE s.handle[x]
    BY <1>1, <2>2, WriteHandle, Zenon
  <2> HIDE DEF a, h
  <2>4. /\ t \in Sessions /\ SameTables(a, t) /\ t.news = a.news
        /\ \A x : x \in Range(t.out) <=> x \in Range(a.out) \/ x = <<"ack", h>>
    BY <1>1, <2>3, Kinds, Sends, Zenon
  <2> HIDE DEF t
  <2>5. TakesOut(s, t)
    <3>1. <<"ack", h>>[1] = "ack"
      OBVIOUS
    <3> QED BY <2>3, <2>4, <3>1, Zenon DEF TakesOut
  <2>6. TakesCalls(s, f, t) /\ TakesNews(s, f, t)
    BY <2>3, <2>4, Zenon DEF TakesCalls, TakesNews, SameTables, NoOpen, Told
  <2>7. TakesTables(s, f, t)
    BY <1>2, <2>3, <2>4, Zenon DEF TakesTables, SameTables, h
  <2> QED BY <2>1, <2>4, <2>5, <2>6, <2>7, Zenon DEF Takes, h
<1>3. CASE ~(s.handle[h] \in {"live", "reclaimed"})
  <2>1. OnRelease(s, h) = Fatal(s, "protocol")
    BY <1>3, Zenon DEF OnRelease
  <2>2. ~Expected(s, f)
    BY <1>3, Zenon DEF Expected
  <2> QED BY <2>1, <2>2, FatalTakes, Zenon
<1> QED BY <1>2, <1>3, Zenon

\* The worker acknowledges a release.
LEMMA AckTakes ==
  ASSUME NEW s \in Sessions, NEW f \in Frames, f[1] = "ack", s.phase = "active"
  PROVE  Takes(s, f, OnReleaseAck(s, f[2]))
<1> DEFINE o == f[2]
<1>1. o \in OfferIds
  BY FrameParts, Zenon
<1>2. CASE s.offer[o] = "pending"
  <2> DEFINE a == [s EXCEPT !.offer[o] = "released"]
             t == Report(a, <<"acked", o>>)
  <2>1. OnReleaseAck(s, o) = t
    BY <1>2, Zenon DEF OnReleaseAck
  <2>2. "released" \in OfferStates
    BY DEF OfferStates
  <2>3. /\ a \in Sessions /\ a.phase = s.phase /\ a.host = s.host /\ a.worker = s.worker
        /\ a.handle = s.handle /\ a.minted = s.minted /\ a.out = s.out /\ a.news = s.news
        /\ \A x \in OfferIds : a.offer[x] = IF x = o THEN "released" ELSE s.offer[x]
    BY <1>1, <2>2, WriteOffer, Zenon
  <2> HIDE DEF a, o
  <2>4. /\ t \in Sessions /\ SameTables(a, t) /\ t.out = a.out
        /\ t.news = a.news \cup {<<"acked", o>>}
    BY <1>1, <2>3, Kinds, Reports, Zenon
  <2> HIDE DEF t
  <2>5. TakesOut(s, t)
    BY <2>3, <2>4, Zenon DEF TakesOut
  <2>6. TakesCalls(s, f, t)
    BY <2>3, <2>4, Zenon DEF TakesCalls, SameTables, NoOpen
  <2>7. TakesNews(s, f, t)
    <3>1. \A e : e \in t.news <=> e \in s.news \/ e = <<"acked", o>>
      BY <2>3, <2>4, Zenon
    <3> QED BY <3>1, Apart, Zenon DEF TakesNews, Told, o
  <2>8. TakesTables(s, f, t)
    BY <1>2, <2>3, <2>4, Zenon DEF TakesTables, SameTables, o
  <2> QED BY <2>1, <2>4, <2>5, <2>6, <2>7, <2>8, Zenon DEF Takes, o
<1>3. CASE s.offer[o] # "pending"
  <2>1. OnReleaseAck(s, o) = Fatal(s, "protocol")
    BY <1>3, Zenon DEF OnReleaseAck
  <2>2. ~Expected(s, f)
    BY <1>3, Zenon DEF Expected
  <2> QED BY <2>1, <2>2, FatalTakes, Zenon
<1> QED BY <1>2, <1>3, Zenon

\* A call of the worker.
LEMMA CallTakes ==
  ASSUME NEW s \in Sessions, NEW f \in Frames, f[1] \in {"app", "law"}, s.phase = "active"
  PROVE  Takes(s, f, OnWorkerCall(s, f[2], f[1]))
<1> DEFINE w == f[2]
           t == OnWorkerCall(s, w, f[1])
<1>1. w \in WorkerIds
  BY FrameParts, Zenon
<1>2. CASE s.worker[w] # "fresh"
  <2>1. t = Fatal(s, "protocol")
    BY <1>2 DEF OnWorkerCall
  <2>2. ~Expected(s, f)
    BY <1>2, Zenon DEF Expected
  <2> QED BY <2>1, <2>2, FatalTakes, Zenon
<1>3. CASE s.worker[w] = "fresh" /\ t = Send(s, <<"reply", w, {}>>)
  <2>1. /\ t \in Sessions /\ SameTables(s, t) /\ t.news = s.news
        /\ \A x : x \in Range(t.out) <=> x \in Range(s.out) \/ x = <<"reply", w, {}>>
    <3>1. <<"reply", w, {}>> \in Messages
      BY <1>1, Kinds, Zenon
    <3> HIDE DEF t
    <3> QED BY <1>3, <3>1, Sends, Zenon
  <2> HIDE DEF t
  <2>2. TakesOut(s, t)
    <3>1. <<"reply", w, {}>>[1] = "reply" /\ <<"reply", w, {}>>[3] = {}
      OBVIOUS
    <3> QED BY <2>1, <3>1, Zenon DEF TakesOut
  <2>3. Takes(s, f, t)
    BY <2>1, <2>2, Stays, Zenon
  <2> QED BY <2>3, Zenon DEF t
<1>4. CASE s.worker[w] = "fresh" /\ t = Send([s EXCEPT !.worker[w] = "spent"], <<"reply", w, {}>>)
  <2> DEFINE a == [s EXCEPT !.worker[w] = "spent"]
  <2>1. "spent" \in WorkerStates
    BY DEF WorkerStates
  <2>2. /\ a \in Sessions /\ a.phase = s.phase /\ a.host = s.host /\ a.handle = s.handle
        /\ a.minted = s.minted /\ a.offer = s.offer /\ a.out = s.out /\ a.news = s.news
        /\ \A x \in WorkerIds : a.worker[x] = IF x = w THEN "spent" ELSE s.worker[x]
    BY <1>1, <2>1, WriteWorker, ZenonT(30)
  <2>3. <<"reply", w, {}>> \in Messages /\ t = Send(a, <<"reply", w, {}>>)
    BY <1>1, <1>4, Kinds, Zenon
  <2> HIDE DEF a, t
  <2>4. /\ t \in Sessions /\ SameTables(a, t) /\ t.news = a.news
        /\ \A x : x \in Range(t.out) <=> x \in Range(a.out) \/ x = <<"reply", w, {}>>
    BY <2>2, <2>3, Sends, Zenon
  <2>5. TakesOut(s, t)
    <3>1. <<"reply", w, {}>>[1] = "reply" /\ <<"reply", w, {}>>[3] = {}
      OBVIOUS
    <3> QED BY <2>2, <2>4, <3>1, Zenon DEF TakesOut
  <2>6. TakesCalls(s, f, t) /\ TakesNews(s, f, t) /\ TakesTables(s, f, t)
    BY <2>2, <2>4, Zenon DEF TakesCalls, TakesNews, TakesTables, SameTables, NoOpen, Told
  <2>7. Takes(s, f, t)
    BY <2>4, <2>5, <2>6, Zenon DEF Takes
  <2> QED BY <2>7, Zenon DEF t
<1>5. CASE s.worker[w] = "fresh" /\ t = Report([s EXCEPT !.worker[w] = "open"], <<"call", w>>)
  <2> DEFINE a == [s EXCEPT !.worker[w] = "open"]
  <2>1. "open" \in WorkerStates
    BY DEF WorkerStates
  <2>2. /\ a \in Sessions /\ a.phase = s.phase /\ a.host = s.host /\ a.handle = s.handle
        /\ a.minted = s.minted /\ a.offer = s.offer /\ a.out = s.out /\ a.news = s.news
        /\ \A x \in WorkerIds : a.worker[x] = IF x = w THEN "open" ELSE s.worker[x]
    BY <1>1, <2>1, WriteWorker, ZenonT(30)
  <2>3. <<"call", w>> \in News /\ t = Report(a, <<"call", w>>)
    BY <1>1, <1>5, Kinds, Zenon
  <2> HIDE DEF a, t
  <2>4. /\ t \in Sessions /\ SameTables(a, t) /\ t.out = a.out /\ t.news = a.news \cup {<<"call", w>>}
    BY <2>2, <2>3, Reports, Zenon
  <2>5. TakesOut(s, t)
    BY <2>2, <2>4, Zenon DEF TakesOut
  <2>6. TakesCalls(s, f, t) /\ TakesTables(s, f, t)
    BY <2>2, <2>4, Zenon DEF TakesCalls, TakesTables, SameTables, NoOpen
  <2>7. TakesNews(s, f, t)
    <3>1. \A e : e \in t.news <=> e \in s.news \/ e = <<"call", w>>
      BY <2>2, <2>4, Zenon
    <3> QED BY <3>1, Apart, Zenon DEF TakesNews, Told
  <2>8. Takes(s, f, t)
    BY <2>4, <2>5, <2>6, <2>7, Zenon DEF Takes
  <2> QED BY <2>8, Zenon DEF t
<1>6. \/ s.worker[w] # "fresh"
      \/ s.worker[w] = "fresh" /\ t = Send(s, <<"reply", w, {}>>)
      \/ s.worker[w] = "fresh" /\ t = Send([s EXCEPT !.worker[w] = "spent"], <<"reply", w, {}>>)
      \/ s.worker[w] = "fresh" /\ t = Report([s EXCEPT !.worker[w] = "open"], <<"call", w>>)
  BY DEF OnWorkerCall, Refused, RefusedUnspent, ServedByLaw
<1> QED BY <1>2, <1>3, <1>4, <1>5, <1>6, Zenon

\* The worker cancels a call of its own.
LEMMA CancelTakes ==
  ASSUME NEW s \in Sessions, NEW f \in Frames, f[1] = "cancel"
  PROVE  Takes(s, f, OnWorkerCancel(s, f[2]))
<1> DEFINE w == f[2]
           t == OnWorkerCancel(s, w)
<1>1. <<"cancel", w>> \in News
  BY FrameParts, Kinds, Zenon
<1>2. \/ t = s
      \/ t = Report(s, <<"cancel", w>>)
  BY Zenon DEF OnWorkerCancel
<1> HIDE DEF t, w
<1>3. t \in Sessions /\ SameTables(s, t) /\ t.out = s.out /\ s.news \subseteq t.news
      /\ \A e \in t.news : e \in s.news \/ e = <<"cancel", w>>
  <2>1. CASE t = s
    BY <2>1 DEF SameTables
  <2>2. CASE t = Report(s, <<"cancel", w>>)
    <3>1. t \in Sessions /\ SameTables(s, t) /\ t.out = s.out /\ t.news = s.news \cup {<<"cancel", w>>}
      BY <1>1, <2>2, Reports, Zenon
    <3> QED BY <3>1, Zenon
  <2> QED BY <1>2, <2>1, <2>2
<1>4. TakesOut(s, t)
  BY <1>3, Zenon DEF TakesOut
<1>5. Takes(s, f, t)
  BY <1>3, <1>4, Stays, Zenon
<1> QED BY <1>5, Zenon DEF t, w

\* The worker answers a call of the host.
LEMMA ReplyTakes ==
  ASSUME NEW s \in Sessions, NEW f \in Frames, f[1] = "reply", s.phase = "active"
  PROVE  Takes(s, f, OnWorkerReply(s, f[2], f[3]))
<1> DEFINE c == f[2]
           o == f[3]
           t == OnWorkerReply(s, c, o)
           a == Offered(s, o)
<1>1. c \in HostIds /\ o \in OfferIds \cup {NoOffer}
  BY FrameParts, Zenon
<1>2. CASE s.host[c] = "fresh" \/ (o # NoOffer /\ s.offer[o] # "fresh")
  <2>1. t = Fatal(s, "protocol")
    BY <1>2, Zenon DEF OnWorkerReply
  <2>2. ~Expected(s, f)
    BY <1>2, Zenon DEF Expected
  <2> QED BY <2>1, <2>2, FatalTakes, Zenon
<1>3. CASE s.host[c] # "fresh" /\ (o = NoOffer \/ s.offer[o] = "fresh")
  <2>1. /\ a \in Sessions /\ a.phase = s.phase /\ a.host = s.host /\ a.worker = s.worker
        /\ a.handle = s.handle /\ a.minted = s.minted /\ a.out = s.out /\ a.news = s.news
        /\ \A x \in OfferIds : \/ a.offer[x] = s.offer[x]
                               \/ x = o /\ s.offer[x] = "fresh" /\ a.offer[x] = "offered"
    <3>1. CASE o = NoOffer
      BY <3>1, Zenon DEF Offered
    <3>2. CASE o # NoOffer
      <4>1. a = [s EXCEPT !.offer[o] = "offered"] /\ o \in OfferIds
        BY <1>1, <3>2, Zenon DEF Offered
      <4>2. "offered" \in OfferStates /\ s.offer[o] = "fresh"
        BY <1>3, <3>2 DEF OfferStates
      <4> DEFINE b == [s EXCEPT !.offer[o] = "offered"]
      <4>3. /\ b \in Sessions /\ b.phase = s.phase /\ b.host = s.host /\ b.worker = s.worker
            /\ b.handle = s.handle /\ b.minted = s.minted /\ b.out = s.out /\ b.news = s.news
            /\ \A x \in OfferIds : b.offer[x] = IF x = o THEN "offered" ELSE s.offer[x]
        <5> HIDE DEF o
        <5> QED BY <4>1, <4>2, WriteOffer, ZenonT(30)
      <4> HIDE DEF a, b, o
      <4>4. a = b
        BY <4>1, Zenon DEF b
      <4> QED BY <4>2, <4>3, <4>4, Zenon
    <3> QED BY <3>1, <3>2, Zenon
  <2>2. CASE t = s
    <3> HIDE DEF t
    <3>1. Takes(s, f, t)
      BY <2>2, Stays, Zenon DEF SameTables, TakesOut
    <3> QED BY <3>1, Zenon DEF t
  <2>3. CASE t = a
    <3> HIDE DEF t, a
    <3>1. TakesOut(s, t) /\ TakesCalls(s, f, t) /\ TakesNews(s, f, t)
      BY <2>1, <2>3, Zenon DEF TakesOut, TakesCalls, TakesNews, NoOpen, Told
    <3>2. TakesTables(s, f, t)
      BY <2>1, <2>3, Zenon DEF TakesTables
    <3>3. Takes(s, f, t)
      BY <2>1, <2>3, <3>1, <3>2, Zenon DEF Takes
    <3> QED BY <3>3, Zenon DEF t
  <2>4. CASE s.host[c] = "open" /\ t = Report([a EXCEPT !.host[c] = "spent"], <<"settled", c>>)
    <3> HIDE DEF a, t
    <3> DEFINE b == [a EXCEPT !.host[c] = "spent"]
    <3>1. "spent" \in HostStates /\ a \in Sessions
      BY <2>1 DEF HostStates
    <3>2. /\ b \in Sessions /\ b.phase = a.phase /\ b.worker = a.worker /\ b.handle = a.handle
          /\ b.offer = a.offer /\ b.out = a.out /\ b.news = a.news
          /\ \A x \in HostIds : b.host[x] = IF x = c THEN "spent" ELSE a.host[x]
      <4> HIDE DEF c
      <4> QED BY <1>1, <3>1, WriteHost, ZenonT(30)
    <3>3. t = Report(b, <<"settled", c>>) /\ <<"settled", c>> \in News
      BY <1>1, <2>4, Kinds, Zenon
    <3> HIDE DEF b
    <3>4. /\ t \in Sessions /\ SameTables(b, t) /\ t.out = b.out
          /\ t.news = b.news \cup {<<"settled", c>>}
      BY <3>2, <3>3, Reports, Zenon
    <3>5. TakesOut(s, t)
      BY <2>1, <3>2, <3>4, Zenon DEF TakesOut
    <3>6. EndsOf(t, c) # {}
      <4>1. Told(t, <<"settled", c>>)
        BY <3>4, Zenon DEF Told
      <4>2. "settled" \in EndsOf(t, c)
        BY <4>1, Zenon DEF EndsOf
      <4> QED BY <4>2
    <3>7. TakesCalls(s, f, t)
      <4>1. \A x \in HostIds : \/ t.host[x] = s.host[x]
                               \/ s.host[x] = "open" /\ t.host[x] = "spent" /\ EndsOf(t, x) # {}
        <5>1. a.host = s.host /\ t.host = b.host
          BY <2>1, <3>4, Zenon DEF SameTables
        <5> HIDE DEF c
        <5> QED BY <2>4, <3>2, <3>6, <5>1, Zenon
      <4>2. t.phase = s.phase /\ NoOpen(t)
        <5>1. t.phase = s.phase
          BY <2>1, <3>2, <3>4, Zenon DEF SameTables
        <5> QED BY <5>1, Zenon DEF NoOpen
      <4> QED BY <4>1, <4>2 DEF TakesCalls
    <3>8. TakesTables(s, f, t)
      <4>1. t.worker = s.worker /\ t.handle = s.handle /\ t.offer = a.offer
        BY <2>1, <3>2, <3>4, Zenon DEF SameTables
      <4>2. \A x \in OfferIds : \/ t.offer[x] = s.offer[x]
                                \/ f[3] = x /\ s.offer[x] = "fresh" /\ t.offer[x] = "offered"
        BY <2>1, <4>1, Zenon
      <4> QED BY <4>1, <4>2, Zenon DEF TakesTables
    <3>9. TakesNews(s, f, t)
      <4>1. \A e : e \in t.news <=> e \in s.news \/ e = <<"settled", c>>
        BY <2>1, <3>2, <3>4, Zenon
      <4> QED BY <4>1, Apart, Zenon DEF TakesNews, Told
    <3>10. Takes(s, f, t)
      BY <3>4, <3>5, <3>7, <3>8, <3>9, Zenon DEF Takes
    <3> QED BY <3>10, Zenon DEF t
  <2>5. \/ t = s \/ t = a
        \/ s.host[c] = "open" /\ t = Report([a EXCEPT !.host[c] = "spent"], <<"settled", c>>)
    <3>1. s.host[c] = "open" \/ s.host[c] = "spent"
      BY <1>1, <1>3, Fields DEF HostStates
    <3> QED BY <1>3, <3>1, Zenon DEF OnWorkerReply, LateReply
  <2> QED BY <2>2, <2>3, <2>4, <2>5, Zenon
<1> QED BY <1>2, <1>3, Zenon

\* Whatever the frame.
LEMMA FrameTakes ==
  ASSUME NEW s \in Sessions, NEW f \in Frames
  PROVE  Takes(s, f, OnFrame(s, f))
<1>1. CASE s.phase = "hello"
  BY <1>1, HelloTakes, Zenon
<1>2. CASE s.phase = "closed"
  <2>1. OnFrame(s, f) = s
    BY <1>2 DEF OnFrame
  <2> QED BY <2>1, Stays, Zenon DEF SameTables, TakesOut
<1>3. CASE s.phase = "active"
  <2>1. OnFrame(s, f) = OnActive(s, f)
    BY <1>3 DEF OnFrame
  <2>2. CASE f[1] \in {"garbage", "hello"}
    <3>1. OnActive(s, f) = Fatal(s, "protocol") /\ ~Expected(s, f)
      BY <1>3, <2>2 DEF OnActive, Malformed, Expected
    <3> QED BY <2>1, <3>1, FatalTakes, Zenon
  <2>3. CASE f[1] = "goodbye"
    <3>1. OnActive(s, f) = OnGoodbye(s)
      BY <2>3 DEF OnActive, Malformed
    <3> QED BY <2>1, <2>3, <3>1, GoodbyeTakes, Zenon
  <2>4. CASE f[1] \in {"app", "law"}
    <3>1. OnActive(s, f) = OnWorkerCall(s, f[2], f[1])
      BY <2>4 DEF OnActive, Malformed
    <3> QED BY <1>3, <2>1, <2>4, <3>1, CallTakes, Zenon
  <2>5. CASE f[1] = "cancel"
    <3>1. OnActive(s, f) = OnWorkerCancel(s, f[2])
      BY <2>5 DEF OnActive, Malformed
    <3> QED BY <2>1, <2>5, <3>1, CancelTakes, Zenon
  <2>6. CASE f[1] = "reply"
    <3>1. OnActive(s, f) = OnWorkerReply(s, f[2], f[3])
      BY <2>6 DEF OnActive, Malformed
    <3> QED BY <1>3, <2>1, <2>6, <3>1, ReplyTakes, Zenon
  <2>7. CASE f[1] = "release"
    <3>1. OnActive(s, f) = OnRelease(s, f[2])
      BY <2>7 DEF OnActive, Malformed
    <3> QED BY <1>3, <2>1, <2>7, <3>1, ReleaseTakes, Zenon
  <2>8. CASE f[1] = "ack"
    <3>1. OnActive(s, f) = OnReleaseAck(s, f[2])
      BY <2>8 DEF OnActive, Malformed
    <3> QED BY <1>3, <2>1, <2>8, <3>1, AckTakes, Zenon
  <2> QED BY <2>2, <2>3, <2>4, <2>5, <2>6, <2>7, <2>8, FrameParts
<1> QED BY <1>1, <1>2, <1>3, Fields DEF Phases

-----------------------------------------------------------------------------
(* The inductive invariant *)

CallStates == {"idle", "queued", "waiting", "refused", "closed", "dropped", "unknown", "cancelled", "settled"}
RelStates == {"idle", "queued", "waiting", "refused", "closed", "acked", "lost"}

Knowledge ==
    [hello : BOOLEAN, bye : BOOLEAN, part : BOOLEAN, sent : SUBSET WorkerIds, got : SUBSET HostIds,
     replied : SUBSET HostIds, held : SUBSET HandleIds, returned : SUBSET HandleIds,
     offered : SUBSET OfferIds, asked : SUBSET OfferIds, acked : SUBSET OfferIds]

\* What the worker sent is in what it knows.
Recorded(K, f) ==
    /\ f[1] \in {"app", "law"} => f[2] \in K.sent
    /\ f[1] = "reply" /\ f[3] \in OfferIds => f[3] \in K.offered
    /\ f[1] = "release" => f[2] \in K.returned
    /\ f[1] = "ack" => f[2] \in K.acked
    /\ f[1] = "goodbye" => K.bye

Sent(K, F) == \A i \in 1..Len(F) : Recorded(K, F[i])

\* A call that its caller is told never ran is not on its way to the worker.
Unsent(k, q, K) ==
    \A c \in HostIds :
        /\ k[c] \in {"idle", "queued", "refused", "closed"} => <<"call", c>> \notin Range(q) /\ c \notin K.got
        /\ k[c] = "cancelled" => (<<"call", c>> \notin Range(q) /\ c \notin K.got) \/ K.bye

\* The session and a worker that keeps the protocol agree on every id.
Ties(s, K) ==
    /\ \A w \in WorkerIds : s.worker[w] # "fresh" => w \in K.sent
    /\ \A o \in OfferIds :
          /\ s.offer[o] # "fresh" => o \in K.offered
          /\ s.offer[o] = "released" => o \in K.acked
          /\ o \in K.asked => s.offer[o] \in {"pending", "released"}
    /\ \A h \in HandleIds :
          /\ s.handle[h] = "released" => h \in K.returned
          /\ h \in K.held => s.handle[h] \in {"live", "reclaimed", "released"}
    /\ \A c \in HostIds : c \in K.got => s.host[c] # "fresh"

\* So it will when a frame of the host has arrived.
Backed(s, m) ==
    /\ m[1] = "call" => s.host[m[2]] # "fresh"
    /\ m[1] = "release" => s.offer[m[2]] \in {"pending", "released"}
    /\ m[1] = "reply" => \A h \in m[3] : s.handle[h] \in {"live", "reclaimed", "released"}

AllBacked(s, q) == \A m \in Range(q) : Backed(s, m)

\* Two frames that a worker has no reason to send both.
Clash(f, g) ==
    \/ f[1] \in {"app", "law"} /\ g[1] \in {"app", "law"} /\ f[2] = g[2]
    \/ f[1] = "reply" /\ g[1] = "reply" /\ f[3] = g[3] /\ f[3] # NoOffer
    \/ f[1] = "release" /\ g[1] = "release" /\ f[2] = g[2]
    \/ f[1] = "ack" /\ g[1] = "ack" /\ f[2] = g[2]

\* Expected, but for the order.
Fits(s, f) ==
    /\ f[1] # "garbage"
    /\ f[1] \in {"app", "law"} => s.worker[f[2]] = "fresh"
    /\ f[1] = "reply" => s.host[f[2]] # "fresh" /\ (f[3] # NoOffer => s.offer[f[3]] = "fresh")
    /\ f[1] = "release" => s.handle[f[2]] \in {"live", "reclaimed"}
    /\ f[1] = "ack" => s.offer[f[2]] = "pending"

\* The frames of F after the first n find the session ready for them.
Ready(s, F, n) ==
    \A i \in (n + 1)..Len(F) :
        /\ Fits(s, F[i])
        /\ F[i][1] = "hello" <=> s.phase = "hello" /\ i = n + 1
        /\ \A j \in (i + 1)..Len(F) : ~Clash(F[i], F[j])

\* While the worker keeps the protocol, the two sides and both sockets fit together.
Conforms(s, K, q, F) ==
    /\ Ties(s, K)
    /\ AllBacked(s, q)
    /\ Ready(s, F, 0)
    /\ K.hello <=> s.phase # "hello" \/ F # <<>>

\* Where the pump stands.
Stages ==
    /\ resource = "none" <=> pump = "none"
    /\ resource = "released" => pump = "gone"
    /\ pump \in {"none", "loop", "exiting", "reaping", "gone"}
    /\ pump = "none" => summary = "open"
    /\ pump \in {"exiting", "reaping", "gone"} => summary # "open"
    /\ pump \in {"none", "loop"} => session.phase # "closed"
    /\ pump \in {"reaping", "gone"} =>
          /\ session.phase = "closed"
          /\ \A c \in HostIds : call[c] # "waiting"
          /\ \A o \in OfferIds : rel[o] # "waiting"
    /\ pump = "gone" =>
          /\ child = "dead"
          /\ \A c \in HostIds : call[c] # "queued"
          /\ \A o \in OfferIds : rel[o] # "queued"

\* Between two steps of the pump, what a frame left behind was applied and queued.
ProcessTypes ==
    /\ session \in Sessions /\ session.out = <<>> /\ session.news = {}
    /\ call \in [HostIds -> CallStates] /\ rel \in [OfferIds -> RelStates]
    /\ toWorker \in Seq(Messages) /\ fromWorker \in Seq(Frames) /\ know \in Knowledge

\* The inductive invariant.  What it says of the sockets holds until the worker
\* breaks the protocol or the loop is over.
ProcessInv ==
    /\ ProcessTypes
    /\ NoOpen(session)
    /\ \A c \in HostIds : call[c] = "waiting" => session.host[c] = "open"
    /\ Sent(know, fromWorker)
    /\ Unsent(call, toWorker, know)
    /\ \A o \in OfferIds : rel[o] = "acked" => o \in know.acked
    /\ SummaryIsJust
    /\ Stages
    /\ ~faulty /\ pump \in {"none", "loop"} => Conforms(session, know, toWorker, fromWorker)

-----------------------------------------------------------------------------
(* A frame, and the invariant *)

\* A call that is waited for is open, or its end is among the news.
Waits(s, k) == \A c \in HostIds : k[c] = "waiting" => s.host[c] = "open" \/ EndsOf(s, c) # {}

\* What the news owes to frames that the worker did send.
BackedNews(s, K) ==
    /\ Told(s, <<"over", "goodbye">>) => K.bye
    /\ \A c \in HostIds : Told(s, <<"lost", c, "cancelled">>) => K.bye
    /\ \A o \in OfferIds : Told(s, <<"acked", o>>) => o \in K.acked

\* News is added, never taken away, so an end that was told stays told.
LEMMA EndsGrow ==
  ASSUME NEW s, NEW t, s.news \subseteq t.news, NEW c, EndsOf(s, c) # {}
  PROVE  EndsOf(t, c) # {}
<1>1. PICK e : e \in EndsOf(s, c)
  OBVIOUS
<1>2. e \in EndsOf(t, c)
  BY <1>1, Zenon DEF EndsOf, Told
<1> QED BY <1>2

\* A frame keeps what the pump knows of calls, news and output.
LEMMA FrameKeeps ==
  ASSUME NEW s \in Sessions, NEW f \in Frames, NEW k, NEW K, NoOpen(s), Waits(s, k), BackedNews(s, K),
         Recorded(K, f), NEW t, Takes(s, f, t)
  PROVE  /\ t \in Sessions /\ NoOpen(t) /\ Waits(t, k) /\ BackedNews(t, K)
         /\ \A c \in HostIds : <<"call", c>> \in Range(t.out) => <<"call", c>> \in Range(s.out)
         /\ t.phase = "closed" => s.phase = "closed" \/ Over(t)
         /\ Told(t, <<"over", "disconnect">>) => Told(s, <<"over", "disconnect">>)
         /\ Told(t, <<"over", "midframe">>) => Told(s, <<"over", "midframe">>)
         /\ Told(t, <<"over", "protocol">>) => Told(s, <<"over", "protocol">>) \/ ~Expected(s, f)
<1>1. t \in Sessions /\ TakesCalls(s, f, t) /\ TakesNews(s, f, t) /\ TakesOut(s, t)
  BY Zenon DEF Takes
<1>2. NoOpen(t)
  BY <1>1, Zenon DEF TakesCalls
<1>3. Waits(t, k)
  <2> SUFFICES ASSUME NEW c \in HostIds, k[c] = "waiting" PROVE t.host[c] = "open" \/ EndsOf(t, c) # {}
    BY Zenon DEF Waits
  <2>1. CASE EndsOf(s, c) # {}
    BY <1>1, <2>1, EndsGrow, Zenon DEF TakesNews
  <2>2. CASE s.host[c] = "open"
    BY <1>1, <2>2, Zenon DEF TakesCalls
  <2> QED BY <2>1, <2>2, Zenon DEF Waits
<1>4. BackedNews(t, K)
  BY <1>1, Zenon DEF TakesNews, BackedNews, Recorded
<1>5. ASSUME NEW c \in HostIds, <<"call", c>> \in Range(t.out) PROVE <<"call", c>> \in Range(s.out)
  <2>1. <<"call", c>>[1] = "call"
    OBVIOUS
  <2> DEFINE m == <<"call", c>>
  <2>2. m[1] \notin {"ack", "goodbye", "accept", "refuse"} /\ m[1] # "reply"
    BY <2>1
  <2> HIDE DEF m
  <2>3. m \in Range(t.out)
    BY <1>5, Zenon DEF m
  <2>4. m \in Range(s.out)
    BY <1>1, <2>2, <2>3, Zenon DEF TakesOut
  <2> QED BY <2>4, Zenon DEF m
<1>6. t.phase = "closed" => s.phase = "closed" \/ Over(t)
  BY <1>1 DEF TakesCalls
<1> QED BY <1>1, <1>2, <1>3, <1>4, <1>5, <1>6, Zenon DEF TakesNews

\* What the parts of a message are.
LEMMA MessageParts ==
  ASSUME NEW m \in Messages
  PROVE  /\ m[1] = "call" => m[2] \in HostIds /\ m = <<"call", m[2]>>
         /\ m[1] = "release" => m[2] \in OfferIds /\ m = <<"release", m[2]>>
         /\ m[1] = "reply" => m[3] \subseteq HandleIds
<1>1. m[1] = "call" => m[2] \in HostIds /\ m = <<"call", m[2]>>
  BY DEF Messages
<1>2. m[1] = "release" => m[2] \in OfferIds /\ m = <<"release", m[2]>>
  BY DEF Messages
<1>3. m[1] = "reply" => m[3] \subseteq HandleIds
  BY DEF Messages
<1> QED BY <1>1, <1>2, <1>3

\* A session that waits for a hello has it, or is over, after a frame.
LEMMA HelloMoves ==
  ASSUME NEW s \in Sessions, s.phase = "hello", NEW f \in Frames
  PROVE  OnFrame(s, f).phase # "hello"
<1>1. CASE Malformed(f)
  <2> DEFINE e == Ended(s, "unknown")
  <2>1. OnFrame(s, f) = Report(e, <<"over", "protocol">>)
    BY <1>1 DEF OnFrame, Fatal
  <2>2. e \in Sessions /\ e.phase = "closed"
    BY Ends, Zenon
  <2> HIDE DEF e
  <2>3. Report(e, <<"over", "protocol">>).phase = "closed"
    BY <2>2, Kinds, Reports, Zenon DEF SameTables
  <2> QED BY <2>1, <2>3
<1>2. ASSUME NEW v \in {"active", "closed"}, NEW m, NEW e
      PROVE  Report(Send([s EXCEPT !.phase = v], m), e).phase # "hello"
  BY DEF Report, Send, Sessions
<1>3. CASE ~Malformed(f) /\ f[1] = "hello"
  <2>1. OnFrame(s, f) = Report(Send([s EXCEPT !.phase = "active"], <<"accept">>), <<"active">>)
    BY <1>3 DEF OnFrame, OnPreNegotiation
  <2> QED BY <1>2, <2>1
<1>4. CASE ~Malformed(f) /\ f[1] # "hello"
  <2>1. OnFrame(s, f) = Report(Send([s EXCEPT !.phase = "closed"], <<"refuse">>), <<"over", "protocol">>)
    BY <1>4 DEF OnFrame, OnPreNegotiation
  <2> QED BY <1>2, <2>1
<1> QED BY <1>1, <1>3, <1>4, Zenon

\* A session that is ready for the frames on their way expects the next one, and is
\* ready for the others after it.
LEMMA ReadyStep ==
  ASSUME NEW s \in Sessions, NEW F \in Seq(Frames), NEW n \in Nat, n < Len(F), s.phase # "closed",
         Ready(s, F, n), NEW t, t = OnFrame(s, F[n + 1]), Takes(s, F[n + 1], t)
  PROVE  Expected(s, F[n + 1]) /\ (t.phase # "closed" => Ready(t, F, n + 1))
<1> DEFINE f == F[n + 1]
<1>1. n + 1 \in (n + 1)..Len(F) /\ n + 1 \in 1..Len(F) /\ Len(F) \in Nat
  OBVIOUS
<1>2. f \in Frames /\ Fits(s, f) /\ (f[1] = "hello" <=> s.phase = "hello")
      /\ \A j \in (n + 2)..Len(F) : ~Clash(f, F[j])
  <2>1. /\ Fits(s, f) /\ (f[1] = "hello" <=> s.phase = "hello")
        /\ \A j \in ((n + 1) + 1)..Len(F) : ~Clash(f, F[j])
    BY <1>1, Zenon DEF Ready
  <2>2. (n + 1) + 1 = n + 2
    OBVIOUS
  <2> QED BY <1>1, <2>1, <2>2
<1>3. Expected(s, f)
  BY <1>2, Zenon DEF Expected, Fits
<1>4. ASSUME t.phase # "closed", NEW i \in (n + 2)..Len(F)
      PROVE  /\ Fits(t, F[i])
             /\ F[i][1] = "hello" <=> t.phase = "hello" /\ i = n + 2
             /\ \A j \in (i + 1)..Len(F) : ~Clash(F[i], F[j])
  <2> DEFINE g == F[i]
  <2>1. i \in (n + 1)..Len(F) /\ i # n + 1 /\ i \in 1..Len(F)
    OBVIOUS
  <2>2. /\ Fits(s, g) /\ g[1] # "hello" /\ ~Clash(f, g) /\ g \in Frames
        /\ \A j \in (i + 1)..Len(F) : ~Clash(F[i], F[j])
    <3>1. g \in Frames
      BY <2>1
    <3> QED BY <1>2, <2>1, <3>1, Zenon DEF Ready
  <2>3. t.phase # "hello"
    <3>1. t.phase = "hello" => s.phase = "hello" /\ s.phase = t.phase
      BY <1>4, Zenon DEF Takes, TakesCalls
    <3>2. s.phase = "hello" => t.phase # "hello"
      <4>1. ASSUME s.phase = "hello" PROVE t.phase # "hello"
        BY <1>2, <4>1, HelloMoves, Zenon
      <4> QED BY <4>1
    <3> QED BY <3>1, <3>2
  <2>4. g[1] # "garbage"
    BY <2>2, Zenon DEF Fits
  <2>5. /\ g[1] \in {"app", "law"} => g[2] \in WorkerIds
        /\ g[1] = "reply" => g[2] \in HostIds /\ g[3] \in OfferIds \cup {NoOffer}
        /\ g[1] = "release" => g[2] \in HandleIds
        /\ g[1] = "ack" => g[2] \in OfferIds
    BY <2>2, FrameParts, Zenon
  <2>6. TakesTables(s, f, t) /\ TakesCalls(s, f, t)
    BY Zenon DEF Takes
  <2> HIDE DEF f, g
  <2>7. g[1] \in {"app", "law"} => t.worker[g[2]] = "fresh"
    BY <1>4, <2>2, <2>5, <2>6, Zenon DEF TakesTables, Fits, Clash
  <2>8. g[1] = "release" => t.handle[g[2]] \in {"live", "reclaimed"}
    BY <1>4, <2>2, <2>5, <2>6, Zenon DEF TakesTables, Fits, Clash
  <2>9. g[1] = "ack" => t.offer[g[2]] = "pending"
    <3>1. SUFFICES ASSUME g[1] = "ack" PROVE t.offer[g[2]] = "pending"
      OBVIOUS
    <3>2. s.offer[g[2]] = "pending" /\ g[2] \in OfferIds /\ ~(f[1] = "ack" /\ f[2] = g[2])
      BY <2>2, <2>5, <3>1, Zenon DEF Fits, Clash
    <3>3. s.offer[g[2]] # "fresh"
      BY <3>2
    <3> QED BY <1>4, <2>6, <3>2, <3>3, Zenon DEF TakesTables
  <2>10. g[1] = "reply" => t.host[g[2]] # "fresh"
    <3>1. SUFFICES ASSUME g[1] = "reply" PROVE t.host[g[2]] # "fresh"
      OBVIOUS
    <3>2. g[2] \in HostIds /\ s.host[g[2]] # "fresh"
      BY <2>2, <2>5, <3>1, Zenon DEF Fits
    <3>3. t.host[g[2]] = s.host[g[2]] \/ t.host[g[2]] = "spent"
      BY <2>6, <3>2, Zenon DEF TakesCalls
    <3> QED BY <3>2, <3>3
  <2>11. g[1] = "reply" /\ g[3] # NoOffer => t.offer[g[3]] = "fresh"
    <3>1. SUFFICES ASSUME g[1] = "reply", g[3] # NoOffer PROVE t.offer[g[3]] = "fresh"
      OBVIOUS
    <3>2. g[3] \in OfferIds /\ s.offer[g[3]] = "fresh" /\ ~(f[1] = "reply" /\ f[3] = g[3])
      BY <2>2, <2>5, <3>1, Zenon DEF Fits, Clash
    <3>3. s.offer[g[3]] # "pending"
      BY <3>2
    <3> QED BY <1>4, <2>6, <3>2, <3>3, Zenon DEF TakesTables
  <2>12. Fits(t, g)
    BY <2>4, <2>7, <2>8, <2>9, <2>10, <2>11, Zenon DEF Fits
  <2> QED BY <2>2, <2>3, <2>12, Zenon DEF g
<1>5. t.phase # "closed" => Ready(t, F, n + 1)
  <2>1. (n + 1) + 1 = n + 2
    OBVIOUS
  <2> QED BY <1>4, <2>1, Zenon DEF Ready
<1> QED BY <1>3, <1>5, Zenon

\* The worker and the session still agree after a frame that the worker has recorded.
LEMMA TakesTies ==
  ASSUME NEW s \in Sessions, NEW f \in Frames, NEW K, Recorded(K, f), NEW t, Takes(s, f, t),
         t.phase # "closed", Ties(s, K)
  PROVE  /\ Ties(t, K)
         /\ \A m \in Messages : Backed(s, m) => Backed(t, m)
<1>1. TakesTables(s, f, t) /\ TakesCalls(s, f, t)
  BY Zenon DEF Takes
<1>2. \A c \in HostIds : s.host[c] # "fresh" => t.host[c] # "fresh"
  <2>1. ASSUME NEW c \in HostIds PROVE t.host[c] = s.host[c] \/ t.host[c] = "spent"
    BY <1>1, Zenon DEF TakesCalls
  <2> QED BY <2>1
<1>3. ASSUME NEW h \in HandleIds
      PROVE  /\ t.handle[h] = "released" => h \in K.returned
             /\ s.handle[h] \in {"live", "reclaimed", "released"} => t.handle[h] \in {"live", "reclaimed", "released"}
  <2>1. CASE t.handle[h] = s.handle[h]
    BY <2>1, Zenon DEF Ties
  <2>2. CASE t.handle[h] # s.handle[h]
    <3>1. f[1] = "release" /\ f[2] = h /\ t.handle[h] = "released"
      BY <1>1, <2>2, Zenon DEF TakesTables
    <3> QED BY <3>1, Zenon DEF Recorded
  <2> QED BY <2>1, <2>2
<1>4. ASSUME NEW o \in OfferIds
      PROVE  /\ t.offer[o] # "fresh" => o \in K.offered
             /\ t.offer[o] = "released" => o \in K.acked
             /\ s.offer[o] \in {"pending", "released"} => t.offer[o] \in {"pending", "released"}
  <2>1. CASE t.offer[o] = s.offer[o]
    BY <2>1, Zenon DEF Ties
  <2>2. CASE f[1] = "reply" /\ f[3] = o /\ s.offer[o] = "fresh" /\ t.offer[o] = "offered"
    <3>1. o \in K.offered
      BY <2>2, Zenon DEF Recorded
    <3> QED BY <2>2, <3>1
  <2>3. CASE f[1] = "ack" /\ f[2] = o /\ s.offer[o] = "pending" /\ t.offer[o] = "released"
    <3>1. o \in K.acked
      BY <2>3, Zenon DEF Recorded
    <3>2. s.offer[o] # "fresh"
      BY <2>3
    <3>3. o \in K.offered
      BY <3>2, Zenon DEF Ties
    <3> QED BY <2>3, <3>1, <3>3
  <2> QED BY <1>1, <2>1, <2>2, <2>3, Zenon DEF TakesTables
<1>5. \A w \in WorkerIds : t.worker[w] # "fresh" => w \in K.sent
  BY <1>1, Zenon DEF TakesTables, Ties, Recorded
<1>6. Ties(t, K)
  <2>1. \A o \in OfferIds : o \in K.asked => t.offer[o] \in {"pending", "released"}
    BY <1>4, Zenon DEF Ties
  <2>2. \A h \in HandleIds : h \in K.held => t.handle[h] \in {"live", "reclaimed", "released"}
    BY <1>3, Zenon DEF Ties
  <2>3. \A c \in HostIds : c \in K.got => t.host[c] # "fresh"
    BY <1>2, Zenon DEF Ties
  <2> QED BY <1>3, <1>4, <1>5, <2>1, <2>2, <2>3, Zenon DEF Ties
<1>7. ASSUME NEW m \in Messages, Backed(s, m) PROVE Backed(t, m)
  <2>1. /\ m[1] = "call" => m[2] \in HostIds
        /\ m[1] = "release" => m[2] \in OfferIds
        /\ m[1] = "reply" => m[3] \subseteq HandleIds
    BY MessageParts, Zenon
  <2> QED BY <1>2, <1>3, <1>4, <1>7, <2>1, Zenon DEF Backed
<1> QED BY <1>6, <1>7, Zenon

-----------------------------------------------------------------------------
(* What the host does to a session *)

\* A step of the host leaves the phase alone, uses no id the worker is to use first,
\* and asks for nothing it has not noted.
Keeps(s, t) ==
    /\ t \in Sessions /\ t.phase = s.phase
    /\ \A c \in HostIds : s.host[c] # "fresh" => t.host[c] # "fresh"
    /\ \A w \in WorkerIds : t.worker[w] = "fresh" <=> s.worker[w] = "fresh"
    /\ \A h \in HandleIds :
          /\ t.handle[h] = "released" <=> s.handle[h] = "released"
          /\ s.handle[h] \in {"live", "reclaimed"} => t.handle[h] \in {"live", "reclaimed"}
    /\ \A o \in OfferIds :
          /\ t.offer[o] = "fresh" <=> s.offer[o] = "fresh"
          /\ t.offer[o] = "released" <=> s.offer[o] = "released"
          /\ s.offer[o] = "pending" => t.offer[o] = "pending"
    /\ \A m \in Range(t.out) : m \in Range(s.out) \/ Backed(t, m)

\* Nor does it call the worker, but for the one step that is there to do so.
CallsNot(s, t) == \A c \in HostIds : <<"call", c>> \in Range(t.out) => <<"call", c>> \in Range(s.out)

\* What is queued is a message.
LEMMA OutMessages ==
  ASSUME NEW q \in Seq(Messages)
  PROVE  \A m \in Range(q) : m \in Messages
<1>1. DOMAIN q = 1..Len(q) /\ \A i \in 1..Len(q) : q[i] \in Messages
  OBVIOUS
<1> QED BY <1>1, Zenon DEF Range

\* Agreement with the worker survives a step of the host.
LEMMA KeepsConform ==
  ASSUME NEW s \in Sessions, NEW t, Keeps(s, t)
  PROVE  /\ \A K : Ties(s, K) => Ties(t, K)
         /\ \A m \in Messages : Backed(s, m) => Backed(t, m)
         /\ \A F \in Seq(Frames) : \A n \in Nat : Ready(s, F, n) => Ready(t, F, n)
<1>1. \A h \in HandleIds : s.handle[h] \in {"live", "reclaimed", "released"}
                             => t.handle[h] \in {"live", "reclaimed", "released"}
  <2> SUFFICES ASSUME NEW h \in HandleIds, s.handle[h] \in {"live", "reclaimed", "released"}
               PROVE  t.handle[h] \in {"live", "reclaimed", "released"}
    OBVIOUS
  <2>1. /\ t.handle[h] = "released" <=> s.handle[h] = "released"
        /\ s.handle[h] \in {"live", "reclaimed"} => t.handle[h] \in {"live", "reclaimed"}
    BY Zenon DEF Keeps
  <2> QED BY <2>1
<1>2. \A o \in OfferIds : s.offer[o] \in {"pending", "released"} => t.offer[o] \in {"pending", "released"}
  <2> SUFFICES ASSUME NEW o \in OfferIds, s.offer[o] \in {"pending", "released"}
               PROVE  t.offer[o] \in {"pending", "released"}
    OBVIOUS
  <2>1. /\ t.offer[o] = "released" <=> s.offer[o] = "released"
        /\ s.offer[o] = "pending" => t.offer[o] = "pending"
    BY Zenon DEF Keeps
  <2> QED BY <2>1
<1>3. ASSUME NEW K, Ties(s, K) PROVE Ties(t, K)
  <2>1. \A w \in WorkerIds : t.worker[w] # "fresh" => w \in K.sent
    BY <1>3, Zenon DEF Ties, Keeps
  <2>2. \A o \in OfferIds : /\ t.offer[o] # "fresh" => o \in K.offered
                            /\ t.offer[o] = "released" => o \in K.acked
                            /\ o \in K.asked => t.offer[o] \in {"pending", "released"}
    BY <1>2, <1>3, Zenon DEF Ties, Keeps
  <2>3. \A h \in HandleIds : /\ t.handle[h] = "released" => h \in K.returned
                             /\ h \in K.held => t.handle[h] \in {"live", "reclaimed", "released"}
    BY <1>1, <1>3, Zenon DEF Ties, Keeps
  <2>4. \A c \in HostIds : c \in K.got => t.host[c] # "fresh"
    BY <1>3, Zenon DEF Ties, Keeps
  <2> QED BY <2>1, <2>2, <2>3, <2>4, Zenon DEF Ties
<1>4. ASSUME NEW m \in Messages, Backed(s, m) PROVE Backed(t, m)
  <2>1. /\ m[1] = "call" => m[2] \in HostIds
        /\ m[1] = "release" => m[2] \in OfferIds
        /\ m[1] = "reply" => m[3] \subseteq HandleIds
    BY MessageParts, Zenon
  <2>2. \A c \in HostIds : s.host[c] # "fresh" => t.host[c] # "fresh"
    BY Zenon DEF Keeps
  <2> QED BY <1>1, <1>2, <1>4, <2>1, <2>2, Zenon DEF Backed
<1>5. ASSUME NEW f \in Frames, Fits(s, f) PROVE Fits(t, f)
  <2>1. /\ f[1] \in {"app", "law"} => f[2] \in WorkerIds
        /\ f[1] = "reply" => f[2] \in HostIds /\ f[3] \in OfferIds \cup {NoOffer}
        /\ f[1] = "release" => f[2] \in HandleIds
        /\ f[1] = "ack" => f[2] \in OfferIds
    BY FrameParts, Zenon
  <2>2. f[1] = "reply" => t.host[f[2]] # "fresh" /\ (f[3] # NoOffer => t.offer[f[3]] = "fresh")
    BY <1>5, <2>1, Zenon DEF Keeps, Fits
  <2>3. /\ f[1] \in {"app", "law"} => t.worker[f[2]] = "fresh"
        /\ f[1] = "release" => t.handle[f[2]] \in {"live", "reclaimed"}
        /\ f[1] = "ack" => t.offer[f[2]] = "pending"
    BY <1>5, <2>1, Zenon DEF Keeps, Fits
  <2> QED BY <1>5, <2>2, <2>3, Zenon DEF Fits
<1>6. ASSUME NEW F \in Seq(Frames), NEW n \in Nat, Ready(s, F, n) PROVE Ready(t, F, n)
  <2>1. \A i \in (n + 1)..Len(F) : F[i] \in Frames
    OBVIOUS
  <2>2. t.phase = s.phase
    BY Zenon DEF Keeps
  <2> QED BY <1>5, <1>6, <2>1, <2>2, Zenon DEF Ready
<1> QED BY <1>3, <1>4, <1>6, Zenon

\* Steps of the host follow each other.
LEMMA KeepsTwice ==
  ASSUME NEW s \in Sessions, NEW a, NEW t, Keeps(s, a), Keeps(a, t)
  PROVE  Keeps(s, t)
<1>1. a \in Sessions /\ t \in Sessions /\ t.phase = s.phase
  BY Zenon DEF Keeps
<1>2. /\ \A c \in HostIds : s.host[c] # "fresh" => t.host[c] # "fresh"
      /\ \A w \in WorkerIds : t.worker[w] = "fresh" <=> s.worker[w] = "fresh"
  BY Zenon DEF Keeps
<1>3. \A h \in HandleIds :
          /\ t.handle[h] = "released" <=> s.handle[h] = "released"
          /\ s.handle[h] \in {"live", "reclaimed"} => t.handle[h] \in {"live", "reclaimed"}
  BY Zenon DEF Keeps
<1>4. \A o \in OfferIds :
          /\ t.offer[o] = "fresh" <=> s.offer[o] = "fresh"
          /\ t.offer[o] = "released" <=> s.offer[o] = "released"
          /\ s.offer[o] = "pending" => t.offer[o] = "pending"
  BY Zenon DEF Keeps
<1>5. ASSUME NEW m \in Range(t.out), m \notin Range(s.out) PROVE Backed(t, m)
  <2>1. CASE m \notin Range(a.out)
    BY <2>1, Zenon DEF Keeps
  <2>2. CASE m \in Range(a.out)
    <3>1. Backed(a, m)
      BY <1>5, <2>2, Zenon DEF Keeps
    <3>2. m \in Messages
      BY <1>1, <2>2, Fields, OutMessages, Zenon
    <3> QED BY <1>1, <3>1, <3>2, KeepsConform, Zenon
  <2> QED BY <2>1, <2>2
<1> QED BY <1>1, <1>2, <1>3, <1>4, <1>5, Zenon DEF Keeps

\* A session whose tables are those of another is kept, if what it sends is backed.
LEMMA KeepsSame ==
  ASSUME NEW s \in Sessions, NEW t \in Sessions, SameTables(s, t),
         \A m \in Range(t.out) : m \in Range(s.out) \/ Backed(s, m)
  PROVE  Keeps(s, t)
<1>1. \A m : Backed(s, m) => Backed(t, m)
  BY Zenon DEF Backed, SameTables
<1> QED BY <1>1, Zenon DEF Keeps, SameTables

\* A frame is queued that the session backs.
LEMMA KeepsSend ==
  ASSUME NEW s \in Sessions, NEW m \in Messages, Backed(s, m)
  PROVE  Keeps(s, Send(s, m))
<1> DEFINE t == Send(s, m)
<1>1. /\ t \in Sessions /\ SameTables(s, t)
      /\ \A x : x \in Range(t.out) <=> x \in Range(s.out) \/ x = m
  BY Sends, Zenon
<1> HIDE DEF t
<1>2. Keeps(s, t)
  BY <1>1, KeepsSame, Zenon
<1> QED BY <1>2, Zenon DEF t

\* The calls that the caller is told about stay as they are on a step that calls nobody.
LEMMA CallsNotSend ==
  ASSUME NEW s \in Sessions, NEW m \in Messages, m[1] # "call"
  PROVE  CallsNot(s, Send(s, m))
<1>1. \A x : x \in Range(Send(s, m).out) <=> x \in Range(s.out) \/ x = m
  BY Sends, Zenon
<1>2. \A c : <<"call", c>> # m
  OBVIOUS
<1> QED BY <1>1, <1>2, Zenon DEF CallsNot

\* An event is reported.
LEMMA KeepsReport ==
  ASSUME NEW s \in Sessions, NEW e \in News
  PROVE  Keeps(s, Report(s, e)) /\ CallsNot(s, Report(s, e))
<1> DEFINE t == Report(s, e)
<1>1. t \in Sessions /\ SameTables(s, t) /\ t.out = s.out
  BY Reports, Zenon
<1> HIDE DEF t
<1>2. Keeps(s, t) /\ CallsNot(s, t)
  BY <1>1, KeepsSame, Zenon DEF CallsNot
<1> QED BY <1>2, Zenon DEF t

\* call
LEMMA CallWorkerKeeps ==
  ASSUME NEW s \in Sessions, NEW c \in HostIds
  PROVE  LET t == CallWorker(s, c) IN
         /\ Keeps(s, t) /\ t.news = s.news
         /\ \A x \in HostIds : t.host[x] = IF x = c THEN "open" ELSE s.host[x]
         /\ \A x : x \in Range(t.out) <=> x \in Range(s.out) \/ x = <<"call", c>>
<1> DEFINE a == [s EXCEPT !.host[c] = "open"]
           m == <<"call", c>>
           t == Send(a, m)
<1>1. /\ a \in Sessions /\ a.phase = s.phase /\ a.out = s.out /\ a.news = s.news
      /\ a.worker = s.worker /\ a.handle = s.handle /\ a.offer = s.offer
      /\ \A x \in HostIds : a.host[x] = IF x = c THEN "open" ELSE s.host[x]
  <2>1. "open" \in HostStates
    BY DEF HostStates
  <2> QED BY <2>1, WriteHost, Zenon
<1> HIDE DEF a
<1>2. Keeps(s, a)
  <2>1. \A x \in HostIds : s.host[x] # "fresh" => a.host[x] # "fresh"
    BY <1>1
  <2> QED BY <1>1, <2>1, Zenon DEF Keeps
<1>3. m \in Messages
  BY Kinds, Zenon
<1>4. Backed(a, m)
  <2>1. m[1] = "call" /\ m[2] = c
    OBVIOUS
  <2>2. a.host[c] # "fresh"
    BY <1>1
  <2> QED BY <2>1, <2>2 DEF Backed
<1>5. CallWorker(s, c) = t
  BY Zenon DEF CallWorker, a
<1> HIDE DEF m
<1>6. Keeps(a, t) /\ t.news = a.news /\ SameTables(a, t) /\ \A x : x \in Range(t.out) <=> x \in Range(a.out) \/ x = m
  BY <1>1, <1>3, <1>4, KeepsSend, Sends, Zenon
<1> HIDE DEF t
<1>7. Keeps(s, t)
  BY <1>2, <1>6, KeepsTwice, Zenon
<1> QED BY <1>1, <1>5, <1>6, <1>7, Zenon DEF SameTables, m

\* cancel
LEMMA CancelKeeps ==
  ASSUME NEW s \in Sessions, NEW c \in HostIds
  PROVE  LET t == Cancel(s, c) IN
         Keeps(s, t) /\ CallsNot(s, t) /\ t.news = s.news /\ t.host = s.host
<1> DEFINE t == Cancel(s, c)
           m == <<"cancel", c>>
<1>1. CASE t = s
  <2> HIDE DEF t
  <2>1. Keeps(s, t) /\ CallsNot(s, t) /\ t.news = s.news /\ t.host = s.host
    BY <1>1, KeepsSame, Zenon DEF CallsNot, SameTables
  <2> QED BY <2>1, Zenon DEF t
<1>2. CASE t = Send(s, m)
  <2>1. m \in Messages
    BY Kinds, Zenon
  <2>2. m[1] # "call" /\ Backed(s, m)
    BY DEF Backed
  <2> HIDE DEF t, m
  <2>3. Keeps(s, t) /\ CallsNot(s, t) /\ t.news = s.news /\ t.host = s.host
    BY <1>2, <2>1, <2>2, KeepsSend, CallsNotSend, Sends, Zenon DEF SameTables
  <2> QED BY <2>3, Zenon DEF t
<1> QED BY <1>1, <1>2, Zenon DEF Cancel

\* expire_deadlines
LEMMA ExpireKeeps ==
  ASSUME NEW s \in Sessions, NEW c \in HostIds
  PROVE  LET t == Expire(s, c) IN
         /\ Keeps(s, t) /\ CallsNot(s, t) /\ t.news = s.news \cup {<<"lost", c, "unknown">>}
         /\ \A x \in HostIds : x # c => t.host[x] = s.host[x]
<1> DEFINE m == <<"cancel", c>>
           a == Send(s, m)
           b == [a EXCEPT !.host[c] = "spent"]
           e == <<"lost", c, "unknown">>
           t == Report(b, e)
<1>1. m \in Messages /\ e \in News
  BY Kinds, Zenon
<1>2. m[1] # "call" /\ Backed(s, m)
  BY DEF Backed
<1>3. Expire(s, c) = t
  BY Zenon DEF Expire
<1> HIDE DEF m
<1>4. a \in Sessions /\ Keeps(s, a) /\ CallsNot(s, a) /\ a.news = s.news /\ a.host = s.host
  BY <1>1, <1>2, KeepsSend, CallsNotSend, Sends, Zenon DEF SameTables
<1> HIDE DEF a
<1>5. /\ b \in Sessions /\ b.phase = a.phase /\ b.out = a.out /\ b.news = a.news
      /\ b.worker = a.worker /\ b.handle = a.handle /\ b.offer = a.offer
      /\ \A x \in HostIds : b.host[x] = IF x = c THEN "spent" ELSE a.host[x]
  <2>1. "spent" \in HostStates
    BY DEF HostStates
  <2> QED BY <1>4, <2>1, WriteHost, ZenonT(30)
<1> HIDE DEF b
<1>6. Keeps(a, b) /\ CallsNot(a, b)
  <2>1. \A x \in HostIds : a.host[x] # "fresh" => b.host[x] # "fresh"
    BY <1>5
  <2> QED BY <1>5, <2>1, Zenon DEF Keeps, CallsNot
<1>7. Keeps(b, t) /\ CallsNot(b, t) /\ t.news = b.news \cup {e} /\ t.host = b.host
  <2> HIDE DEF e
  <2> QED BY <1>1, <1>5, KeepsReport, Reports, Zenon DEF SameTables
<1> HIDE DEF t, e
<1>8. Keeps(s, b)
  BY <1>4, <1>6, KeepsTwice, Zenon
<1>9. Keeps(s, t)
  BY <1>7, <1>8, KeepsTwice, Zenon
<1>10. CallsNot(s, t)
  BY <1>4, <1>6, <1>7, Zenon DEF CallsNot
<1>11. t.news = s.news \cup {e}
  BY <1>4, <1>5, <1>7
<1>12. \A x \in HostIds : x # c => t.host[x] = s.host[x]
  BY <1>4, <1>5, <1>7
<1> QED BY <1>3, <1>9, <1>10, <1>11, <1>12, Zenon DEF e

\* release_worker_handle
LEMMA ReleaseKeeps ==
  ASSUME NEW s \in Sessions, NEW o \in OfferIds, s.offer[o] = "offered"
  PROVE  LET t == ReleaseWorkerHandle(s, o) IN
         Keeps(s, t) /\ CallsNot(s, t) /\ t.news = s.news /\ t.host = s.host
<1> DEFINE a == [s EXCEPT !.offer[o] = "pending"]
           m == <<"release", o>>
           t == Send(a, m)
<1>1. /\ a \in Sessions /\ a.phase = s.phase /\ a.out = s.out /\ a.news = s.news
      /\ a.host = s.host /\ a.worker = s.worker /\ a.handle = s.handle
      /\ \A x \in OfferIds : a.offer[x] = IF x = o THEN "pending" ELSE s.offer[x]
  <2>1. "pending" \in OfferStates
    BY DEF OfferStates
  <2> QED BY <2>1, WriteOffer, Zenon
<1>2. ReleaseWorkerHandle(s, o) = t
  BY Zenon DEF ReleaseWorkerHandle
<1> HIDE DEF a
<1>3. Keeps(s, a) /\ CallsNot(s, a)
  <2>1. \A x \in OfferIds :
          /\ a.offer[x] = "fresh" <=> s.offer[x] = "fresh"
          /\ a.offer[x] = "released" <=> s.offer[x] = "released"
          /\ s.offer[x] = "pending" => a.offer[x] = "pending"
    BY <1>1
  <2> QED BY <1>1, <2>1, Zenon DEF Keeps, CallsNot
<1>4. m \in Messages
  BY Kinds, Zenon
<1>5. m[1] # "call" /\ Backed(a, m)
  BY <1>1 DEF Backed
<1> HIDE DEF m
<1>6. Keeps(a, t) /\ CallsNot(a, t) /\ t.news = a.news /\ t.host = a.host
  BY <1>1, <1>4, <1>5, KeepsSend, CallsNotSend, Sends, Zenon DEF SameTables
<1> HIDE DEF t
<1>7. Keeps(s, t)
  BY <1>3, <1>6, KeepsTwice, Zenon
<1>8. CallsNot(s, t) /\ t.news = s.news /\ t.host = s.host
  BY <1>1, <1>3, <1>6, Zenon DEF CallsNot
<1> QED BY <1>2, <1>7, <1>8, Zenon

\* mint_capability_handle and offer_artifact, of a handle that is new.
LEMMA MintKeeps ==
  ASSUME NEW s \in Sessions, NEW w \in WorkerIds, NEW h \in HandleIds, s.handle[h] = "fresh"
  PROVE  LET t == Minted(s, w, h) IN
         Keeps(s, t) /\ CallsNot(s, t) /\ t.news = s.news /\ t.host = s.host
<1> DEFINE t == Minted(s, w, h)
           handle == With(s.handle, {h}, "live")
           minted == With(s.minted, {h}, w)
<1>1. /\ handle \in [HandleIds -> HandleStates] /\ minted \in [HandleIds -> WorkerIds \cup {NoCall}]
      /\ \A x \in HandleIds : handle[x] = IF x = h THEN "live" ELSE s.handle[x]
  BY Fields DEF With, HandleStates
<1>2. t = [s EXCEPT !.handle = handle, !.minted = minted]
  BY Zenon DEF Minted
<1> HIDE DEF handle, minted, t
<1>3. /\ t \in Sessions /\ t.phase = s.phase /\ t.out = s.out /\ t.news = s.news
      /\ t.host = s.host /\ t.worker = s.worker /\ t.offer = s.offer /\ t.handle = handle
  BY <1>1, <1>2, Zenon DEF Sessions
<1>4. \A x \in HandleIds :
          /\ t.handle[x] = "released" <=> s.handle[x] = "released"
          /\ s.handle[x] \in {"live", "reclaimed"} => t.handle[x] \in {"live", "reclaimed"}
  BY <1>1, <1>3
<1>5. Keeps(s, t) /\ CallsNot(s, t)
  BY <1>3, <1>4, Zenon DEF Keeps, CallsNot
<1> QED BY <1>3, <1>5, Zenon DEF t

\* reclaim_handles
LEMMA ReclaimKeeps ==
  ASSUME NEW s \in Sessions, NEW H
  PROVE  LET t == Reclaimed(s, H) IN
         /\ Keeps(s, t) /\ t.out = s.out /\ t.news = s.news /\ t.host = s.host /\ t.worker = s.worker
<1> DEFINE t == Reclaimed(s, H)
           handle == With(s.handle, {h \in H : s.handle[h] = "live"}, "reclaimed")
<1>1. /\ handle \in [HandleIds -> HandleStates]
      /\ \A x \in HandleIds : handle[x] = s.handle[x] \/ (s.handle[x] = "live" /\ handle[x] = "reclaimed")
  BY Fields DEF With, HandleStates
<1>2. t = [s EXCEPT !.handle = handle]
  BY Zenon DEF Reclaimed
<1> HIDE DEF handle, t
<1>3. /\ t \in Sessions /\ t.phase = s.phase /\ t.out = s.out /\ t.news = s.news
      /\ t.host = s.host /\ t.worker = s.worker /\ t.offer = s.offer /\ t.handle = handle
  BY <1>1, <1>2, Zenon DEF Sessions
<1>4. \A x \in HandleIds :
          /\ t.handle[x] = "released" <=> s.handle[x] = "released"
          /\ s.handle[x] \in {"live", "reclaimed"} => t.handle[x] \in {"live", "reclaimed"}
  BY <1>1, <1>3
<1>5. Keeps(s, t)
  BY <1>3, <1>4, Zenon DEF Keeps
<1> QED BY <1>3, <1>5, Zenon DEF t

\* reply_to_worker
LEMMA ReplyKeeps ==
  ASSUME NEW s \in Sessions, NEW w \in WorkerIds, NEW ok \in BOOLEAN
  PROVE  LET t == ReplyToWorker(s, w, ok) IN
         Keeps(s, t) /\ CallsNot(s, t) /\ t.news = s.news /\ t.host = s.host
<1> DEFINE u == ReplyToWorker(s, w, ok)
           a == [s EXCEPT !.worker[w] = "spent"]
           mine == MintedFor(s, w)
           live == mine \cap Where(s.handle, "live")
           b == Reclaimed(a, mine)
<1>1. CASE u = s
  <2> HIDE DEF u
  <2>1. Keeps(s, u) /\ CallsNot(s, u) /\ u.news = s.news /\ u.host = s.host
    BY <1>1, KeepsSame, Zenon DEF CallsNot, SameTables
  <2> QED BY <2>1, Zenon DEF u
<1>2. /\ a \in Sessions /\ a.phase = s.phase /\ a.out = s.out /\ a.news = s.news
      /\ a.host = s.host /\ a.handle = s.handle /\ a.offer = s.offer
      /\ \A x \in WorkerIds : a.worker[x] = IF x = w THEN "spent" ELSE s.worker[x]
  <2>1. "spent" \in WorkerStates
    BY DEF WorkerStates
  <2> QED BY <2>1, WriteWorker, Zenon
<1> HIDE DEF a
<1>3. s.worker[w] = "open" => Keeps(s, a)
  <2>1. s.worker[w] = "open" => \A x \in WorkerIds : a.worker[x] = "fresh" <=> s.worker[x] = "fresh"
    BY <1>2
  <2> QED BY <1>2, <2>1, Zenon DEF Keeps
<1>4. CASE s.worker[w] = "open" /\ u = Send(a, <<"reply", w, live>>)
  <2> DEFINE m == <<"reply", w, live>>
  <2>1. live \in SUBSET HandleIds /\ \A h \in live : s.handle[h] = "live"
    BY DEF MintedFor, Where
  <2>2. m \in Messages
    <3> HIDE DEF live
    <3> QED BY <2>1, Kinds, Zenon
  <2>3. m[1] = "reply" /\ m[1] # "call" /\ m[1] # "release" /\ m[3] = live
    OBVIOUS
  <2> HIDE DEF live, m
  <2>4. Backed(a, m)
    <3>1. \A h \in m[3] : a.handle[h] = "live"
      BY <1>2, <2>1, <2>3, Zenon
    <3> QED BY <2>3, <3>1, Zenon DEF Backed
  <2> HIDE DEF u
  <2>5. Keeps(a, u) /\ CallsNot(a, u) /\ u.news = a.news /\ u.host = a.host
    <3>1. u = Send(a, m)
      BY <1>4, Zenon DEF m
    <3> QED BY <1>2, <2>2, <2>3, <2>4, <3>1, KeepsSend, CallsNotSend, Sends, Zenon DEF SameTables
  <2>6. Keeps(s, u)
    BY <1>3, <1>4, <2>5, KeepsTwice, Zenon
  <2>7. CallsNot(s, u) /\ u.news = s.news /\ u.host = s.host
    BY <1>2, <2>5, Zenon DEF CallsNot
  <2> QED BY <2>6, <2>7, Zenon DEF u
<1>5. CASE s.worker[w] = "open" /\ u = Send(b, <<"reply", w, {}>>)
  <2> DEFINE m == <<"reply", w, {}>>
  <2>1. /\ Keeps(a, b) /\ b.out = a.out /\ b.news = a.news /\ b.host = a.host
    BY <1>2, ReclaimKeeps, Zenon
  <2>2. m \in Messages
    BY Kinds, Zenon
  <2>3. m[1] # "call" /\ Backed(b, m)
    BY DEF Backed
  <2>4. u = Send(b, m)
    BY <1>5, Zenon
  <2>5. b \in Sessions
    BY <2>1, Zenon DEF Keeps
  <2> HIDE DEF m, b, u
  <2>6. Keeps(b, u) /\ CallsNot(b, u) /\ u.news = b.news /\ u.host = b.host
    BY <2>2, <2>3, <2>4, <2>5, KeepsSend, CallsNotSend, Sends, Zenon DEF SameTables
  <2>7. Keeps(s, b)
    BY <1>3, <1>5, <2>1, KeepsTwice, Zenon
  <2>8. Keeps(s, u)
    BY <2>6, <2>7, KeepsTwice, Zenon
  <2>9. CallsNot(s, u) /\ u.news = s.news /\ u.host = s.host
    BY <1>2, <2>1, <2>6, Zenon DEF CallsNot
  <2> QED BY <2>8, <2>9, Zenon DEF u
<1>6. \/ u = s
      \/ s.worker[w] = "open" /\ u = Send(a, <<"reply", w, live>>)
      \/ s.worker[w] = "open" /\ u = Send(b, <<"reply", w, {}>>)
  BY Zenon DEF ReplyToWorker, a
<1> QED BY <1>1, <1>4, <1>5, <1>6, Zenon

\* The members of two queues that are joined, and of one that is cut.
LEMMA Joins ==
  ASSUME NEW S, NEW q \in Seq(S), NEW r \in Seq(S)
  PROVE  q \o r \in Seq(S) /\ \A x : x \in Range(q \o r) <=> x \in Range(q) \/ x \in Range(r)
<1>1. /\ q \o r \in Seq(S) /\ Len(q) \in Nat /\ Len(r) \in Nat
      /\ DOMAIN q = 1..Len(q) /\ DOMAIN r = 1..Len(r) /\ DOMAIN (q \o r) = 1..(Len(q) + Len(r))
      /\ \A i \in 1..(Len(q) + Len(r)) : (q \o r)[i] = IF i <= Len(q) THEN q[i] ELSE r[i - Len(q)]
  OBVIOUS
<1>2. ASSUME NEW x PROVE x \in Range(q \o r) <=> x \in Range(q) \/ x \in Range(r)
  <2>1. /\ x \in Range(q) <=> \E i \in 1..Len(q) : x = q[i]
        /\ x \in Range(r) <=> \E i \in 1..Len(r) : x = r[i]
        /\ x \in Range(q \o r) <=> \E i \in 1..(Len(q) + Len(r)) : x = (q \o r)[i]
    BY <1>1, Zenon DEF Range
  <2>2. ASSUME NEW i \in 1..(Len(q) + Len(r)), x = (q \o r)[i]
        PROVE  (\E j \in 1..Len(q) : x = q[j]) \/ (\E j \in 1..Len(r) : x = r[j])
    <3>1. CASE i <= Len(q)
      <4>1. i \in 1..Len(q) /\ x = q[i]
        BY <1>1, <2>2, <3>1
      <4> QED BY <4>1
    <3>2. CASE ~(i <= Len(q))
      <4>1. i - Len(q) \in 1..Len(r) /\ x = r[i - Len(q)]
        BY <1>1, <2>2, <3>2
      <4> QED BY <4>1
    <3> QED BY <3>1, <3>2
  <2>3. ASSUME NEW i \in 1..Len(q), x = q[i] PROVE \E j \in 1..(Len(q) + Len(r)) : x = (q \o r)[j]
    <3>1. i \in 1..(Len(q) + Len(r)) /\ i <= Len(q)
      BY <1>1
    <3> QED BY <1>1, <2>3, <3>1
  <2>4. ASSUME NEW i \in 1..Len(r), x = r[i] PROVE \E j \in 1..(Len(q) + Len(r)) : x = (q \o r)[j]
    <3>1. i + Len(q) \in 1..(Len(q) + Len(r)) /\ ~(i + Len(q) <= Len(q)) /\ (i + Len(q)) - Len(q) = i
      BY <1>1
    <3>2. (q \o r)[i + Len(q)] = r[i]
      BY <1>1, <3>1
    <3> QED BY <2>4, <3>1, <3>2
  <2> QED BY <2>1, <2>2, <2>3, <2>4, Zenon
<1> QED BY <1>1, <1>2, Zenon

\* The first frames of a queue.
LEMMA Cuts ==
  ASSUME NEW S, NEW q \in Seq(S), NEW n \in 0..Len(q)
  PROVE  SubSeq(q, 1, n) \in Seq(S) /\ \A x \in Range(SubSeq(q, 1, n)) : x \in Range(q)
<1>1. /\ Len(q) \in Nat /\ DOMAIN q = 1..Len(q)
      /\ SubSeq(q, 1, n) \in Seq(S) /\ DOMAIN SubSeq(q, 1, n) = 1..n
      /\ \A i \in 1..n : SubSeq(q, 1, n)[i] = q[i] /\ i \in 1..Len(q)
  OBVIOUS
<1> QED BY <1>1, Zenon DEF Range

\* apply_events, what it makes of the session, and what is left of it once its output
\* is queued or dropped.
LEMMA AfterKeeps ==
  ASSUME NEW s \in Sessions, NEW t
  PROVE  LET a == SessionAfter(s, t)
             z == [SessionAfter(s, t) EXCEPT !.out = <<>>]
         IN  /\ Keeps(s, a) /\ CallsNot(s, a)
             /\ Keeps(s, z) /\ z.host = s.host /\ z.out = <<>> /\ z.news = {}
<1> DEFINE failed == Cancelled(s) \cup (IF Room(t) THEN {} ELSE Delivered(s))
           w == CHOOSE x \in failed : TRUE
           b == IF failed = {} THEN s ELSE ReplyToWorker(s, w, FALSE)
           a == SessionAfter(s, t)
           z == [a EXCEPT !.out = <<>>]
<1>1. a = [b EXCEPT !.news = {}]
  BY Zenon DEF SessionAfter
<1>2. failed \in SUBSET WorkerIds
  BY Zenon DEF Delivered, Cancelled
<1> HIDE DEF failed
<1>3. Keeps(s, b) /\ CallsNot(s, b) /\ b.host = s.host /\ b \in Sessions
  <2>1. CASE failed = {}
    <3>1. b = s
      BY <2>1, Zenon
    <3> HIDE DEF b
    <3> QED BY <3>1, KeepsSame, Zenon DEF CallsNot, SameTables
  <2>2. CASE failed # {}
    <3>1. w \in WorkerIds /\ b = ReplyToWorker(s, w, FALSE)
      BY <1>2, <2>2, Zenon
    <3> HIDE DEF b, w
    <3>2. Keeps(s, b) /\ CallsNot(s, b) /\ b.host = s.host
      BY <3>1, ReplyKeeps, Zenon
    <3>3. b \in Sessions
      BY <3>2, Zenon DEF Keeps
    <3> QED BY <3>2, <3>3, Zenon
  <2> QED BY <2>1, <2>2, Zenon
<1> HIDE DEF b, a
<1>4. /\ a \in Sessions /\ SameTables(b, a) /\ a.out = b.out /\ a.news = {}
  BY <1>1, <1>3 DEF Sessions, SameTables
<1>5. /\ z \in Sessions /\ SameTables(a, z) /\ z.out = <<>> /\ z.news = {}
  <2>1. <<>> \in Seq(Messages)
    OBVIOUS
  <2> QED BY <1>4, <2>1, Zenon DEF Sessions, SameTables
<1>6. Range(<<>>) = {}
  BY DEF Range
<1> HIDE DEF z
<1>7. Keeps(b, a) /\ Keeps(a, z)
  BY <1>3, <1>4, <1>5, <1>6, KeepsSame, Zenon
<1>8. Keeps(s, a) /\ Keeps(s, z)
  BY <1>3, <1>7, KeepsTwice, Zenon
<1>9. CallsNot(s, a)
  BY <1>3, <1>4, Zenon DEF CallsNot
<1>10. z.host = s.host
  BY <1>3, <1>4, <1>5, Zenon DEF SameTables
<1> QED BY <1>5, <1>8, <1>9, <1>10, Zenon DEF a, z

-----------------------------------------------------------------------------
(* A turn of the pump *)

\* An acknowledged release is one the worker acknowledged.
AckedBacked(r, K) == \A o \in OfferIds : r[o] = "acked" => o \in K.acked

\* The callers after the events of a turn: x was k.
CallersMoved(s, k, x, K) ==
    /\ x \in [HostIds -> CallStates]
    /\ \A c \in HostIds :
          /\ x[c] = "waiting" => k[c] = "waiting" /\ s.host[c] = "open"
          /\ x[c] \in {"idle", "queued", "refused", "closed"} => x[c] = k[c]
          /\ x[c] = "cancelled" => k[c] = "cancelled" \/ K.bye

\* What the session reports settles calls it no longer has open, and only the
\* worker's goodbye settles one as cancelled.
LEMMA CallersMove ==
  ASSUME NEW s \in Sessions, NEW k \in [HostIds -> CallStates], NEW K, BackedNews(s, K), Waits(s, k)
  PROVE  CallersMoved(s, k, CallsAfter(s, k), K)
<1> DEFINE x == CallsAfter(s, k)
<1>1. x = [c \in HostIds |-> IF k[c] = "waiting" /\ EndsOf(s, c) # {}
                             THEN CHOOSE e \in EndsOf(s, c) : TRUE ELSE k[c]]
  BY Zenon DEF CallsAfter
<1>2. ASSUME NEW c \in HostIds
      PROVE  /\ x[c] \in CallStates
             /\ x[c] = "waiting" => k[c] = "waiting" /\ s.host[c] = "open"
             /\ x[c] \in {"idle", "queued", "refused", "closed"} => x[c] = k[c]
             /\ x[c] = "cancelled" => k[c] = "cancelled" \/ K.bye
  <2>1. x[c] = IF k[c] = "waiting" /\ EndsOf(s, c) # {}
               THEN CHOOSE e \in EndsOf(s, c) : TRUE ELSE k[c]
    BY <1>1, Zenon
  <2> HIDE DEF x
  <2>2. CASE k[c] = "waiting" /\ EndsOf(s, c) # {}
    <3>1. x[c] \in EndsOf(s, c)
      BY <2>1, <2>2, Zenon
    <3>2. x[c] \in {"unknown", "cancelled", "settled"}
      BY <3>1 DEF EndsOf
    <3>3. ASSUME x[c] = "cancelled" PROVE K.bye
      <4>1. "cancelled" \in EndsOf(s, c) /\ "cancelled" # "settled"
        BY <3>1, <3>3
      <4>2. Told(s, <<"lost", c, "cancelled">>)
        BY <4>1, Zenon DEF EndsOf
      <4> QED BY <4>2, Zenon DEF BackedNews
    <3> QED BY <3>2, <3>3 DEF CallStates
  <2>3. CASE ~(k[c] = "waiting" /\ EndsOf(s, c) # {})
    <3>1. x[c] = k[c] /\ k[c] \in CallStates
      BY <2>1, <2>3, Zenon
    <3>2. k[c] = "waiting" => s.host[c] = "open"
      BY <2>3, Zenon DEF Waits
    <3> QED BY <3>1, <3>2, Zenon
  <2> QED BY <2>2, <2>3
<1>3. x \in [HostIds -> CallStates]
  <2>1. \A c \in HostIds : x[c] \in CallStates
    BY <1>2
  <2> QED BY <1>1, <2>1, Zenon
<1> HIDE DEF x
<1>4. CallersMoved(s, k, x, K)
  BY <1>2, <1>3, Zenon DEF CallersMoved
<1> QED BY <1>4, Zenon DEF x

\* Releases that are still waited for when the session is over are lost.
LEMMA LostEnds ==
  ASSUME NEW r \in [OfferIds -> RelStates], NEW K, AckedBacked(r, K)
  PROVE  /\ Lost(r) \in [OfferIds -> RelStates] /\ AckedBacked(Lost(r), K)
         /\ \A o \in OfferIds : Lost(r)[o] # "waiting"
<1> DEFINE x == Lost(r)
<1>1. x \in [OfferIds -> RelStates] /\ \A o \in OfferIds : x[o] = IF r[o] = "waiting" THEN "lost" ELSE r[o]
  BY DEF Lost, With, Where, RelStates
<1> HIDE DEF x
<1>2. \A o \in OfferIds : x[o] # "waiting" /\ (x[o] = "acked" => r[o] = "acked")
  BY <1>1
<1>3. AckedBacked(x, K)
  BY <1>2, Zenon DEF AckedBacked
<1> QED BY <1>1, <1>2, <1>3, Zenon DEF x

\* The releases after the events of a turn.
LEMMA RelsMove ==
  ASSUME NEW s, NEW r \in [OfferIds -> RelStates], NEW K, AckedBacked(r, K), BackedNews(s, K)
  PROVE  RelsAfter(s, r) \in [OfferIds -> RelStates] /\ AckedBacked(RelsAfter(s, r), K)
<1> DEFINE y == [o \in OfferIds |-> IF r[o] = "waiting" /\ Told(s, <<"acked", o>>) THEN "acked" ELSE r[o]]
<1>1. RelsAfter(s, r) = IF Over(s) THEN Lost(y) ELSE y
  BY Zenon DEF RelsAfter
<1>2. y \in [OfferIds -> RelStates]
      /\ \A o \in OfferIds : y[o] = "acked" => r[o] = "acked" \/ Told(s, <<"acked", o>>)
  BY DEF RelStates
<1> HIDE DEF y
<1>3. AckedBacked(y, K)
  BY <1>2, Zenon DEF AckedBacked, BackedNews
<1>4. Lost(y) \in [OfferIds -> RelStates] /\ AckedBacked(Lost(y), K)
  BY <1>2, <1>3, LostEnds, Zenon
<1>5. CASE Over(s)
  BY <1>1, <1>4, <1>5, Zenon
<1>6. CASE ~Over(s)
  BY <1>1, <1>2, <1>3, <1>6, Zenon
<1> QED BY <1>5, <1>6

\* A caller that is told its call never ran is told the truth after the events, if
\* only calls that were waited for have been queued since.
LEMMA UnsentMoves ==
  ASSUME NEW s, NEW k, NEW x, NEW K, CallersMoved(s, k, x, K), NEW q, NEW p, Unsent(k, q, K),
         \A c \in HostIds : <<"call", c>> \in Range(p) => <<"call", c>> \in Range(q) \/ k[c] = "waiting"
  PROVE  Unsent(x, p, K)
<1> SUFFICES ASSUME NEW c \in HostIds
             PROVE  /\ x[c] \in {"idle", "queued", "refused", "closed"}
                         => <<"call", c>> \notin Range(p) /\ c \notin K.got
                    /\ x[c] = "cancelled" => (<<"call", c>> \notin Range(p) /\ c \notin K.got) \/ K.bye
  BY Zenon DEF Unsent
<1>1. ASSUME x[c] \in {"idle", "queued", "refused", "closed"}
      PROVE  <<"call", c>> \notin Range(p) /\ c \notin K.got
  <2>1. x[c] = k[c]
    BY <1>1, Zenon DEF CallersMoved
  <2>2. k[c] # "waiting"
    BY <1>1, <2>1
  <2>3. <<"call", c>> \notin Range(q) /\ c \notin K.got
    BY <1>1, <2>1, Zenon DEF Unsent
  <2> QED BY <2>2, <2>3, Zenon
<1>2. ASSUME x[c] = "cancelled", ~K.bye
      PROVE  <<"call", c>> \notin Range(p) /\ c \notin K.got
  <2>1. k[c] = "cancelled"
    BY <1>2, Zenon DEF CallersMoved
  <2>2. k[c] # "waiting"
    BY <2>1
  <2>3. <<"call", c>> \notin Range(q) /\ c \notin K.got
    BY <1>2, <2>1, Zenon DEF Unsent
  <2> QED BY <2>2, <2>3, Zenon
<1> QED BY <1>1, <1>2, Zenon

\* The news is the worker's doing.
JustNews(s) ==
    /\ BackedNews(s, know)
    /\ Told(s, <<"over", "protocol">>) => faulty
    /\ Told(s, <<"over", "midframe">>) => child # "up" /\ know.part
    /\ Told(s, <<"over", "disconnect">>) => child # "up" /\ ~know.part

\* set_closed, with the cause that the news has.
LEMMA Closes ==
  ASSUME SummaryIsJust, NEW s, JustNews(s), CloseOn(s), UNCHANGED <<child, know, faulty>>
  PROVE  /\ SummaryIsJust'
         /\ Over(s) \/ summary # "open" => summary' # "open"
<1>1. CASE summary' = summary /\ ~Over(s)
  BY <1>1 DEF SummaryIsJust
<1>2. CASE Over(s)
  <2> DEFINE cause == CHOOSE cause_1 \in Causes(s) : TRUE
  <2>1. cause \in Causes(s)
    BY <1>2, Zenon DEF Over
  <2>2. summary' = IF summary = "open" THEN cause ELSE summary
    BY <1>2, Zenon DEF CloseOn, SetClosed
  <2> HIDE DEF cause
  <2>3. cause \in {"goodbye", "protocol", "midframe", "disconnect"} /\ Told(s, <<"over", cause>>)
    BY <2>1, Zenon DEF Causes
  <2>4. /\ cause = "protocol" => faulty
        /\ cause = "midframe" => child # "up" /\ know.part
        /\ cause = "disconnect" => child # "up" /\ ~know.part
        /\ cause = "goodbye" => know.bye
    BY <2>3, Zenon DEF JustNews, BackedNews
  <2> QED BY <2>2, <2>3, <2>4 DEF SummaryIsJust
<1> QED BY <1>1, <1>2, Zenon DEF CloseOn

\* What an arm of the select hands to the turn: a session, the callers, the releases,
\* and the frames it leaves unread.
Ordered(s, k, r, rest) ==
    /\ s \in Sessions /\ NoOpen(s) /\ JustNews(s)
    /\ s.phase = "closed" => Over(s)
    /\ k \in [HostIds -> CallStates] /\ Waits(s, k) /\ Unsent(k, toWorker, know)
    /\ r \in [OfferIds -> RelStates] /\ AckedBacked(r, know)
    /\ rest \in Seq(Frames) /\ Sent(know, rest)
    /\ ~faulty /\ s.phase # "closed" => Conforms(s, know, toWorker, rest) /\ AllBacked(s, s.out)

\* A call that it queues is waited for, and was never queued before.
CallsOnly(s, k) ==
    \A c \in HostIds : <<"call", c>> \in Range(s.out)
        => k[c] = "waiting" /\ <<"call", c>> \notin Range(toWorker) /\ c \notin know.got

\* The turn up to the fate of its output, which is queued to the last frame or dropped.
LEMMA Turned ==
  ASSUME ProcessInv, pump = "loop", NEW s, NEW k, NEW r, NEW t, NEW rest, Ordered(s, k, r, rest),
         NEW q \in Seq(Messages), toWorker' = q,
         \A m \in Range(q) : m \in Range(toWorker) \/ m \in Range(SessionAfter(s, t).out),
         \A c \in HostIds : <<"call", c>> \in Range(q) => <<"call", c>> \in Range(toWorker) \/ k[c] = "waiting",
         session' = [SessionAfter(s, t) EXCEPT !.out = <<>>],
         call' = CallsAfter(s, k), rel' = RelsAfter(s, r), fromWorker' = rest,
         pump' = IF s.phase = "closed" THEN "exiting" ELSE "loop",
         CloseOn(s), UNCHANGED <<resource, child, know, faulty>>
  PROVE  ProcessInv'
<1> DEFINE a == SessionAfter(s, t)
           z == [SessionAfter(s, t) EXCEPT !.out = <<>>]
<1>1. /\ s \in Sessions /\ NoOpen(s) /\ JustNews(s) /\ BackedNews(s, know) /\ (s.phase = "closed" => Over(s))
      /\ k \in [HostIds -> CallStates] /\ Waits(s, k) /\ Unsent(k, toWorker, know)
      /\ r \in [OfferIds -> RelStates] /\ AckedBacked(r, know)
      /\ rest \in Seq(Frames) /\ Sent(know, rest)
  BY Zenon DEF Ordered, JustNews
<1>2. /\ Keeps(s, a) /\ Keeps(s, z) /\ z.host = s.host /\ z.out = <<>> /\ z.news = {}
  BY <1>1, AfterKeeps, Zenon
<1>3. session' = z /\ know' = know /\ faulty' = faulty /\ child' = child /\ resource' = resource
  BY Zenon
<1> HIDE DEF a, z
<1>4. CallersMoved(s, k, call', know)
  BY <1>1, CallersMove, Zenon
<1>5. z \in Sessions /\ z.phase = s.phase
  BY <1>2, Zenon DEF Keeps
<1>6. ProcessTypes'
  <2>1. call' \in [HostIds -> CallStates]
    BY <1>4, Zenon DEF CallersMoved
  <2>2. rel' \in [OfferIds -> RelStates]
    BY <1>1, RelsMove, Zenon
  <2>3. know \in Knowledge
    BY Zenon DEF ProcessInv, ProcessTypes
  <2> QED BY <1>1, <1>2, <1>3, <1>5, <2>1, <2>2, <2>3, Zenon DEF ProcessTypes
<1>7. NoOpen(session')
  BY <1>1, <1>2, <1>3, <1>5, Zenon DEF NoOpen
<1>8. \A c \in HostIds : call'[c] = "waiting" => session'.host[c] = "open"
  <2>1. \A c \in HostIds : call'[c] = "waiting" => s.host[c] = "open"
    BY <1>4, Zenon DEF CallersMoved
  <2>2. session'.host = s.host
    BY <1>2, <1>3, Zenon
  <2> QED BY <2>1, <2>2
<1>9. Sent(know', fromWorker') /\ AckedBacked(rel', know')
  BY <1>1, <1>3, RelsMove, Zenon
<1>10. Unsent(call', toWorker', know')
  <2>1. Unsent(call', q, know)
    BY <1>1, <1>4, UnsentMoves, Zenon
  <2> QED BY <1>3, <2>1, Zenon
<1>11. SummaryIsJust' /\ (s.phase = "closed" => summary' # "open")
  <2>1. SummaryIsJust
    BY Zenon DEF ProcessInv
  <2> QED BY <1>1, <2>1, Closes, Zenon
<1>12. Stages'
  <2>1. resource # "none" /\ resource # "released"
    BY DEF ProcessInv, Stages
  <2>2. CASE s.phase = "closed"
    <3>1. pump' = "exiting"
      BY <2>2
    <3> QED BY <1>3, <1>11, <2>1, <2>2, <3>1 DEF Stages
  <2>3. CASE s.phase # "closed"
    <3>1. pump' = "loop"
      BY <2>3
    <3> QED BY <1>3, <1>5, <2>1, <2>3, <3>1, Zenon DEF Stages
  <2> QED BY <2>2, <2>3
<1>13. ASSUME ~faulty', pump' \in {"none", "loop"} PROVE Conforms(session', know', toWorker', fromWorker')
  <2>1. s.phase # "closed"
    BY <1>13
  <2>2. Conforms(s, know, toWorker, rest) /\ AllBacked(s, s.out)
    <3>1. ~faulty
      <4>1. faulty' = faulty
        BY <1>3, Zenon
      <4> QED BY <1>13, <4>1
    <3> QED BY <2>1, <3>1, Zenon DEF Ordered
  <2>3. Ties(z, know) /\ Ready(z, rest, 0)
    <3>1. 0 \in Nat
      OBVIOUS
    <3> QED BY <1>1, <1>2, <2>2, <3>1, KeepsConform, Zenon DEF Conforms
  <2>4. AllBacked(z, q)
    <3> SUFFICES ASSUME NEW m \in Range(q) PROVE Backed(z, m)
      BY Zenon DEF AllBacked
    <3>1. m \in Messages
      BY OutMessages, Zenon
    <3>2. CASE m \in Range(toWorker) \/ m \in Range(s.out)
      <4>1. Backed(s, m)
        BY <2>2, <3>2, Zenon DEF Conforms, AllBacked
      <4> QED BY <1>1, <1>2, <3>1, <4>1, KeepsConform, Zenon
    <3>3. CASE m \in Range(a.out) /\ m \notin Range(s.out)
      <4>1. Backed(a, m)
        BY <1>2, <3>3, Zenon DEF Keeps
      <4>2. SameTables(a, z)
        <5>1. a \in Sessions
          BY <1>2, Zenon DEF Keeps
        <5> QED BY <5>1 DEF SameTables, a, z, Sessions
      <4> QED BY <4>1, <4>2, Zenon DEF Backed, SameTables
    <3> QED BY <3>2, <3>3, Zenon DEF a
  <2>5. know.hello <=> z.phase # "hello" \/ rest # <<>>
    BY <1>5, <2>2, Zenon DEF Conforms
  <2> QED BY <1>3, <2>3, <2>4, <2>5, Zenon DEF Conforms
<1> QED BY <1>6, <1>7, <1>8, <1>9, <1>10, <1>11, <1>12, <1>13, Zenon DEF ProcessInv, AckedBacked

\* queue_outbox with the write half gone.
LEMMA Drops ==
  ASSUME ProcessInv, pump = "loop", NEW s, NEW k, NEW r, NEW t, NEW rest, Ordered(s, k, r, rest),
         CallsOnly(s, k), DropOutput(s, k, r, t), fromWorker' = rest,
         UNCHANGED <<resource, child, know, faulty>>
  PROVE  ProcessInv'
<1> DEFINE C == {c \in Undeliverable(s, "call") : k[c] = "waiting"}
           D == {o \in Undeliverable(s, "release") : r[o] = "waiting"}
           x == With(k, C, "cancelled")
           y == With(r, D, "lost")
<1>1. /\ session' = [SessionAfter(s, t) EXCEPT !.out = <<>>]
      /\ call' = CallsAfter(s, x) /\ rel' = RelsAfter(s, y)
      /\ pump' = (IF s.phase = "closed" THEN "exiting" ELSE "loop")
      /\ CloseOn(s) /\ toWorker' = toWorker
  BY Zenon DEF DropOutput, Apply
<1>2. /\ s \in Sessions /\ k \in [HostIds -> CallStates] /\ Waits(s, k) /\ Unsent(k, toWorker, know)
      /\ r \in [OfferIds -> RelStates] /\ AckedBacked(r, know)
  BY Zenon DEF Ordered
<1>3. \A c \in C : <<"call", c>> \in Range(s.out) /\ k[c] = "waiting"
  <2>1. ASSUME NEW c \in C PROVE <<"call", c>> \in Range(s.out)
    <3>1. PICK m \in Range(s.out) : m[1] = "call" /\ m[2] = c
      BY Zenon DEF Undeliverable
    <3>2. m \in Messages
      BY <1>2, <3>1, Fields, OutMessages, Zenon
    <3>3. m = <<"call", c>>
      BY <3>1, <3>2, MessageParts, Zenon
    <3> QED BY <3>3
  <2> QED BY <2>1, Zenon
<1> HIDE DEF C, D
<1>4. x \in [HostIds -> CallStates] /\ \A c \in HostIds : x[c] = IF c \in C THEN "cancelled" ELSE k[c]
  BY <1>2 DEF With, CallStates
<1>5. y \in [OfferIds -> RelStates] /\ \A o \in OfferIds : y[o] = "acked" => r[o] = "acked"
  BY <1>2 DEF With, RelStates
<1> HIDE DEF x, y
<1>6. Waits(s, x)
  <2>1. \A c \in HostIds : x[c] = "waiting" => k[c] = "waiting"
    BY <1>4
  <2> QED BY <1>2, <2>1, Zenon DEF Waits
<1>7. Unsent(x, toWorker, know)
  <2> SUFFICES ASSUME NEW c \in HostIds
               PROVE  /\ x[c] \in {"idle", "queued", "refused", "closed"}
                           => <<"call", c>> \notin Range(toWorker) /\ c \notin know.got
                      /\ x[c] = "cancelled"
                           => (<<"call", c>> \notin Range(toWorker) /\ c \notin know.got) \/ know.bye
    BY Zenon DEF Unsent
  <2>1. CASE c \in C
    BY <1>3, <2>1, Zenon DEF CallsOnly
  <2>2. CASE c \notin C
    <3>1. x[c] = k[c]
      BY <1>4, <2>2, Zenon
    <3> QED BY <1>2, <3>1, Zenon DEF Unsent
  <2> QED BY <2>1, <2>2
<1>8. AckedBacked(y, know)
  BY <1>2, <1>5, Zenon DEF AckedBacked
<1>9. Ordered(s, x, y, rest)
  BY <1>4, <1>5, <1>6, <1>7, <1>8, Zenon DEF Ordered
<1>10. toWorker \in Seq(Messages)
  BY Zenon DEF ProcessInv, ProcessTypes
<1> QED BY <1>1, <1>9, <1>10, Turned, Zenon

\* queue_outbox, with room for all of it.
LEMMA Queues ==
  ASSUME ProcessInv, pump = "loop", NEW s, NEW k, NEW r, NEW t, NEW rest, Ordered(s, k, r, rest),
         CallsOnly(s, k), QueueOutput(s, k, r, t), fromWorker' = rest,
         UNCHANGED <<resource, child, know, faulty>>
  PROVE  ProcessInv'
<1> DEFINE a == SessionAfter(s, t)
           q == toWorker \o a.out
<1>1. /\ session' = [SessionAfter(s, t) EXCEPT !.out = <<>>]
      /\ call' = CallsAfter(s, k) /\ rel' = RelsAfter(s, r)
      /\ pump' = (IF a.phase = "closed" THEN "exiting" ELSE "loop")
      /\ CloseOn(s) /\ toWorker' = q
  BY Zenon DEF QueueOutput, Apply
<1>2. s \in Sessions
  BY Zenon DEF Ordered
<1>3. Keeps(s, a) /\ CallsNot(s, a)
  BY <1>2, AfterKeeps, Zenon
<1> HIDE DEF a
<1>4. a.phase = s.phase /\ a \in Sessions
  BY <1>3, Zenon DEF Keeps
<1>5. toWorker \in Seq(Messages) /\ a.out \in Seq(Messages)
  BY <1>4, Fields, Zenon DEF ProcessInv, ProcessTypes
<1>6. q \in Seq(Messages) /\ \A x : x \in Range(q) <=> x \in Range(toWorker) \/ x \in Range(a.out)
  BY <1>5, Joins, Zenon
<1> HIDE DEF q
<1>7. \A c \in HostIds : <<"call", c>> \in Range(q) => <<"call", c>> \in Range(toWorker) \/ k[c] = "waiting"
  BY <1>3, <1>6, Zenon DEF CallsNot, CallsOnly
<1>8. \A m \in Range(q) : m \in Range(toWorker) \/ m \in Range(SessionAfter(s, t).out)
  BY <1>6, Zenon DEF a
<1>9. pump' = IF s.phase = "closed" THEN "exiting" ELSE "loop"
  BY <1>1, <1>4, Zenon
<1> QED BY <1>1, <1>6, <1>7, <1>8, <1>9, Turned, Zenon

-----------------------------------------------------------------------------
(* The other steps *)

\* A step that leaves the session and what the worker said alone.
LEMMA Untouched ==
  ASSUME ProcessInv, UNCHANGED <<session, fromWorker, know, faulty>>,
         call' \in [HostIds -> CallStates], \A c \in HostIds : call'[c] = "waiting" => call[c] = "waiting",
         rel' \in [OfferIds -> RelStates], AckedBacked(rel', know),
         toWorker' \in Seq(Messages), Unsent(call', toWorker', know),
         SummaryIsJust', Stages',
         pump' \in {"none", "loop"} =>
             pump \in {"none", "loop"} /\ \A m \in Range(toWorker') : m \in Range(toWorker)
  PROVE  ProcessInv'
<1>1. session' = session /\ fromWorker' = fromWorker /\ know' = know /\ faulty' = faulty
  OBVIOUS
<1>2. ProcessTypes'
  BY <1>1, Zenon DEF ProcessInv, ProcessTypes
<1>3. NoOpen(session') /\ Sent(know', fromWorker') /\ Unsent(call', toWorker', know') /\ AckedBacked(rel', know')
  BY <1>1, Zenon DEF ProcessInv
<1>4. \A c \in HostIds : call'[c] = "waiting" => session'.host[c] = "open"
  BY <1>1, Zenon DEF ProcessInv
<1>5. ASSUME ~faulty', pump' \in {"none", "loop"} PROVE Conforms(session', know', toWorker', fromWorker')
  <2>1. ~faulty
    <3>1. faulty' = faulty
      BY <1>1, Zenon
    <3> QED BY <1>5, <3>1
  <2>2. Conforms(session, know, toWorker, fromWorker)
    BY <1>5, <2>1, Zenon DEF ProcessInv
  <2>3. AllBacked(session, toWorker')
    BY <1>5, <2>2, Zenon DEF Conforms, AllBacked
  <2> QED BY <1>1, <2>2, <2>3, Zenon DEF Conforms
<1> QED BY <1>2, <1>3, <1>4, <1>5, Zenon DEF ProcessInv, AckedBacked

\* What Untouched asks of call, rel and toWorker, when none of them moves.
LEMMA Standing ==
  ASSUME ProcessInv
  PROVE  /\ call \in [HostIds -> CallStates] /\ rel \in [OfferIds -> RelStates] /\ AckedBacked(rel, know)
         /\ toWorker \in Seq(Messages) /\ Unsent(call, toWorker, know) /\ SummaryIsJust /\ Stages
BY Zenon DEF ProcessInv, ProcessTypes, AckedBacked

\* Fewer frames to the worker.
LEMMA UnsentCut ==
  ASSUME NEW k, NEW q, NEW K, Unsent(k, q, K), NEW p, \A m \in Range(p) : m \in Range(q)
  PROVE  Unsent(k, p, K)
BY Zenon DEF Unsent

\* One release moves on.
LEMMA RelSet ==
  ASSUME ProcessInv, NEW o \in OfferIds, NEW v \in RelStates, v # "acked"
  PROVE  LET r == [rel EXCEPT ![o] = v] IN r \in [OfferIds -> RelStates] /\ AckedBacked(r, know)
<1> DEFINE r == [rel EXCEPT ![o] = v]
<1>1. rel \in [OfferIds -> RelStates] /\ AckedBacked(rel, know)
  BY Zenon DEF ProcessInv, ProcessTypes, AckedBacked
<1>2. r \in [OfferIds -> RelStates] /\ \A x \in OfferIds : r[x] = "acked" => rel[x] = "acked"
  BY <1>1
<1> HIDE DEF r
<1>3. AckedBacked(r, know)
  BY <1>1, <1>2, Zenon DEF AckedBacked
<1> QED BY <1>2, <1>3, Zenon DEF r

\* The peer shuts its read half.
LEMMA WriteFailsKeeps ==
  ASSUME ProcessInv, WriteFails
  PROVE  ProcessInv'
<1>1. PICK n \in 0..Len(toWorker) : toWorker' = SubSeq(toWorker, 1, n)
  BY DEF WriteFails
<1>2. /\ session' = session /\ resource' = resource /\ pump' = pump /\ summary' = summary /\ call' = call
      /\ rel' = rel /\ fromWorker' = fromWorker /\ child' = child /\ know' = know /\ faulty' = faulty
      /\ pump = "loop"
  BY DEF WriteFails, workerVars
<1>3. toWorker' \in Seq(Messages) /\ \A m \in Range(toWorker') : m \in Range(toWorker)
  BY <1>1, Standing, Cuts, Zenon
<1>4. Unsent(call', toWorker', know)
  BY <1>2, <1>3, Standing, UnsentCut, Zenon
<1>5. SummaryIsJust' /\ Stages'
  BY <1>2, Standing, Zenon DEF SummaryIsJust, Stages
<1>6. UNCHANGED <<session, fromWorker, know, faulty>>
  BY <1>2
<1> QED BY <1>2, <1>3, <1>4, <1>5, <1>6, Standing, Untouched, Zenon

\* begin_goodbye: the host's own goodbye is queued, and every release is settled.
LEMMA BeginGoodbyeKeeps ==
  ASSUME ProcessInv, BeginGoodbye
  PROVE  ProcessInv'
<1>1. /\ session' = session /\ resource' = resource /\ pump = "loop" /\ pump' = "exiting" /\ call' = call
      /\ rel' = Lost(rel) /\ fromWorker' = fromWorker /\ child' = child /\ know' = know /\ faulty' = faulty
      /\ summary' = (IF summary = "open" THEN "host goodbye" ELSE summary)
      /\ toWorker' = toWorker \/ toWorker' = Append(toWorker, <<"goodbye">>)
  BY Zenon DEF BeginGoodbye, workerVars, SetClosed
<1>2. rel' \in [OfferIds -> RelStates] /\ AckedBacked(rel', know)
  BY <1>1, Standing, LostEnds, Zenon
<1>3. toWorker' \in Seq(Messages) /\ \A m \in Range(toWorker') : m \in Range(toWorker) \/ m = <<"goodbye">>
  <2>1. <<"goodbye">> \in Messages
    BY DEF Messages
  <2>2. toWorker \in Seq(Messages)
    BY Standing, Zenon
  <2>3. CASE toWorker' = toWorker
    BY <2>2, <2>3, Zenon
  <2>4. CASE toWorker' = Append(toWorker, <<"goodbye">>)
    BY <2>1, <2>2, <2>4, AppendSet, Zenon
  <2> QED BY <1>1, <2>3, <2>4, Zenon
<1>4. Unsent(call', toWorker', know)
  <2>1. \A c \in HostIds : <<"call", c>> # <<"goodbye">>
    OBVIOUS
  <2>2. \A c \in HostIds : <<"call", c>> \in Range(toWorker') => <<"call", c>> \in Range(toWorker)
    BY <1>3, <2>1, Zenon
  <2> QED BY <1>1, <2>2, Standing, Zenon DEF Unsent
<1>5. SummaryIsJust'
  BY <1>1, Standing, Zenon DEF SummaryIsJust
<1>6. Stages'
  <2>1. resource # "none" /\ resource # "released" /\ summary' # "open"
    BY <1>1, Standing, Zenon DEF Stages
  <2> QED BY <1>1, <2>1, Zenon DEF Stages
<1>7. UNCHANGED <<session, fromWorker, know, faulty>>
  BY <1>1, Zenon
<1>8. pump' \notin {"none", "loop"}
  BY <1>1, Zenon
<1> QED BY <1>1, <1>2, <1>3, <1>4, <1>5, <1>6, <1>7, <1>8, Standing, Untouched, Zenon

\* The end of the pump: what it never took is dropped with it.
LEMMA ReapKeeps ==
  ASSUME ProcessInv, Reap
  PROVE  ProcessInv'
<1>1. /\ session' = session /\ resource' = resource /\ pump = "reaping" /\ pump' = "gone" /\ summary' = summary
      /\ call' = With(call, Where(call, "queued"), "closed") /\ rel' = With(rel, Where(rel, "queued"), "closed")
      /\ fromWorker' = fromWorker /\ child' = "dead" /\ know' = know /\ faulty' = faulty /\ toWorker' = <<>>
  BY DEF Reap
<1>2. /\ call' \in [HostIds -> CallStates]
      /\ \A c \in HostIds : call'[c] = IF call[c] = "queued" THEN "closed" ELSE call[c]
  BY <1>1, Standing DEF With, Where, CallStates
<1>3. /\ rel' \in [OfferIds -> RelStates]
      /\ \A o \in OfferIds : rel'[o] = IF rel[o] = "queued" THEN "closed" ELSE rel[o]
  BY <1>1, Standing DEF With, Where, RelStates
<1>4. AckedBacked(rel', know)
  BY <1>3, Standing DEF AckedBacked
<1>5. toWorker' \in Seq(Messages) /\ Range(toWorker') = {}
  BY <1>1 DEF Range
<1>6. Unsent(call', toWorker', know)
  BY <1>2, <1>5, Standing, Zenon DEF Unsent
<1>7. \A c \in HostIds : call'[c] = "waiting" => call[c] = "waiting"
  BY <1>2
<1>8. SummaryIsJust'
  BY <1>1, Standing DEF SummaryIsJust
<1>9. Stages'
  <2>1. /\ resource # "none" /\ summary # "open" /\ session.phase = "closed"
        /\ \A c \in HostIds : call[c] # "waiting"
        /\ \A o \in OfferIds : rel[o] # "waiting"
    BY <1>1, Standing DEF Stages
  <2> QED BY <1>1, <1>2, <1>3, <2>1 DEF Stages
<1>10. UNCHANGED <<session, fromWorker, know, faulty>>
  BY <1>1
<1>11. pump' \notin {"none", "loop"}
  BY <1>1
<1> QED BY <1>2, <1>3, <1>4, <1>5, <1>6, <1>7, <1>8, <1>9, <1>10, <1>11, Untouched, Zenon

\* The endpoints, the dispatcher, the driver, and a worker that leaves.
LEMMA OthersKeep ==
  ASSUME ProcessInv,
         \/ \E c \in HostIds : Submit(c)
         \/ \E o \in OfferIds : SubmitRelease(o)
         \/ \E w \in WorkerIds : Dispatch(w)
         \/ \E orderly \in BOOLEAN : Shutdown(orderly)
         \/ Boot \/ Release
         \/ UNCHANGED processVars
  PROVE  ProcessInv'
<1>1. ASSUME UNCHANGED <<session, fromWorker, know, faulty, call, rel, toWorker>>, SummaryIsJust', Stages',
             pump' \in {"none", "loop"} => pump \in {"none", "loop"}
      PROVE  ProcessInv'
  <2>1. session' = session /\ fromWorker' = fromWorker /\ know' = know /\ faulty' = faulty
        /\ call' = call /\ rel' = rel /\ toWorker' = toWorker
    BY <1>1
  <2>2. UNCHANGED <<session, fromWorker, know, faulty>>
    BY <2>1
  <2> QED BY <1>1, <2>1, <2>2, Standing, Untouched, Zenon
<1>2. ASSUME NEW c \in HostIds, Submit(c) PROVE ProcessInv'
  <2> DEFINE k == [call EXCEPT ![c] = "queued"]
  <2>1. /\ call[c] = "idle" /\ session.phase = "active" /\ call' = k
        /\ UNCHANGED <<session, fromWorker, know, faulty>> /\ rel' = rel /\ toWorker' = toWorker
        /\ resource' = resource /\ pump' = pump /\ summary' = summary /\ child' = child
        /\ session' = session /\ know' = know /\ faulty' = faulty
    BY <1>2 DEF Submit, Admits, AdmissionOpen, workerVars
  <2>2. /\ k \in [HostIds -> CallStates] /\ \A x \in HostIds : k[x] = IF x = c THEN "queued" ELSE call[x]
    BY Standing DEF CallStates
  <2> HIDE DEF k
  <2>3. \A x \in HostIds : k[x] = "waiting" => call[x] = "waiting"
    BY <2>2
  <2>4. Unsent(k, toWorker, know)
    <3> SUFFICES ASSUME NEW x \in HostIds
                 PROVE  /\ k[x] \in {"idle", "queued", "refused", "closed"}
                               => <<"call", x>> \notin Range(toWorker) /\ x \notin know.got
                        /\ k[x] = "cancelled" => (<<"call", x>> \notin Range(toWorker) /\ x \notin know.got) \/ know.bye
      BY Zenon DEF Unsent
    <3>1. Unsent(call, toWorker, know)
      BY Standing, Zenon
    <3>2. CASE x = c
      <4>1. <<"call", x>> \notin Range(toWorker) /\ x \notin know.got
        BY <2>1, <3>1, <3>2, Zenon DEF Unsent
      <4> QED BY <4>1
    <3>3. CASE x # c
      <4>1. k[x] = call[x]
        BY <2>2, <3>3
      <4> QED BY <3>1, <4>1, Zenon DEF Unsent
    <3> QED BY <3>2, <3>3
  <2>5. SummaryIsJust'
    BY <2>1, Standing DEF SummaryIsJust
  <2>6. pump \notin {"reaping", "gone"}
    BY <2>1, Standing DEF Stages
  <2>7. Stages'
    BY <2>1, <2>6, Standing DEF Stages
  <2> QED BY <2>1, <2>2, <2>3, <2>4, <2>5, <2>7, Standing, Untouched, Zenon
<1>3. ASSUME NEW o \in OfferIds, SubmitRelease(o) PROVE ProcessInv'
  <2> DEFINE r == [rel EXCEPT ![o] = "queued"]
  <2>1. /\ session.phase = "active" /\ rel' = r
        /\ UNCHANGED <<session, fromWorker, know, faulty>> /\ call' = call /\ toWorker' = toWorker
        /\ resource' = resource /\ pump' = pump /\ summary' = summary /\ child' = child
        /\ session' = session /\ know' = know /\ faulty' = faulty
    BY <1>3 DEF SubmitRelease, Admits, AdmissionOpen, workerVars
  <2>2. r \in [OfferIds -> RelStates] /\ AckedBacked(r, know)
    <3>1. "queued" \in RelStates /\ "queued" # "acked"
      BY DEF RelStates
    <3> QED BY <3>1, RelSet, Zenon
  <2> HIDE DEF r
  <2>3. SummaryIsJust'
    BY <2>1, Standing DEF SummaryIsJust
  <2>4. pump \notin {"reaping", "gone"}
    BY <2>1, Standing DEF Stages
  <2>5. Stages'
    BY <2>1, <2>4, Standing DEF Stages
  <2> QED BY <2>1, <2>2, <2>3, <2>5, Standing, Untouched, ZenonT(30)
<1>4. ASSUME UNCHANGED <<session, resource, pump, summary, call, rel, toWorker, fromWorker, child, know, faulty>>
      PROVE  ProcessInv'
  <2>1. SummaryIsJust' /\ Stages'
    BY <1>4, Standing DEF SummaryIsJust, Stages
  <2> QED BY <1>1, <1>4, <2>1
<1>5. ASSUME NEW w \in WorkerIds, Dispatch(w) PROVE ProcessInv'
  BY <1>4, <1>5 DEF Dispatch, workerVars
<1>6. ASSUME NEW orderly \in BOOLEAN, Shutdown(orderly) PROVE ProcessInv'
  BY <1>4, <1>6 DEF Shutdown, workerVars
<1>7. CASE UNCHANGED processVars
  BY <1>4, <1>7 DEF processVars
<1>8. CASE Boot
  <2>1. pump = "none" /\ summary = "open"
    BY <1>8, Standing DEF Boot, Stages
  <2>2. SummaryIsJust' /\ Stages'
    BY <1>8, <2>1, Standing DEF Boot, SummaryIsJust, Stages
  <2> QED BY <1>1, <1>8, <2>1, <2>2 DEF Boot
<1>9. CASE Release
  <2>1. SummaryIsJust' /\ Stages'
    BY <1>9, Standing DEF Release, workerVars, SummaryIsJust, Stages
  <2> QED BY <1>1, <1>9, <2>1 DEF Release, workerVars
<1> QED BY <1>2, <1>3, <1>5, <1>6, <1>7, <1>8, <1>9, Zenon

\* The worker leaves, between two frames or within one: what it had sent and received
\* stands, and no summary has blamed it for leaving yet.
LEMMA WorkerLeavesKeeps ==
  ASSUME ProcessInv, NEW how \in {"hup", "dead"}, NEW part \in BOOLEAN, WorkerLeaves(how, part)
  PROVE  ProcessInv'
<1> DEFINE K == [know EXCEPT !.part = part]
<1>1. /\ session' = session /\ call' = call /\ rel' = rel /\ toWorker' = toWorker /\ fromWorker' = fromWorker
      /\ resource' = resource /\ pump' = pump /\ summary' = summary /\ faulty' = faulty
      /\ child = "up" /\ child' = how /\ know' = K
  BY DEF WorkerLeaves
<1>2. /\ Sent(know, fromWorker) /\ know \in Knowledge
      /\ Unsent(call, toWorker, know) /\ AckedBacked(rel, know) /\ SummaryIsJust /\ Stages
  BY Zenon DEF ProcessInv, ProcessTypes, AckedBacked
<1>3. /\ K \in Knowledge /\ K.hello = know.hello /\ K.bye = know.bye
      /\ K.sent = know.sent /\ K.got = know.got /\ K.held = know.held /\ K.returned = know.returned
      /\ K.offered = know.offered /\ K.asked = know.asked /\ K.acked = know.acked
  BY <1>2, Zenon DEF Knowledge
<1> HIDE DEF K
<1>4. Sent(K, fromWorker) /\ Unsent(call, toWorker, K) /\ AckedBacked(rel, K)
  BY <1>2, <1>3, Zenon DEF Sent, Recorded, Unsent, AckedBacked
<1>5. SummaryIsJust'
  <2>1. summary \notin {"midframe", "disconnect"} /\ (summary = "protocol" => faulty)
        /\ (summary = "goodbye" => K.bye)
    BY <1>1, <1>2, <1>3, Zenon DEF SummaryIsJust
  <2> QED BY <1>1, <2>1, Zenon DEF SummaryIsJust
<1>6. Stages'
  <2>1. pump # "gone"
    BY <1>1, <1>2, Zenon DEF Stages
  <2> QED BY <1>1, <1>2, <2>1, Zenon DEF Stages
<1>7. ProcessTypes'
  BY <1>1, <1>3, Zenon DEF ProcessInv, ProcessTypes
<1>8. ASSUME ~faulty', pump' \in {"none", "loop"} PROVE Conforms(session', know', toWorker', fromWorker')
  <2>1. ~faulty
    <3>1. faulty' = faulty
      BY <1>1, Zenon
    <3> QED BY <1>8, <3>1
  <2>2. Conforms(session, know, toWorker, fromWorker)
    BY <1>1, <1>8, <2>1, Zenon DEF ProcessInv
  <2>3. Ties(session, K)
    BY <1>3, <2>2, Zenon DEF Conforms, Ties
  <2> QED BY <1>1, <1>3, <2>2, <2>3, Zenon DEF Conforms
<1>9. NoOpen(session') /\ \A c \in HostIds : call'[c] = "waiting" => session'.host[c] = "open"
  BY <1>1, Zenon DEF ProcessInv
<1>10. Sent(know', fromWorker') /\ Unsent(call', toWorker', know') /\ AckedBacked(rel', know')
  BY <1>1, <1>4, Zenon
<1> QED BY <1>5, <1>6, <1>7, <1>8, <1>9, <1>10, Zenon DEF ProcessInv, AckedBacked

\* What a worker that sends a frame knows after it.
LEMMA Remembers ==
  ASSUME know \in Knowledge, NEW f \in Frames, WorkerSends(f)
  PROVE  /\ know' \in Knowledge /\ Recorded(know', f)
         /\ know'.got = know.got /\ know'.held = know.held /\ know'.asked = know.asked
         /\ know.sent \subseteq know'.sent /\ know.offered \subseteq know'.offered
         /\ know.returned \subseteq know'.returned /\ know.acked \subseteq know'.acked
         /\ know.bye => know'.bye
         /\ know'.part = know.part
         /\ know'.hello <=> know.hello \/ f[1] = "hello"
<1> USE FrameParts DEF Knowledge, Recorded
<1>1. know' = CASE f[1] = "hello" -> [know EXCEPT !.hello = TRUE]
                [] f[1] = "goodbye" -> [know EXCEPT !.bye = TRUE]
                [] f[1] \in {"app", "law"} -> [know EXCEPT !.sent = @ \cup {f[2]}]
                [] f[1] = "reply" -> [know EXCEPT !.replied = @ \cup {f[2]},
                                                 !.offered = @ \cup ({f[3]} \cap OfferIds)]
                [] f[1] = "release" -> [know EXCEPT !.returned = @ \cup {f[2]}]
                [] f[1] = "ack" -> [know EXCEPT !.acked = @ \cup {f[2]}]
                [] OTHER -> know
  BY Zenon DEF WorkerSends
<1>2. CASE f[1] = "hello"
  <2>1. know' = [know EXCEPT !.hello = TRUE]
    BY <1>1, <1>2
  <2> QED BY <1>2, <2>1, Zenon
<1>3. CASE f[1] = "goodbye"
  <2>1. know' = [know EXCEPT !.bye = TRUE]
    BY <1>1, <1>3
  <2> QED BY <1>3, <2>1, Zenon
<1>4. CASE f[1] \in {"app", "law"}
  <2>1. know' = [know EXCEPT !.sent = @ \cup {f[2]}]
    BY <1>1, <1>4
  <2> QED BY <1>4, <2>1
<1>5. CASE f[1] = "reply"
  <2>1. know' = [know EXCEPT !.replied = @ \cup {f[2]}, !.offered = @ \cup ({f[3]} \cap OfferIds)]
    BY <1>1, <1>5
  <2> QED BY <1>5, <2>1, Zenon
<1>6. CASE f[1] = "release"
  <2>1. know' = [know EXCEPT !.returned = @ \cup {f[2]}]
    BY <1>1, <1>6
  <2> QED BY <1>6, <2>1
<1>7. CASE f[1] = "ack"
  <2>1. know' = [know EXCEPT !.acked = @ \cup {f[2]}]
    BY <1>1, <1>7
  <2> QED BY <1>7, <2>1
<1>8. CASE f[1] \in {"garbage", "cancel"}
  <2>1. know' = know
    BY <1>1, <1>8
  <2> QED BY <1>8, <2>1
<1> QED BY <1>2, <1>3, <1>4, <1>5, <1>6, <1>7, <1>8, Zenon

\* A frame that the worker has a reason to send finds the session ready for it.
LEMMA JustifiedFits ==
  ASSUME NEW s \in Sessions, Ties(s, know), NEW f \in Frames, Justified(f)
  PROVE  Fits(s, f)
<1>1. /\ f[1] # "garbage"
      /\ f[1] \in {"app", "law"} => f[2] \notin know.sent
      /\ f[1] = "reply" => f[2] \in know.got /\ f[3] \notin know.offered
      /\ f[1] = "release" => f[2] \in know.held \ know.returned
      /\ f[1] = "ack" => f[2] \in know.asked \ know.acked
  BY FrameParts, Zenon DEF Justified
<1>2. /\ f[1] \in {"app", "law"} => f[2] \in WorkerIds
      /\ f[1] = "reply" => f[2] \in HostIds /\ f[3] \in OfferIds \cup {NoOffer}
      /\ f[1] = "release" => f[2] \in HandleIds
      /\ f[1] = "ack" => f[2] \in OfferIds
  BY FrameParts
<1>3. f[1] \in {"app", "law"} => s.worker[f[2]] = "fresh"
  BY <1>1, <1>2, Zenon DEF Ties
<1>4. f[1] = "reply" => s.host[f[2]] # "fresh" /\ (f[3] # NoOffer => s.offer[f[3]] = "fresh")
  <2>1. f[1] = "reply" /\ f[3] # NoOffer => f[3] \in OfferIds
    BY <1>2
  <2> QED BY <1>1, <1>2, <2>1, Zenon DEF Ties
<1>5. f[1] = "release" => s.handle[f[2]] \in {"live", "reclaimed"}
  <2>1. f[1] = "release" => s.handle[f[2]] \in {"live", "reclaimed", "released"} /\ s.handle[f[2]] # "released"
    BY <1>1, <1>2, Zenon DEF Ties
  <2> QED BY <2>1
<1>6. f[1] = "ack" => s.offer[f[2]] = "pending"
  <2>1. f[1] = "ack" => s.offer[f[2]] \in {"pending", "released"} /\ s.offer[f[2]] # "released"
    BY <1>1, <1>2, Zenon DEF Ties
  <2> QED BY <2>1
<1> QED BY <1>1, <1>3, <1>4, <1>5, <1>6, Zenon DEF Fits

\* Nor does it clash with a frame that the worker sent before.
LEMMA JustifiedApart ==
  ASSUME NEW f \in Frames, Justified(f), NEW g \in Frames, Recorded(know, g)
  PROVE  ~Clash(g, f)
<1>1. /\ f[1] \in {"app", "law"} => f[2] \notin know.sent
      /\ f[1] = "reply" => f[3] \notin know.offered
      /\ f[1] = "release" => f[2] \notin know.returned
      /\ f[1] = "ack" => f[2] \notin know.acked
  BY FrameParts, Zenon DEF Justified
<1>2. g[1] = "reply" /\ g[3] # NoOffer => g[3] \in know.offered
  BY FrameParts DEF Recorded
<1> QED BY <1>1, <1>2 DEF Clash, Recorded

\* The worker sends a frame.
LEMMA WorkerSendsKeeps ==
  ASSUME ProcessInv, NEW f \in Frames, WorkerSends(f)
  PROVE  ProcessInv'
<1> DEFINE F == fromWorker
           G == Append(fromWorker, f)
<1>1. /\ fromWorker' = G /\ session' = session /\ call' = call /\ rel' = rel /\ toWorker' = toWorker
      /\ resource' = resource /\ pump' = pump /\ summary' = summary /\ child' = child
      /\ faulty' = (faulty \/ ~Justified(f))
  BY DEF WorkerSends
<1>2. /\ session \in Sessions /\ F \in Seq(Frames) /\ know \in Knowledge /\ Sent(know, F)
      /\ Unsent(call, toWorker, know) /\ AckedBacked(rel, know) /\ SummaryIsJust /\ Stages
  BY Zenon DEF ProcessInv, ProcessTypes, AckedBacked
<1>3. /\ know' \in Knowledge /\ Recorded(know', f)
      /\ know'.got = know.got /\ know'.held = know.held /\ know'.asked = know.asked
      /\ know.sent \subseteq know'.sent /\ know.offered \subseteq know'.offered
      /\ know.returned \subseteq know'.returned /\ know.acked \subseteq know'.acked
      /\ know.bye => know'.bye
      /\ know'.part = know.part
      /\ know'.hello <=> know.hello \/ f[1] = "hello"
  BY <1>2, Remembers, Zenon
<1>4. /\ G \in Seq(Frames) /\ Len(F) \in Nat /\ Len(G) = Len(F) + 1 /\ G[Len(F) + 1] = f /\ G # <<>>
      /\ \A i \in 1..Len(F) : G[i] = F[i] /\ F[i] \in Frames
  BY <1>2, SMTT(30)
<1> HIDE DEF F, G
<1>5. Sent(know', G)
  <2>1. \A i \in 1..Len(F) : Recorded(know', F[i])
    BY <1>2, <1>3, Zenon DEF Sent, Recorded
  <2> QED BY <1>3, <1>4, <2>1 DEF Sent
<1>6. Unsent(call, toWorker, know') /\ AckedBacked(rel, know')
  BY <1>2, <1>3, Zenon DEF Unsent, AckedBacked
<1>7. SummaryIsJust' /\ Stages'
  <2>1. SummaryIsJust'
    BY <1>1, <1>2, <1>3, Zenon DEF SummaryIsJust
  <2> QED BY <1>1, <1>2, <2>1, Zenon DEF Stages
<1>8. ProcessTypes'
  BY <1>1, <1>3, <1>4, Zenon DEF ProcessInv, ProcessTypes
<1>9. ASSUME ~faulty', pump' \in {"none", "loop"} PROVE Conforms(session', know', toWorker', fromWorker')
  <2>1. ~faulty /\ Justified(f)
    BY <1>1, <1>9, Zenon
  <2>2. Conforms(session, know, toWorker, F)
    BY <1>1, <1>9, <2>1, Zenon DEF ProcessInv, F
  <2>3. Ties(session, know')
    BY <1>3, <2>2, Zenon DEF Conforms, Ties
  <2>4. Fits(session, f) /\ \A i \in 1..Len(F) : ~Clash(F[i], f)
    <3>1. \A i \in 1..Len(F) : Recorded(know, F[i])
      BY <1>2, Zenon DEF Sent
    <3> QED BY <1>2, <1>4, <2>1, <2>2, <3>1, JustifiedFits, JustifiedApart, Zenon DEF Conforms
  <2>5. f[1] = "hello" <=> session.phase = "hello" /\ Len(F) = 0
    <3>1. Len(F) = 0 <=> F = <<>>
      BY <1>2 DEF F
    <3>2. f[1] = "hello" <=> ~know.hello
      BY <2>1, Zenon DEF Justified
    <3>3. know.hello <=> session.phase # "hello" \/ F # <<>>
      BY <2>2, Zenon DEF Conforms
    <3> QED BY <3>1, <3>2, <3>3, Zenon
  <2>6. Ready(session, G, 0)
    <3>1. \A i \in 1..Len(F) : /\ Fits(session, F[i])
                               /\ F[i][1] = "hello" <=> session.phase = "hello" /\ i = 1
                               /\ \A j \in (i + 1)..Len(F) : ~Clash(F[i], F[j])
      BY <2>2 DEF Conforms, Ready
    <3> SUFFICES ASSUME NEW i \in 1..(Len(F) + 1)
                 PROVE  /\ Fits(session, G[i])
                        /\ G[i][1] = "hello" <=> session.phase = "hello" /\ i = 1
                        /\ \A j \in (i + 1)..(Len(F) + 1) : ~Clash(G[i], G[j])
      BY <1>4 DEF Ready
    <3>2. CASE i = Len(F) + 1
      <4>1. G[i] = f /\ (i = 1 <=> Len(F) = 0) /\ (i + 1)..(Len(F) + 1) = {}
        BY <1>4, <3>2
      <4> QED BY <2>4, <2>5, <4>1, Zenon
    <3>3. CASE i \in 1..Len(F)
      <4>1. G[i] = F[i]
        BY <1>4, <3>3
      <4>2. ASSUME NEW j \in (i + 1)..(Len(F) + 1) PROVE ~Clash(G[i], G[j])
        <5>1. CASE j = Len(F) + 1
          BY <1>4, <2>4, <3>3, <4>1, <5>1, Zenon
        <5>2. CASE j \in (i + 1)..Len(F)
          <6>1. j \in 1..Len(F)
            BY <1>4, <3>3, <5>2
          <6> QED BY <1>4, <3>1, <3>3, <4>1, <5>2, <6>1, Zenon
        <5> QED BY <1>4, <5>1, <5>2
      <4> QED BY <3>1, <3>3, <4>1, <4>2, Zenon
    <3> QED BY <1>4, <3>2, <3>3
  <2>7. know'.hello
    BY <1>3, <2>1, Zenon DEF Justified
  <2> QED BY <1>1, <1>4, <2>2, <2>3, <2>6, <2>7, Zenon DEF Conforms
<1>10. NoOpen(session') /\ \A c \in HostIds : call'[c] = "waiting" => session'.host[c] = "open"
  BY <1>1, Zenon DEF ProcessInv
<1>11. Sent(know', fromWorker') /\ Unsent(call', toWorker', know') /\ AckedBacked(rel', know')
  BY <1>1, <1>5, <1>6, Zenon
<1> QED BY <1>7, <1>8, <1>9, <1>10, <1>11, Zenon DEF ProcessInv, AckedBacked

\* The worker takes the next frame.
LEMMA WorkerReceivesKeeps ==
  ASSUME ProcessInv, WorkerReceives
  PROVE  ProcessInv'
<1> DEFINE m == Head(toWorker)
           K == know'
<1>1. /\ session' = session /\ call' = call /\ rel' = rel /\ fromWorker' = fromWorker
      /\ resource' = resource /\ pump' = pump /\ summary' = summary /\ child' = child /\ faulty' = faulty
      /\ toWorker # <<>> /\ toWorker' = Tail(toWorker)
  BY DEF WorkerReceives
<1>2. /\ session \in Sessions /\ toWorker \in Seq(Messages) /\ know \in Knowledge /\ Sent(know, fromWorker)
      /\ Unsent(call, toWorker, know) /\ AckedBacked(rel, know) /\ SummaryIsJust /\ Stages
  BY Zenon DEF ProcessInv, ProcessTypes, AckedBacked
<1>3. /\ m \in Messages /\ m \in Range(toWorker) /\ toWorker' \in Seq(Messages)
      /\ \A x \in Range(toWorker') : x \in Range(toWorker)
  <2>1. /\ m = toWorker[1] /\ 1 \in DOMAIN toWorker /\ m \in Messages /\ toWorker' \in Seq(Messages)
        /\ \A i \in DOMAIN toWorker' : i + 1 \in DOMAIN toWorker /\ toWorker'[i] = toWorker[i + 1]
    BY <1>1, <1>2, SMTT(30)
  <2> HIDE DEF m
  <2> QED BY <2>1, Zenon DEF Range
<1>4. /\ K \in Knowledge /\ K.sent = know.sent /\ K.offered = know.offered /\ K.returned = know.returned
      /\ K.acked = know.acked /\ K.hello = know.hello /\ K.bye = know.bye
      /\ K.part = know.part
      /\ \A c \in K.got : c \in know.got \/ (m[1] = "call" /\ c = m[2])
      /\ \A h \in K.held : h \in know.held \/ (m[1] = "reply" /\ h \in m[3])
      /\ \A o \in K.asked : o \in know.asked \/ (m[1] = "release" /\ o = m[2])
  <2>1. K = CASE m[1] = "call" -> [know EXCEPT !.got = @ \cup {m[2]}]
              [] m[1] = "reply" -> [know EXCEPT !.held = @ \cup m[3]]
              [] m[1] = "release" -> [know EXCEPT !.asked = @ \cup {m[2]}]
              [] OTHER -> know
    BY Zenon DEF WorkerReceives
  <2>2. /\ m[1] = "call" => m[2] \in HostIds
        /\ m[1] = "release" => m[2] \in OfferIds
        /\ m[1] = "reply" => m[3] \subseteq HandleIds
    BY <1>3, MessageParts, Zenon
  <2> HIDE DEF m
  <2>3. CASE m[1] = "call"
    <3>1. K = [know EXCEPT !.got = @ \cup {m[2]}]
      BY <2>1, <2>3
    <3> QED BY <1>2, <2>2, <2>3, <3>1 DEF Knowledge
  <2>4. CASE m[1] = "reply"
    <3>1. K = [know EXCEPT !.held = @ \cup m[3]]
      BY <2>1, <2>4
    <3> QED BY <1>2, <2>2, <2>4, <3>1 DEF Knowledge
  <2>5. CASE m[1] = "release"
    <3>1. K = [know EXCEPT !.asked = @ \cup {m[2]}]
      BY <2>1, <2>5
    <3> QED BY <1>2, <2>2, <2>5, <3>1 DEF Knowledge
  <2>6. CASE m[1] \notin {"call", "reply", "release"}
    <3>1. K = know
      BY <2>1, <2>6
    <3> QED BY <1>2, <3>1
  <2> QED BY <2>3, <2>4, <2>5, <2>6
<1>5. \A c \in HostIds : <<"call", c>> \notin Range(toWorker) /\ c \notin know.got => c \notin K.got
  <2>1. m[1] = "call" => m = <<"call", m[2]>>
    BY <1>3, MessageParts, Zenon
  <2> HIDE DEF m, K
  <2> QED BY <1>3, <1>4, <2>1, Zenon
<1> HIDE DEF m, K
<1>6. Unsent(call, toWorker', K)
  BY <1>2, <1>3, <1>4, <1>5, Zenon DEF Unsent
<1>7. Sent(K, fromWorker) /\ AckedBacked(rel, K)
  BY <1>2, <1>4, Zenon DEF Sent, Recorded, AckedBacked
<1>8. SummaryIsJust'
  BY <1>1, <1>2, <1>4 DEF SummaryIsJust, K
<1>9. Stages'
  BY <1>1, <1>2, Zenon DEF Stages
<1>10. ProcessTypes'
  BY <1>1, <1>3, <1>4, Zenon DEF ProcessInv, ProcessTypes, K
<1>11. ASSUME ~faulty', pump' \in {"none", "loop"} PROVE Conforms(session', know', toWorker', fromWorker')
  <2>1. ~faulty
    <3>1. faulty' = faulty
      BY <1>1, Zenon
    <3> QED BY <1>11, <3>1
  <2>2. Conforms(session, know, toWorker, fromWorker)
    BY <1>1, <1>11, <2>1, Zenon DEF ProcessInv
  <2>3. Backed(session, m) /\ AllBacked(session, toWorker')
    BY <1>3, <2>2, Zenon DEF Conforms, AllBacked
  <2>4. Ties(session, K)
    <3>1. \A o \in K.asked : o \in OfferIds => session.offer[o] \in {"pending", "released"}
      BY <1>4, <2>2, <2>3, Zenon DEF Conforms, Ties, Backed
    <3>2. \A h \in K.held : h \in HandleIds => session.handle[h] \in {"live", "reclaimed", "released"}
      BY <1>4, <2>2, <2>3, Zenon DEF Conforms, Ties, Backed
    <3>3. \A c \in K.got : c \in HostIds => session.host[c] # "fresh"
      BY <1>4, <2>2, <2>3, Zenon DEF Conforms, Ties, Backed
    <3> QED BY <1>4, <2>2, <3>1, <3>2, <3>3, Zenon DEF Conforms, Ties
  <2>5. Ready(session, fromWorker, 0) /\ (K.hello <=> session.phase # "hello" \/ fromWorker # <<>>)
    BY <1>4, <2>2, Zenon DEF Conforms
  <2> QED BY <1>1, <2>3, <2>4, <2>5, Zenon DEF Conforms, K
<1>12. NoOpen(session') /\ \A c \in HostIds : call'[c] = "waiting" => session'.host[c] = "open"
  BY <1>1, Zenon DEF ProcessInv
<1>13. Sent(know', fromWorker') /\ Unsent(call', toWorker', know') /\ AckedBacked(rel', know')
  BY <1>1, <1>6, <1>7, Zenon DEF K
<1> QED BY <1>8, <1>9, <1>10, <1>11, <1>12, <1>13, Zenon DEF ProcessInv, AckedBacked

-----------------------------------------------------------------------------
(* The end of the input: a drain of any length *)
LOCAL INSTANCE WellFoundedInduction

\* A set of numbers that has 0, and with a number the next one, has them all.
LEMMA Upwards ==
  ASSUME NEW N \in Nat, NEW T, 0 \in T, \A n \in 0..(N - 1) : n \in T => n + 1 \in T
  PROVE  \A n \in 0..N : n \in T
<1> DEFINE Less == {p \in Nat \X Nat : p[1] < p[2]}
           Missing == {n \in 0..N : n \notin T}
<1>1. IsWellFoundedOn(Less, Nat)
  BY NatLessThanWellFounded DEF OpToRel
<1>2. SUFFICES ASSUME Missing # {} PROVE FALSE
  OBVIOUS
<1>3. Missing \subseteq Nat
  OBVIOUS
<1>4. PICK m \in Missing : \A n \in Missing : ~ (<<n, m>> \in Less)
  <2> HIDE DEF Less, Missing
  <2> QED BY <1>1, <1>2, <1>3, WFMin, Zenon
<1>5. m # 0 /\ m \in 0..N /\ m - 1 \in 0..(N - 1)
  OBVIOUS
<1>6. m - 1 \notin T
  BY <1>5
<1>7. m - 1 \in Missing /\ <<m - 1, m>> \in Less
  BY <1>5, <1>6
<1> QED BY <1>4, <1>7

\* What Fed computes.
LEMMA FedSteps ==
  ASSUME NEW s, NEW b, Len(b) \in Nat
  PROVE  \E f : /\ f[0] = s /\ Fed(s, b) = f[Len(b)]
                /\ \A n \in 1..Len(b) : f[n] = OnFrame(f[n - 1], b[n])
<1> DEFINE N == Len(b)
           Is(f, n) == f = [i \in 0..n |-> IF i = 0 THEN s ELSE OnFrame(f[i - 1], b[i])]
           T == {n \in Nat : \E f : Is(f, n)}
<1>1. 0 \in T
  <2> DEFINE f == [i \in 0..0 |-> s]
  <2>1. Is(f, 0)
    OBVIOUS
  <2> QED BY <2>1, Zenon
<1>2. ASSUME NEW n \in 0..(N - 1), n \in T PROVE n + 1 \in T
  <2>1. PICK f : Is(f, n)
    BY <1>2
  <2> DEFINE g == [i \in 0..(n + 1) |-> IF i = n + 1 THEN OnFrame(f[n], b[n + 1]) ELSE f[i]]
  <2>2. Is(g, n + 1)
    <3>1. ASSUME NEW i \in 0..(n + 1)
          PROVE  g[i] = IF i = 0 THEN s ELSE OnFrame(g[i - 1], b[i])
      <4>1. CASE i = n + 1
        <5>1. i # 0 /\ i - 1 = n /\ n # n + 1 /\ n \in 0..(n + 1)
          BY <4>1
        <5>2. g[i] = OnFrame(f[n], b[n + 1]) /\ g[n] = f[n]
          BY <4>1, <5>1
        <5> QED BY <4>1, <5>1, <5>2
      <4>2. CASE i # n + 1
        <5>1. i \in 0..n /\ (i # 0 => i - 1 \in 0..(n + 1) /\ i - 1 # n + 1)
          BY <4>2
        <5>2. g[i] = f[i] /\ (i # 0 => g[i - 1] = f[i - 1])
          BY <4>2, <5>1
        <5>3. f[i] = IF i = 0 THEN s ELSE OnFrame(f[i - 1], b[i])
          BY <2>1, <5>1, Zenon
        <5> QED BY <5>2, <5>3, Zenon
      <4> QED BY <4>1, <4>2
    <3> HIDE DEF g
    <3>2. g = [i \in 0..(n + 1) |-> g[i]]
      BY DEF g
    <3> QED BY <3>1, <3>2, Zenon
  <2> HIDE DEF g
  <2>3. n + 1 \in Nat
    OBVIOUS
  <2> QED BY <2>2, <2>3, Zenon
<1>3. N \in T
  <2> HIDE DEF T
  <2>1. N \in 0..N
    OBVIOUS
  <2> QED BY <1>1, <1>2, <2>1, Upwards, Zenon
<1>4. PICK f : Is(f, N)
  BY <1>3
<1> DEFINE fed == CHOOSE f_1 : Is(f_1, N)
<1>5. Is(fed, N)
  BY <1>4, Zenon
<1>6. Fed(s, b) = fed[N]
  BY Zenon DEF Fed
<1>7. \A i \in 0..N : fed[i] = IF i = 0 THEN s ELSE OnFrame(fed[i - 1], b[i])
  <2> HIDE DEF fed
  <2> QED BY <1>5, Zenon
<1> HIDE DEF fed
<1>8. fed[0] = s /\ \A n \in 1..N : fed[n] = OnFrame(fed[n - 1], b[n])
  BY <1>7
<1> QED BY <1>6, <1>8, Zenon

\* What holds of a session and is kept by every frame holds after all of them;
\* Good[n] is what is to hold after the first n.
LEMMA FedKeeps ==
  ASSUME NEW s, NEW b, Len(b) \in Nat, NEW Good, s \in Good[0],
         \A n \in 1..Len(b) : \A t \in Good[n - 1] : OnFrame(t, b[n]) \in Good[n]
  PROVE  Fed(s, b) \in Good[Len(b)]
<1>1. PICK f : /\ f[0] = s /\ Fed(s, b) = f[Len(b)]
               /\ \A n \in 1..Len(b) : f[n] = OnFrame(f[n - 1], b[n])
  BY FedSteps
<1> DEFINE T == {n \in Nat : f[n] \in Good[n]}
<1>2. 0 \in T
  BY <1>1
<1>3. ASSUME NEW n \in 0..(Len(b) - 1), n \in T PROVE n + 1 \in T
  <2>1. n + 1 \in 1..Len(b) /\ (n + 1) - 1 = n
    OBVIOUS
  <2>2. f[n + 1] = OnFrame(f[n], b[n + 1]) /\ f[n] \in Good[n]
    BY <1>1, <1>3, <2>1, Zenon
  <2>3. OnFrame(f[n], b[n + 1]) \in Good[n + 1]
    BY <2>1, <2>2
  <2> QED BY <2>2, <2>3
<1>4. Len(b) \in T
  <2> HIDE DEF T
  <2>1. Len(b) \in 0..Len(b)
    OBVIOUS
  <2> QED BY <1>2, <1>3, <2>1, Upwards, Zenon
<1> QED BY <1>1, <1>4

\* The frames that are left when the first has been read.
LEMMA Tails ==
  ASSUME NEW F \in Seq(Frames), F # <<>>
  PROVE  /\ Head(F) = F[1] /\ F[1] \in Frames /\ Tail(F) \in Seq(Frames) /\ 0 < Len(F) /\ Len(F) \in Nat
         /\ \A K : Sent(K, F) => Recorded(K, F[1]) /\ Sent(K, Tail(F))
         /\ \A s : Ready(s, F, 1) => Ready(s, Tail(F), 0)
<1>1. /\ Head(F) = F[1] /\ F[1] \in Frames /\ Tail(F) \in Seq(Frames)
      /\ Len(F) \in Nat /\ 0 < Len(F) /\ Len(Tail(F)) = Len(F) - 1
      /\ \A i \in 1..Len(Tail(F)) : Tail(F)[i] = F[i + 1] /\ i + 1 \in 2..Len(F)
  OBVIOUS
<1>2. ASSUME NEW K, Sent(K, F) PROVE Recorded(K, F[1]) /\ Sent(K, Tail(F))
  <2>1. 1 \in 1..Len(F) /\ \A i \in 2..Len(F) : i \in 1..Len(F)
    BY <1>1
  <2> QED BY <1>1, <1>2, <2>1, Zenon DEF Sent
<1>3. ASSUME NEW s, Ready(s, F, 1) PROVE Ready(s, Tail(F), 0)
  <2>1. ASSUME NEW i \in (0 + 1)..Len(Tail(F))
        PROVE  /\ Fits(s, Tail(F)[i])
               /\ Tail(F)[i][1] = "hello" <=> s.phase = "hello" /\ i = 0 + 1
               /\ \A j \in (i + 1)..Len(Tail(F)) : ~Clash(Tail(F)[i], Tail(F)[j])
    <3>1. i \in 1..Len(Tail(F)) /\ i + 1 \in (1 + 1)..Len(F) /\ (i + 1 = 1 + 1 <=> i = 0 + 1)
      BY <1>1
    <3>2. Tail(F)[i] = F[i + 1]
      BY <1>1, <3>1, Zenon
    <3>3. /\ Fits(s, F[i + 1])
          /\ F[i + 1][1] = "hello" <=> s.phase = "hello" /\ i + 1 = 1 + 1
          /\ \A j \in ((i + 1) + 1)..Len(F) : ~Clash(F[i + 1], F[j])
      BY <1>3, <3>1, Zenon DEF Ready
    <3>4. ASSUME NEW j \in (i + 1)..Len(Tail(F)) PROVE ~Clash(F[i + 1], Tail(F)[j])
      <4>1. j \in 1..Len(Tail(F)) /\ j + 1 \in ((i + 1) + 1)..Len(F)
        BY <1>1, <3>1, SMTT(30)
      <4> QED BY <1>1, <3>3, <4>1, Zenon
    <3> QED BY <3>1, <3>2, <3>3, <3>4, Zenon
  <2> QED BY <2>1, Zenon DEF Ready
<1> QED BY <1>1, <1>2, <1>3, Zenon

\* end_input: whatever the worker had written, the session is over when it has been
\* read, every call that was open has an end, and the fault is the worker's only if
\* the session was not ready for what it wrote.
LEMMA Drained ==
  ASSUME NEW s \in Sessions, NEW F \in Seq(Frames), NEW k, NEW K, NoOpen(s), Waits(s, k),
         BackedNews(s, K), Sent(K, F)
  PROVE  LET t == InputEnded(s, F) IN
         /\ t \in Sessions /\ t.phase = "closed" /\ NoOpen(t) /\ Waits(t, k) /\ BackedNews(t, K)
         /\ \A c \in HostIds : <<"call", c>> \in Range(t.out) => <<"call", c>> \in Range(s.out)
         /\ s.phase # "closed" => Over(t)
         /\ s.phase # "closed" /\ ~Told(s, <<"over", "protocol">>) /\ Ready(s, F, 0)
              => ~Told(t, <<"over", "protocol">>)
         /\ Told(t, <<"over", "midframe">>) => Told(s, <<"over", "midframe">>) \/ know.part
         /\ Told(t, <<"over", "disconnect">>) => Told(s, <<"over", "disconnect">>) \/ ~know.part
<1> DEFINE Calm == s.phase # "closed" /\ ~Told(s, <<"over", "protocol">>) /\ Ready(s, F, 0)
           P(t, n) == /\ NoOpen(t) /\ Waits(t, k) /\ BackedNews(t, K)
                      /\ \A c \in HostIds : <<"call", c>> \in Range(t.out) => <<"call", c>> \in Range(s.out)
                      /\ s.phase # "closed" /\ t.phase = "closed" => Over(t)
                      /\ Told(t, <<"over", "midframe">>) => Told(s, <<"over", "midframe">>)
                      /\ Told(t, <<"over", "disconnect">>) => Told(s, <<"over", "disconnect">>)
                      /\ Calm => /\ ~Told(t, <<"over", "protocol">>)
                                 /\ t.phase # "closed" => Ready(t, F, n)
           Good == [n \in 0..Len(F) |-> {t \in Sessions : P(t, n)}]
           u == Fed(s, F)
<1>1. Len(F) \in Nat
  OBVIOUS
<1>2. s \in Good[0]
  <2>1. P(s, 0)
    BY Zenon
  <2>2. 0 \in 0..Len(F)
    BY <1>1
  <2> HIDE DEF P
  <2> QED BY <2>1, <2>2
<1>3. ASSUME NEW n \in 1..Len(F), NEW t \in Good[n - 1] PROVE OnFrame(t, F[n]) \in Good[n]
  <2> DEFINE v == OnFrame(t, F[n])
  <2>1. n \in 0..Len(F) /\ n - 1 \in 0..Len(F) /\ n - 1 \in Nat /\ n - 1 < Len(F) /\ (n - 1) + 1 = n
    BY <1>1
  <2>2. t \in Sessions /\ P(t, n - 1)
    <3> HIDE DEF P
    <3> QED BY <1>3, <2>1
  <2>3. F[n] \in Frames /\ Recorded(K, F[n])
    <3>1. F[n] \in Frames
      OBVIOUS
    <3> QED BY <3>1, Zenon DEF Sent
  <2>4. Takes(t, F[n], v)
    BY <2>2, <2>3, FrameTakes, Zenon
  <2>5. /\ v \in Sessions /\ NoOpen(v) /\ Waits(v, k) /\ BackedNews(v, K)
        /\ \A c \in HostIds : <<"call", c>> \in Range(v.out) => <<"call", c>> \in Range(t.out)
        /\ v.phase = "closed" => t.phase = "closed" \/ Over(v)
        /\ Told(v, <<"over", "midframe">>) => Told(t, <<"over", "midframe">>)
        /\ Told(v, <<"over", "disconnect">>) => Told(t, <<"over", "disconnect">>)
        /\ Told(v, <<"over", "protocol">>) => Told(t, <<"over", "protocol">>) \/ ~Expected(t, F[n])
    <3> HIDE DEF v
    <3> QED BY <2>2, <2>3, <2>4, FrameKeeps, ZenonT(30)
  <2>6. P(v, n)
    <3>1. CASE t.phase = "closed"
      <4>1. v = t
        BY <3>1 DEF OnFrame
      <4> HIDE DEF v
      <4> QED BY <2>2, <3>1, <4>1, Zenon
    <3>2. CASE t.phase # "closed"
      <4>1. ASSUME Calm PROVE ~Told(v, <<"over", "protocol">>) /\ (v.phase # "closed" => Ready(v, F, n))
        <5>1. Ready(t, F, n - 1) /\ ~Told(t, <<"over", "protocol">>)
          BY <2>2, <3>2, <4>1, Zenon
        <5>2. v = OnFrame(t, F[(n - 1) + 1]) /\ Takes(t, F[(n - 1) + 1], v)
          BY <2>1, <2>4
        <5> HIDE DEF v
        <5>3. Expected(t, F[(n - 1) + 1]) /\ (v.phase # "closed" => Ready(v, F, (n - 1) + 1))
          BY <2>1, <2>2, <3>2, <5>1, <5>2, ReadyStep, ZenonT(30)
        <5>4. Expected(t, F[n]) /\ (v.phase # "closed" => Ready(v, F, n))
          BY <2>1, <5>3, Zenon
        <5> QED BY <2>5, <5>1, <5>4, Zenon
      <4> HIDE DEF v
      <4> QED BY <2>2, <2>5, <3>2, <4>1, Zenon
    <3> QED BY <3>1, <3>2
  <2> HIDE DEF v, P
  <2>7. v \in Good[n]
    BY <2>1, <2>5, <2>6
  <2> QED BY <2>7, Zenon DEF v
<1>4. u \in Sessions /\ P(u, Len(F))
  <2> HIDE DEF Good
  <2>1. u \in Good[Len(F)]
    BY <1>1, <1>2, <1>3, FedKeeps, Zenon
  <2> HIDE DEF P, u
  <2> QED BY <1>1, <2>1 DEF Good
<1> DEFINE t == InputEnded(s, F)
<1>5. PICK cause \in {"midframe", "disconnect"} :
         t = Fatal(u, cause) /\ (cause = "midframe" => know.part) /\ (cause = "disconnect" => ~know.part)
  <2>1. CASE know.part
    BY <2>1, Zenon DEF InputEnded, EndOfInput
  <2>2. CASE ~know.part
    BY <2>2, Zenon DEF InputEnded, EndOfInput
  <2> QED BY <2>1, <2>2, Zenon
<1> HIDE DEF u, t
<1>6. CASE u.phase = "closed"
  <2>1. t = u
    BY <1>5, <1>6, Zenon DEF Fatal
  <2>2. /\ t \in Sessions /\ t.phase = "closed" /\ NoOpen(t) /\ Waits(t, k) /\ BackedNews(t, K)
        /\ \A c \in HostIds : <<"call", c>> \in Range(t.out) => <<"call", c>> \in Range(s.out)
        /\ s.phase # "closed" => Over(t)
        /\ Calm => ~Told(t, <<"over", "protocol">>)
        /\ Told(t, <<"over", "midframe">>) => Told(s, <<"over", "midframe">>)
        /\ Told(t, <<"over", "disconnect">>) => Told(s, <<"over", "disconnect">>)
    BY <1>4, <1>6, <2>1, Zenon
  <2> QED BY <2>2, Zenon DEF t
<1>7. CASE u.phase # "closed"
  <2>1. /\ t \in Sessions /\ t.phase = "closed" /\ TakesOut(u, t)
        /\ \A c \in HostIds : t.host[c] = IF u.host[c] = "open" THEN "spent" ELSE u.host[c]
        /\ \A x : x \in t.news <=> \/ x \in u.news
                                   \/ \E c \in HostIds : u.host[c] = "open" /\ x = <<"lost", c, "unknown">>
                                   \/ x = <<"over", cause>>
    <3> DEFINE d == Fatal(u, cause)
    <3>1. u \in Sessions
      BY <1>4, Zenon
    <3>2. /\ d \in Sessions /\ d.phase = "closed" /\ TakesOut(u, d)
          /\ \A c \in HostIds : d.host[c] = IF u.host[c] = "open" THEN "spent" ELSE u.host[c]
          /\ \A x : x \in d.news <=> \/ x \in u.news
                                     \/ \E c \in HostIds : u.host[c] = "open" /\ x = <<"lost", c, "unknown">>
                                     \/ x = <<"over", cause>>
      <4>1. cause \in {"goodbye", "protocol", "midframe", "disconnect"}
        BY Zenon
      <4> QED BY <1>7, <3>1, <4>1, FatalEnds, Zenon
    <3>3. t = d
      BY <1>5, Zenon
    <3> HIDE DEF d
    <3> QED BY <3>2, <3>3
  <2>2. NoOpen(t)
    <3>1. ASSUME NEW c \in HostIds PROVE t.host[c] # "open"
      <4>1. t.host[c] = "spent" \/ (t.host[c] = u.host[c] /\ u.host[c] # "open")
        BY <2>1, Zenon
      <4> QED BY <4>1
    <3> QED BY <3>1, Zenon DEF NoOpen
  <2>3. Waits(t, k)
    <3> SUFFICES ASSUME NEW c \in HostIds, k[c] = "waiting" PROVE EndsOf(t, c) # {}
      BY Zenon DEF Waits
    <3>1. CASE EndsOf(u, c) # {}
      <4>1. u.news \subseteq t.news
        BY <2>1, Zenon
      <4> QED BY <3>1, <4>1, EndsGrow, Zenon
    <3>2. CASE u.host[c] = "open"
      <4>1. Told(t, <<"lost", c, "unknown">>)
        BY <2>1, <3>2, Zenon DEF Told
      <4>2. "unknown" \in EndsOf(t, c)
        BY <4>1, Zenon DEF EndsOf
      <4> QED BY <4>2
    <3> QED BY <1>4, <3>1, <3>2, Zenon DEF Waits
  <2>4. Over(t)
    <3>1. cause \in Causes(t)
      <4>1. Told(t, <<"over", cause>>)
        BY <2>1, Zenon DEF Told
      <4> QED BY <1>5, <4>1, Zenon DEF Causes
    <3> QED BY <3>1 DEF Over
  <2>5. ASSUME NEW e, Told(t, e), \/ \E c : e = <<"lost", c, "cancelled">>
                                  \/ \E c \in {"goodbye", "protocol"} : e = <<"over", c>>
                                  \/ \E c : e = <<"acked", c>>
        PROVE  Told(u, e)
    <3>1. e # <<"over", cause>> /\ \A c : e # <<"lost", c, "unknown">>
      <4>1. CASE \E c : e = <<"lost", c, "cancelled">>
        BY <4>1
      <4>2. CASE \E c \in {"goodbye", "protocol"} : e = <<"over", c>>
        BY <1>5, <4>2
      <4>3. CASE \E c : e = <<"acked", c>>
        BY <4>3
      <4> QED BY <2>5, <4>1, <4>2, <4>3, Zenon
    <3> QED BY <2>1, <2>5, <3>1, Zenon DEF Told
  <2>6. BackedNews(t, K)
    BY <1>4, <2>5, Zenon DEF BackedNews
  <2>7. Calm => ~Told(t, <<"over", "protocol">>)
    <3> HIDE DEF Calm
    <3> QED BY <1>4, <2>5, Zenon
  <2>8. ASSUME NEW c \in HostIds, <<"call", c>> \in Range(t.out) PROVE <<"call", c>> \in Range(s.out)
    <3> DEFINE m == <<"call", c>>
    <3>1. m[1] \notin {"ack", "goodbye", "accept", "refuse"} /\ m[1] # "reply"
      OBVIOUS
    <3>2. m \in Range(t.out)
      BY <2>8
    <3> HIDE DEF m
    <3>3. m \in Range(u.out)
      BY <2>1, <3>1, <3>2, Zenon DEF TakesOut
    <3> QED BY <1>4, <3>3, Zenon DEF m
  <2>9. ASSUME NEW c \in {"midframe", "disconnect"}, Told(t, <<"over", c>>), ~Told(u, <<"over", c>>)
        PROVE  c = cause
    <3>1. \A x : <<"over", c>> # <<"lost", x, "unknown">>
      BY Apart, Zenon
    <3>2. <<"over", c>> = <<"over", cause>>
      BY <2>1, <2>9, <3>1, Zenon DEF Told
    <3> QED BY <3>2, Apart, Zenon
  <2>10. /\ Told(t, <<"over", "midframe">>) => Told(s, <<"over", "midframe">>) \/ know.part
         /\ Told(t, <<"over", "disconnect">>) => Told(s, <<"over", "disconnect">>) \/ ~know.part
    BY <1>4, <1>5, <2>9, Zenon
  <2> QED BY <2>1, <2>2, <2>3, <2>4, <2>6, <2>7, <2>8, <2>10, ZenonT(30) DEF t
<1> QED BY <1>6, <1>7

\* The buffer passes its cap.
LEMMA Overflows ==
  ASSUME ProcessInv, pump = "loop", NEW s, NEW k, NEW r, NEW t, NEW rest, Ordered(s, k, r, rest),
         CallsOnly(s, k), Overflow(s, k, r, t, rest), Len(toWorker \o SessionAfter(s, t).out) > OutCap,
         fromWorker' = rest, UNCHANGED <<resource, child, know, faulty>>
  PROVE  ProcessInv'
<1> DEFINE a == SessionAfter(s, t)
           z == [SessionAfter(s, t) EXCEPT !.out = <<>>]
           x == CallsAfter(s, k)
           y == RelsAfter(s, r)
           e == InputEnded(z, rest)
           b == SessionAfter(e, TasksAfter(s, t))
           last == [SessionAfter(e, TasksAfter(s, t)) EXCEPT !.out = <<>>]
           q == toWorker \o a.out
           cut == SubSeq(q, 1, OutCap + 1)
<1>1. /\ call' = CallsAfter(e, x) /\ rel' = RelsAfter(e, y) /\ session' = last
      /\ toWorker' = cut \o b.out /\ pump' = "exiting"
      /\ IF Over(s) THEN CloseOn(s) ELSE SetClosed("overflow")
  BY Zenon DEF Overflow
<1>2. /\ s \in Sessions /\ NoOpen(s) /\ JustNews(s) /\ BackedNews(s, know)
      /\ k \in [HostIds -> CallStates] /\ Waits(s, k) /\ Unsent(k, toWorker, know)
      /\ r \in [OfferIds -> RelStates] /\ AckedBacked(r, know)
      /\ rest \in Seq(Frames) /\ Sent(know, rest)
  BY Zenon DEF Ordered, JustNews
<1>3. know' = know /\ faulty' = faulty /\ child' = child /\ resource' = resource
  OBVIOUS
<1>4. /\ Keeps(s, a) /\ CallsNot(s, a) /\ Keeps(s, z) /\ z.host = s.host /\ z.out = <<>> /\ z.news = {}
  BY <1>2, AfterKeeps, Zenon
<1>5. CallersMoved(s, k, x, know)
  BY <1>2, CallersMove, Zenon
<1>6. y \in [OfferIds -> RelStates] /\ AckedBacked(y, know)
  BY <1>2, RelsMove, Zenon
<1> HIDE DEF a, z, x, y
<1>7. z \in Sessions /\ z.phase = s.phase /\ a \in Sessions
  BY <1>4, Zenon DEF Keeps
<1>8. NoOpen(z) /\ Waits(z, x) /\ BackedNews(z, know) /\ x \in [HostIds -> CallStates]
  <2>1. NoOpen(z)
    BY <1>2, <1>4, <1>7, ZenonT(30) DEF NoOpen
  <2>2. \A c \in HostIds : x[c] = "waiting" => z.host[c] = "open"
    <3>1. \A c \in HostIds : x[c] = "waiting" => s.host[c] = "open"
      BY <1>5, Zenon DEF CallersMoved
    <3> QED BY <1>4, <3>1
  <2>3. BackedNews(z, know)
    BY <1>4, Zenon DEF BackedNews, Told
  <2> QED BY <1>5, <2>1, <2>2, <2>3, Zenon DEF Waits, CallersMoved
<1>9. /\ e \in Sessions /\ e.phase = "closed" /\ NoOpen(e) /\ Waits(e, x) /\ BackedNews(e, know)
      /\ \A c \in HostIds : <<"call", c>> \in Range(e.out) => <<"call", c>> \in Range(z.out)
  BY <1>2, <1>7, <1>8, Drained, Zenon
<1> HIDE DEF e
<1>10. /\ Keeps(e, b) /\ CallsNot(e, b) /\ Keeps(e, last) /\ last.host = e.host
       /\ last.out = <<>> /\ last.news = {}
  BY <1>9, AfterKeeps, Zenon
<1> HIDE DEF b, last
<1>11. last \in Sessions /\ last.phase = "closed" /\ b \in Sessions
  BY <1>9, <1>10, Zenon DEF Keeps
<1>12. CallersMoved(e, x, call', know)
  BY <1>1, <1>8, <1>9, CallersMove, Zenon
<1>13. rel' \in [OfferIds -> RelStates] /\ AckedBacked(rel', know)
  BY <1>1, <1>6, <1>9, RelsMove, Zenon
<1>14. /\ toWorker' \in Seq(Messages)
       /\ \A m \in Range(toWorker') : m \in Range(toWorker) \/ m \in Range(a.out) \/ m \in Range(b.out)
  <2>1. toWorker \in Seq(Messages) /\ a.out \in Seq(Messages) /\ b.out \in Seq(Messages)
    BY <1>7, <1>11, Fields, Zenon DEF ProcessInv, ProcessTypes
  <2>2. q \in Seq(Messages) /\ \A m : m \in Range(q) <=> m \in Range(toWorker) \/ m \in Range(a.out)
    BY <2>1, Joins, Zenon
  <2>3. Len(q) > OutCap
    BY ZenonT(30) DEF a
  <2> HIDE DEF q
  <2>4. OutCap + 1 \in 0..Len(q)
    BY <2>2, <2>3, ProcessAssumption
  <2>5. cut \in Seq(Messages) /\ \A m \in Range(cut) : m \in Range(q)
    BY <2>2, <2>4, Cuts, Zenon
  <2> HIDE DEF cut
  <2>6. cut \o b.out \in Seq(Messages)
        /\ \A m : m \in Range(cut \o b.out) <=> m \in Range(cut) \/ m \in Range(b.out)
    BY <2>1, <2>5, Joins, Zenon
  <2>7. toWorker' = cut \o b.out
    BY <1>1, Zenon DEF cut, q
  <2> QED BY <2>2, <2>5, <2>6, <2>7, Zenon
<1>15. Unsent(call', toWorker', know)
  <2>1. Unsent(x, toWorker', know)
    <3>1. ASSUME NEW c \in HostIds, <<"call", c>> \in Range(toWorker')
          PROVE  <<"call", c>> \in Range(toWorker) \/ k[c] = "waiting"
      <4>1. CASE <<"call", c>> \in Range(a.out)
        BY <1>4, <4>1, Zenon DEF CallsNot, CallsOnly
      <4>2. CASE <<"call", c>> \in Range(b.out)
        <5>1. <<"call", c>> \in Range(<<>>)
          BY <1>4, <1>9, <1>10, <4>2, Zenon DEF CallsNot
        <5> QED BY <5>1 DEF Range
      <4> QED BY <1>14, <3>1, <4>1, <4>2, Zenon
    <3> QED BY <1>2, <1>5, <3>1, UnsentMoves, Zenon
  <2> QED BY <1>12, <2>1, UnsentMoves, Zenon
<1>16. ProcessTypes'
  <2>1. call' \in [HostIds -> CallStates]
    BY <1>12, Zenon DEF CallersMoved
  <2>2. know \in Knowledge
    BY Zenon DEF ProcessInv, ProcessTypes
  <2>3. session' = last
    BY <1>1, Zenon
  <2> QED BY <1>2, <1>3, <1>10, <1>11, <1>13, <1>14, <2>1, <2>2, <2>3, Zenon DEF ProcessTypes
<1>17. session'.host = e.host /\ session'.phase = "closed"
  BY <1>1, <1>10, <1>11, ZenonT(30)
<1>18. NoOpen(session')
  BY <1>9, <1>17, Zenon DEF NoOpen
<1>19. \A c \in HostIds : call'[c] = "waiting" => session'.host[c] = "open"
  <2>1. \A c \in HostIds : call'[c] = "waiting" => e.host[c] = "open"
    BY <1>12, Zenon DEF CallersMoved
  <2> QED BY <1>17, <2>1
<1>20. SummaryIsJust' /\ summary' # "open"
  <2>1. SummaryIsJust
    BY Zenon DEF ProcessInv
  <2>2. CASE Over(s)
    BY <1>1, <1>2, <2>1, <2>2, Closes, Zenon
  <2>3. CASE ~Over(s)
    <3>1. summary' = IF summary = "open" THEN "overflow" ELSE summary
      BY <1>1, <2>3, Zenon DEF SetClosed
    <3> QED BY <1>3, <2>1, <3>1 DEF SummaryIsJust
  <2> QED BY <2>2, <2>3
<1>21. Stages'
  <2>1. resource # "none" /\ resource # "released"
    BY DEF ProcessInv, Stages
  <2>2. pump' = "exiting"
    BY <1>1
  <2> QED BY <1>3, <1>20, <2>1, <2>2, Zenon DEF Stages
<1>22. pump' \notin {"none", "loop"}
  BY <1>1
<1>23. Sent(know', fromWorker') /\ AckedBacked(rel', know') /\ Unsent(call', toWorker', know')
  BY <1>2, <1>3, <1>13, <1>15, Zenon
<1> QED BY <1>16, <1>18, <1>19, <1>20, <1>21, <1>22, <1>23, Zenon DEF ProcessInv, AckedBacked

\* A turn keeps the invariant, whatever its arm.
LEMMA TurnKeeps ==
  ASSUME ProcessInv, NEW s, NEW k, NEW r, NEW t, NEW rest, Ordered(s, k, r, rest), CallsOnly(s, k),
         Turn(s, k, r, t, rest)
  PROVE  ProcessInv'
<1>1. pump = "loop" /\ fromWorker' = rest /\ UNCHANGED <<resource, child, know, faulty>>
  BY DEF Turn
<1>2. CASE DropOutput(s, k, r, t)
  BY <1>1, <1>2, Drops, Zenon
<1>3. CASE Overflow(s, k, r, t, rest) /\ Len(toWorker \o SessionAfter(s, t).out) > OutCap
  BY <1>1, <1>3, Overflows, Zenon
<1>4. CASE QueueOutput(s, k, r, t)
  BY <1>1, <1>4, Queues, Zenon
<1> QED BY <1>2, <1>3, <1>4, Zenon DEF Turn

-----------------------------------------------------------------------------
(* The arms of the select *)

\* What the invariant says of a pump that runs.
LEMMA Running ==
  ASSUME ProcessInv, pump = "loop"
  PROVE  /\ session \in Sessions /\ session.out = <<>> /\ session.news = {} /\ session.phase # "closed"
         /\ NoOpen(session) /\ Waits(session, call) /\ Unsent(call, toWorker, know)
         /\ call \in [HostIds -> CallStates] /\ rel \in [OfferIds -> RelStates] /\ AckedBacked(rel, know)
         /\ toWorker \in Seq(Messages) /\ fromWorker \in Seq(Frames) /\ Sent(know, fromWorker)
         /\ ~faulty => Conforms(session, know, toWorker, fromWorker)
         /\ Range(session.out) = {}
<1>1. session.phase # "closed"
  BY DEF ProcessInv, Stages
<1>2. Waits(session, call) /\ AckedBacked(rel, know)
  BY ZenonT(30) DEF ProcessInv, Waits, AckedBacked
<1>3. Range(session.out) = {}
  BY DEF ProcessInv, ProcessTypes, Range
<1>4. ~faulty => Conforms(session, know, toWorker, fromWorker)
  BY Zenon DEF ProcessInv
<1> QED BY <1>1, <1>2, <1>3, <1>4, ZenonT(30) DEF ProcessInv, ProcessTypes

\* An arm that is not about what the worker wrote.
LEMMA HostArm ==
  ASSUME ProcessInv, pump = "loop", NEW t, Keeps(session, t), t.phase = "active" \/ t.host = session.host,
         \A e \in t.news : \E c : e = <<"lost", c, "unknown">>,
         NEW k \in [HostIds -> CallStates], Waits(t, k), Unsent(k, toWorker, know),
         NEW r \in [OfferIds -> RelStates], AckedBacked(r, know)
  PROVE  Ordered(t, k, r, fromWorker)
<1>1. /\ session \in Sessions /\ session.phase # "closed" /\ NoOpen(session) /\ Range(session.out) = {}
      /\ fromWorker \in Seq(Frames) /\ Sent(know, fromWorker) /\ toWorker \in Seq(Messages)
      /\ ~faulty => Conforms(session, know, toWorker, fromWorker)
  BY Running, Zenon
<1>2. t \in Sessions /\ t.phase = session.phase
  BY ZenonT(30) DEF Keeps
<1>3. NoOpen(t)
  BY <1>1, <1>2, Zenon DEF NoOpen
<1>4. JustNews(t)
  <2>1. ASSUME NEW e, \/ \E c : e = <<"lost", c, "cancelled">>
                      \/ \E c : e = <<"over", c>>
                      \/ \E c : e = <<"acked", c>>
        PROVE  ~Told(t, e)
    <3>1. \A c : e # <<"lost", c, "unknown">>
      <4>1. CASE \E c : e = <<"lost", c, "cancelled">>
        BY <4>1
      <4>2. CASE \E c : e = <<"over", c>>
        BY <4>2
      <4>3. CASE \E c : e = <<"acked", c>>
        BY <4>3
      <4> QED BY <2>1, <4>1, <4>2, <4>3, Zenon
    <3> QED BY <3>1, ZenonT(30) DEF Told
  <2> QED BY <2>1, Zenon DEF JustNews, BackedNews
<1>5. ASSUME ~faulty PROVE Conforms(t, know, toWorker, fromWorker) /\ AllBacked(t, t.out)
  <2>1. Conforms(session, know, toWorker, fromWorker)
    BY <1>1, <1>5, Zenon
  <2>2. Ties(t, know) /\ Ready(t, fromWorker, 0)
    <3>1. 0 \in Nat
      OBVIOUS
    <3> QED BY <1>1, <2>1, <3>1, KeepsConform, ZenonT(30) DEF Conforms
  <2>3. AllBacked(t, toWorker)
    BY <1>1, <2>1, KeepsConform, OutMessages, Zenon DEF Conforms, AllBacked
  <2>4. AllBacked(t, t.out)
    BY <1>1, Zenon DEF Keeps, AllBacked
  <2> QED BY <1>2, <2>1, <2>2, <2>3, <2>4, Zenon DEF Conforms
<1>6. t.phase # "closed"
  BY <1>1, <1>2, Zenon
<1> QED BY <1>1, <1>2, <1>3, <1>4, <1>5, <1>6, Zenon DEF Ordered

\* An arm that calls nobody.
LEMMA QuietArm ==
  ASSUME ProcessInv, pump = "loop", NEW t, CallsNot(session, t), NEW k
  PROVE  CallsOnly(t, k)
<1>1. Range(session.out) = {}
  BY Running, Zenon
<1> QED BY <1>1, Zenon DEF CallsOnly, CallsNot

\* One caller moves on.
LEMMA CallerSet ==
  ASSUME ProcessInv, NEW c \in HostIds, NEW v \in CallStates,
         v \in {"waiting", "dropped"} \/ (call[c] = "queued" /\ v \in {"refused", "closed"})
  PROVE  LET k == [call EXCEPT ![c] = v] IN
         /\ k \in [HostIds -> CallStates] /\ Unsent(k, toWorker, know)
         /\ \A x \in HostIds : k[x] = IF x = c THEN v ELSE call[x]
<1> DEFINE k == [call EXCEPT ![c] = v]
<1>1. call \in [HostIds -> CallStates] /\ Unsent(call, toWorker, know)
  BY Zenon DEF ProcessInv, ProcessTypes
<1>2. k \in [HostIds -> CallStates] /\ \A x \in HostIds : k[x] = IF x = c THEN v ELSE call[x]
  BY <1>1, Zenon
<1> HIDE DEF k
<1>3. Unsent(k, toWorker, know)
  <2> SUFFICES ASSUME NEW x \in HostIds
               PROVE  /\ k[x] \in {"idle", "queued", "refused", "closed"}
                           => <<"call", x>> \notin Range(toWorker) /\ x \notin know.got
                      /\ k[x] = "cancelled"
                           => (<<"call", x>> \notin Range(toWorker) /\ x \notin know.got) \/ know.bye
    BY Zenon DEF Unsent
  <2>1. CASE x # c
    <3>1. k[x] = call[x]
      BY <1>2, <2>1, Zenon
    <3> QED BY <1>1, <3>1, Zenon DEF Unsent
  <2>2. CASE x = c /\ v \in {"waiting", "dropped"}
    <3>1. k[x] \in {"waiting", "dropped"}
      BY <1>2, <2>2
    <3>2. k[x] \notin {"idle", "queued", "refused", "closed"} /\ k[x] # "cancelled"
      BY <3>1
    <3> QED BY <3>2, Zenon
  <2>3. CASE x = c /\ call[c] = "queued" /\ v \in {"refused", "closed"}
    <3>1. k[x] # "cancelled"
      BY <1>2, <2>3
    <3>2. <<"call", x>> \notin Range(toWorker) /\ x \notin know.got
      BY <1>1, <2>3, Zenon DEF Unsent
    <3> QED BY <3>1, <3>2, Zenon
  <2> QED BY <2>1, <2>2, <2>3
<1> QED BY <1>2, <1>3, Zenon DEF k

\* A frame is read.
LEMMA ReadReadyKeeps ==
  ASSUME ProcessInv, ReadReady
  PROVE  ProcessInv'
<1> DEFINE f == Head(fromWorker)
           t == OnFrame(session, f)
           rest == Tail(fromWorker)
<1>1. pump = "loop" /\ fromWorker # <<>> /\ Turn(t, call, rel, task, rest)
  BY DEF ReadReady, Turn
<1>2. /\ session \in Sessions /\ session.out = <<>> /\ session.news = {} /\ session.phase # "closed"
      /\ NoOpen(session) /\ Waits(session, call) /\ Unsent(call, toWorker, know)
      /\ call \in [HostIds -> CallStates] /\ rel \in [OfferIds -> RelStates] /\ AckedBacked(rel, know)
      /\ toWorker \in Seq(Messages) /\ fromWorker \in Seq(Frames) /\ Sent(know, fromWorker)
      /\ ~faulty => Conforms(session, know, toWorker, fromWorker)
      /\ Range(session.out) = {}
  BY <1>1, Running, Zenon
<1>3. /\ f = fromWorker[1] /\ f \in Frames /\ rest \in Seq(Frames) /\ 0 < Len(fromWorker)
      /\ Recorded(know, f) /\ Sent(know, rest)
      /\ \A s : Ready(s, fromWorker, 1) => Ready(s, rest, 0)
  BY <1>1, <1>2, Tails, Zenon
<1> HIDE DEF f, rest
<1>4. Takes(session, f, t)
  BY <1>2, <1>3, FrameTakes, Zenon
<1>5. \A e : ~Told(session, e)
  BY <1>2, Zenon DEF Told
<1>6. BackedNews(session, know)
  BY <1>5, Zenon DEF BackedNews
<1>7. /\ t \in Sessions /\ NoOpen(t) /\ Waits(t, call) /\ BackedNews(t, know)
      /\ \A c \in HostIds : <<"call", c>> \in Range(t.out) => <<"call", c>> \in Range(session.out)
      /\ t.phase = "closed" => session.phase = "closed" \/ Over(t)
      /\ Told(t, <<"over", "disconnect">>) => Told(session, <<"over", "disconnect">>)
      /\ Told(t, <<"over", "midframe">>) => Told(session, <<"over", "midframe">>)
      /\ Told(t, <<"over", "protocol">>) => Told(session, <<"over", "protocol">>) \/ ~Expected(session, f)
  <2> HIDE DEF t
  <2> QED BY <1>2, <1>3, <1>4, <1>6, FrameKeeps, Zenon
<1>8. ASSUME ~faulty
      PROVE  /\ Expected(session, f)
             /\ t.phase # "closed" => Conforms(t, know, toWorker, rest) /\ AllBacked(t, t.out)
  <2>1. Conforms(session, know, toWorker, fromWorker)
    BY <1>2, <1>8, Zenon
  <2>2. Expected(session, f) /\ (t.phase # "closed" => Ready(t, fromWorker, 1))
    <3>1. 0 \in Nat /\ 0 + 1 = 1
      OBVIOUS
    <3>2. Ready(session, fromWorker, 0)
      BY <2>1, Zenon DEF Conforms
    <3>3. t = OnFrame(session, fromWorker[0 + 1]) /\ Takes(session, fromWorker[0 + 1], t)
      BY <1>3, <1>4, <3>1
    <3> HIDE DEF t
    <3>4. Expected(session, fromWorker[0 + 1]) /\ (t.phase # "closed" => Ready(t, fromWorker, 0 + 1))
      BY <1>2, <1>3, <3>1, <3>2, <3>3, ReadyStep, Zenon
    <3> QED BY <1>3, <3>1, <3>4
  <2>3. ASSUME t.phase # "closed" PROVE Conforms(t, know, toWorker, rest) /\ AllBacked(t, t.out)
    <3>1. Ties(t, know) /\ \A m \in Messages : Backed(session, m) => Backed(t, m)
      <4> HIDE DEF t
      <4> QED BY <1>2, <1>3, <1>4, <2>1, <2>3, TakesTies, Zenon DEF Conforms
    <3>2. AllBacked(t, toWorker)
      BY <1>2, <2>1, <3>1, OutMessages, Zenon DEF Conforms, AllBacked
    <3>3. AllBacked(t, t.out)
      <4> SUFFICES ASSUME NEW m \in Range(t.out) PROVE Backed(t, m)
        BY Zenon DEF AllBacked
      <4> HIDE DEF t
      <4>1. \/ m[1] \in {"ack", "goodbye", "accept", "refuse"}
            \/ m[1] = "reply" /\ m[3] = {}
        BY <1>2, <1>4, Zenon DEF Takes, TakesOut
      <4> QED BY <4>1 DEF Backed
    <3>4. know.hello /\ t.phase # "hello"
      <4>1. know.hello
        BY <1>1, <2>1, Zenon DEF Conforms
      <4>2. t.phase # "hello"
        <5>1. CASE session.phase = "hello"
          BY <1>2, <1>3, <5>1, HelloMoves, Zenon
        <5>2. CASE session.phase # "hello"
          <6>1. t.phase = session.phase \/ t.phase = "closed"
            <7> HIDE DEF t
            <7> QED BY <1>4, <5>2, Zenon DEF Takes, TakesCalls
          <6> QED BY <2>3, <5>2, <6>1
        <5> QED BY <5>1, <5>2
      <4> QED BY <4>1, <4>2
    <3> HIDE DEF t
    <3> QED BY <1>3, <2>2, <2>3, <3>1, <3>2, <3>3, <3>4, Zenon DEF Conforms
  <2> QED BY <2>2, <2>3, Zenon
<1> HIDE DEF t
<1>9. JustNews(t)
  BY <1>5, <1>7, <1>8, Zenon DEF JustNews
<1>10. Ordered(t, call, rel, rest)
  BY <1>2, <1>3, <1>7, <1>8, <1>9, Zenon DEF Ordered
<1>11. CallsOnly(t, call)
  BY <1>2, <1>7, Zenon DEF CallsOnly
<1> QED BY <1>1, <1>10, <1>11, TurnKeeps, Zenon

\* The input is over.
LEMMA InputEndsKeeps ==
  ASSUME ProcessInv, InputEnds
  PROVE  ProcessInv'
<1> DEFINE t == InputEnded(session, fromWorker)
<1>1. pump = "loop" /\ child # "up" /\ Turn(t, call, rel, task, <<>>)
  BY DEF InputEnds, Turn
<1>2. /\ session \in Sessions /\ session.out = <<>> /\ session.news = {} /\ session.phase # "closed"
      /\ NoOpen(session) /\ Waits(session, call) /\ Unsent(call, toWorker, know)
      /\ call \in [HostIds -> CallStates] /\ rel \in [OfferIds -> RelStates] /\ AckedBacked(rel, know)
      /\ toWorker \in Seq(Messages) /\ fromWorker \in Seq(Frames) /\ Sent(know, fromWorker)
      /\ ~faulty => Conforms(session, know, toWorker, fromWorker)
      /\ Range(session.out) = {}
  BY <1>1, Running, Zenon
<1>3. \A e : ~Told(session, e)
  BY <1>2, Zenon DEF Told
<1>4. BackedNews(session, know)
  BY <1>3, Zenon DEF BackedNews
<1>5. /\ t \in Sessions /\ t.phase = "closed" /\ NoOpen(t) /\ Waits(t, call) /\ BackedNews(t, know)
      /\ \A c \in HostIds : <<"call", c>> \in Range(t.out) => <<"call", c>> \in Range(session.out)
      /\ session.phase # "closed" => Over(t)
      /\ session.phase # "closed" /\ ~Told(session, <<"over", "protocol">>) /\ Ready(session, fromWorker, 0)
           => ~Told(t, <<"over", "protocol">>)
      /\ Told(t, <<"over", "midframe">>) => Told(session, <<"over", "midframe">>) \/ know.part
      /\ Told(t, <<"over", "disconnect">>) => Told(session, <<"over", "disconnect">>) \/ ~know.part
  BY <1>2, <1>4, Drained, Zenon
<1> HIDE DEF t
<1>6. JustNews(t)
  BY <1>1, <1>2, <1>3, <1>5, Zenon DEF JustNews, Conforms
<1>7. <<>> \in Seq(Frames) /\ Sent(know, <<>>)
  BY DEF Sent
<1>8. Ordered(t, call, rel, <<>>)
  BY <1>2, <1>5, <1>6, <1>7, Zenon DEF Ordered
<1>9. CallsOnly(t, call)
  BY <1>2, <1>5, Zenon DEF CallsOnly
<1> QED BY <1>1, <1>8, <1>9, TurnKeeps, Zenon

\* A deadline passes.
LEMMA TickKeeps ==
  ASSUME ProcessInv, NEW c \in HostIds, Tick(c)
  PROVE  ProcessInv'
<1> DEFINE t == Expire(session, c)
<1>1. pump = "loop" /\ session.phase = "active" /\ Turn(t, call, rel, task, fromWorker)
  BY Zenon DEF Tick, Turn
<1>2. /\ session \in Sessions /\ session.news = {} /\ Waits(session, call) /\ Unsent(call, toWorker, know)
      /\ call \in [HostIds -> CallStates] /\ rel \in [OfferIds -> RelStates] /\ AckedBacked(rel, know)
  BY <1>1, Running, Zenon
<1>3. /\ Keeps(session, t) /\ CallsNot(session, t) /\ t.news = session.news \cup {<<"lost", c, "unknown">>}
      /\ \A x \in HostIds : x # c => t.host[x] = session.host[x]
  BY <1>2, ExpireKeeps, Zenon
<1> HIDE DEF t
<1>4. t.phase = "active"
  BY <1>1, <1>3, Zenon DEF Keeps
<1>5. \A e \in t.news : \E x : e = <<"lost", x, "unknown">>
  BY <1>2, <1>3, Zenon
<1>6. Waits(t, call)
  <2> SUFFICES ASSUME NEW x \in HostIds, call[x] = "waiting" PROVE t.host[x] = "open" \/ EndsOf(t, x) # {}
    BY Zenon DEF Waits
  <2>1. CASE x = c
    <3>1. Told(t, <<"lost", x, "unknown">>)
      BY <1>3, <2>1, Zenon DEF Told
    <3>2. "unknown" \in EndsOf(t, x)
      BY <3>1, Zenon DEF EndsOf
    <3> QED BY <3>2
  <2>2. CASE x # c
    <3>1. session.news \subseteq t.news
      BY <1>3
    <3>2. session.host[x] = "open" \/ EndsOf(session, x) # {}
      BY <1>2, Zenon DEF Waits
    <3> QED BY <1>3, <2>2, <3>1, <3>2, EndsGrow, Zenon
  <2> QED BY <2>1, <2>2
<1>7. Ordered(t, call, rel, fromWorker) /\ CallsOnly(t, call)
  BY <1>1, <1>2, <1>3, <1>4, <1>5, <1>6, HostArm, QuietArm, Zenon
<1> QED BY <1>1, <1>7, TurnKeeps, ZenonT(30)

\* An arm that leaves host calls and news alone, and at most settles one caller.
LEMMA PlainArm ==
  ASSUME ProcessInv, pump = "loop", NEW t, Keeps(session, t), CallsNot(session, t),
         t.news = session.news, t.host = session.host,
         NEW k \in [HostIds -> CallStates], Unsent(k, toWorker, know),
         \A x \in HostIds : k[x] = "waiting" => call[x] = "waiting",
         NEW r \in [OfferIds -> RelStates], AckedBacked(r, know), NEW u,
         Turn(t, k, r, u, fromWorker)
  PROVE  ProcessInv'
<1>1. session.news = {} /\ Waits(session, call)
  BY Running, Zenon
<1>2. \A x : EndsOf(t, x) = EndsOf(session, x)
  BY Zenon DEF EndsOf, Told
<1>3. Waits(t, k)
  BY <1>1, <1>2, Zenon DEF Waits
<1>4. \A e \in t.news : \E c : e = <<"lost", c, "unknown">>
  BY <1>1, Zenon
<1>5. Ordered(t, k, r, fromWorker)
  BY <1>3, <1>4, HostArm, Zenon
<1>6. CallsOnly(t, k)
  BY QuietArm, Zenon
<1> QED BY <1>5, <1>6, TurnKeeps, Zenon

\* A session is kept by doing nothing.
LEMMA KeepsItself ==
  ASSUME NEW s \in Sessions
  PROVE  Keeps(s, s) /\ CallsNot(s, s)
BY KeepsSame, Zenon DEF CallsNot, SameTables

\* The pump takes a call.
LEMMA TakeCallKeeps ==
  ASSUME ProcessInv, NEW c \in HostIds, TakeCall(c)
  PROVE  ProcessInv'
<1>1. pump = "loop" /\ call[c] = "queued"
  BY DEF TakeCall, Turn
<1>2. /\ session \in Sessions /\ session.news = {} /\ Waits(session, call) /\ Unsent(call, toWorker, know)
      /\ call \in [HostIds -> CallStates] /\ rel \in [OfferIds -> RelStates] /\ AckedBacked(rel, know)
      /\ Range(session.out) = {}
  BY <1>1, Running, Zenon
<1>3. CASE MayCall(session)
  <2> DEFINE t == CallWorker(session, c)
             k == [call EXCEPT ![c] = "waiting"]
  <2>1. Turn(t, k, rel, task, fromWorker) /\ session.phase = "active"
    BY <1>3, Zenon DEF TakeCall, MayCall
  <2>2. /\ Keeps(session, t) /\ t.news = session.news
        /\ \A x \in HostIds : t.host[x] = IF x = c THEN "open" ELSE session.host[x]
        /\ \A x : x \in Range(t.out) <=> x \in Range(session.out) \/ x = <<"call", c>>
    BY <1>2, CallWorkerKeeps, Zenon
  <2>3. /\ k \in [HostIds -> CallStates] /\ Unsent(k, toWorker, know)
        /\ \A x \in HostIds : k[x] = IF x = c THEN "waiting" ELSE call[x]
    <3>1. "waiting" \in CallStates
      BY DEF CallStates
    <3> QED BY <3>1, CallerSet, Zenon
  <2> HIDE DEF t, k
  <2>4. t.phase = "active"
    BY <2>1, <2>2, Zenon DEF Keeps
  <2>5. Waits(t, k)
    <3> SUFFICES ASSUME NEW x \in HostIds, k[x] = "waiting" PROVE t.host[x] = "open" \/ EndsOf(t, x) # {}
      BY Zenon DEF Waits
    <3>1. CASE x = c
      BY <2>2, <3>1, Zenon
    <3>2. CASE x # c
      <4>1. t.host[x] = session.host[x] /\ EndsOf(t, x) = EndsOf(session, x) /\ call[x] = "waiting"
        BY <2>2, <2>3, <3>2, Zenon DEF EndsOf, Told
      <4> QED BY <1>2, <4>1, Zenon DEF Waits
    <3> QED BY <3>1, <3>2
  <2>6. \A e \in t.news : \E x : e = <<"lost", x, "unknown">>
    BY <1>2, <2>2, Zenon
  <2>7. Ordered(t, k, rel, fromWorker)
    BY <1>1, <1>2, <2>2, <2>3, <2>4, <2>5, <2>6, HostArm, Zenon
  <2>8. CallsOnly(t, k)
    <3> SUFFICES ASSUME NEW x \in HostIds, <<"call", x>> \in Range(t.out)
                 PROVE  k[x] = "waiting" /\ <<"call", x>> \notin Range(toWorker) /\ x \notin know.got
      BY Zenon DEF CallsOnly
    <3>1. <<"call", x>> = <<"call", c>>
      BY <1>2, <2>2, Zenon
    <3>2. x = c
      BY <3>1
    <3>3. <<"call", c>> \notin Range(toWorker) /\ c \notin know.got
      BY <1>1, <1>2, Zenon DEF Unsent
    <3> QED BY <2>3, <3>2, <3>3, Zenon
  <2> QED BY <2>1, <2>7, <2>8, TurnKeeps, Zenon
<1>4. CASE ~MayCall(session)
  <2> DEFINE k == [call EXCEPT ![c] = "refused"]
  <2>1. Turn(session, k, rel, task, fromWorker)
    BY <1>4, Zenon DEF TakeCall
  <2>2. /\ k \in [HostIds -> CallStates] /\ Unsent(k, toWorker, know)
        /\ \A x \in HostIds : k[x] = IF x = c THEN "refused" ELSE call[x]
    <3>1. "refused" \in CallStates
      BY DEF CallStates
    <3> QED BY <1>1, <3>1, CallerSet, Zenon
  <2> HIDE DEF k
  <2>3. \A x \in HostIds : k[x] = "waiting" => call[x] = "waiting"
    BY <2>2
  <2> QED BY <1>1, <1>2, <2>1, <2>2, <2>3, KeepsItself, PlainArm, Zenon
<1> QED BY <1>3, <1>4

\* The pump takes a release.
LEMMA TakeReleaseKeeps ==
  ASSUME ProcessInv, NEW o \in OfferIds, TakeRelease(o)
  PROVE  ProcessInv'
<1>1. pump = "loop"
  BY DEF TakeRelease, Turn
<1>2. session \in Sessions /\ Unsent(call, toWorker, know) /\ call \in [HostIds -> CallStates]
  BY <1>1, Running, Zenon
<1>3. CASE MayRelease(session, o)
  <2> DEFINE t == ReleaseWorkerHandle(session, o)
             r == [rel EXCEPT ![o] = "waiting"]
  <2>1. Turn(t, call, r, task, fromWorker) /\ session.offer[o] = "offered"
    BY <1>3, Zenon DEF TakeRelease, MayRelease
  <2>2. Keeps(session, t) /\ CallsNot(session, t) /\ t.news = session.news /\ t.host = session.host
    BY <1>2, <2>1, ReleaseKeeps, Zenon
  <2>3. r \in [OfferIds -> RelStates] /\ AckedBacked(r, know)
    <3>1. "waiting" \in RelStates /\ "waiting" # "acked"
      BY DEF RelStates
    <3> QED BY <3>1, RelSet, Zenon
  <2> HIDE DEF t, r
  <2> QED BY <1>1, <1>2, <2>1, <2>2, <2>3, PlainArm, Zenon
<1>4. CASE ~MayRelease(session, o)
  <2> DEFINE r == [rel EXCEPT ![o] = "refused"]
  <2>1. Turn(session, call, r, task, fromWorker)
    BY <1>4, Zenon DEF TakeRelease
  <2>2. r \in [OfferIds -> RelStates] /\ AckedBacked(r, know)
    <3>1. "refused" \in RelStates /\ "refused" # "acked"
      BY DEF RelStates
    <3> QED BY <3>1, RelSet, Zenon
  <2> HIDE DEF r
  <2> QED BY <1>1, <1>2, <2>1, <2>2, KeepsItself, PlainArm, Zenon
<1> QED BY <1>3, <1>4

\* The other arms: a cancel, a caller that is gone, a handle minted, an answer to the worker.
LEMMA OtherArmsKeep ==
  ASSUME ProcessInv,
         \/ \E c \in HostIds : TakeCancel(c) \/ RetireDropped(c)
         \/ \E w \in WorkerIds :
               \/ SpillReply(w)
               \/ \E ok \in BOOLEAN : Reply(w, ok)
               \/ \E h \in HandleIds : AcquireCapability(w, h)
  PROVE  ProcessInv'
<1>1. pump = "loop"
  BY Zenon DEF TakeCancel, RetireDropped, SpillReply, Reply, AcquireCapability, Turn
<1>2. /\ session \in Sessions /\ Unsent(call, toWorker, know) /\ call \in [HostIds -> CallStates]
      /\ rel \in [OfferIds -> RelStates] /\ AckedBacked(rel, know)
  BY <1>1, Running, Zenon
<1>3. ASSUME NEW t, NEW u, Keeps(session, t) /\ CallsNot(session, t) /\ t.news = session.news /\ t.host = session.host,
             Turn(t, call, rel, u, fromWorker)
      PROVE  ProcessInv'
  BY <1>1, <1>2, <1>3, PlainArm, Zenon
<1>4. ASSUME NEW c \in HostIds, TakeCancel(c) PROVE ProcessInv'
  <2>1. Turn(Cancel(session, c), call, rel, task, fromWorker)
    BY <1>4, Zenon DEF TakeCancel
  <2> QED BY <1>2, <1>3, <2>1, CancelKeeps, Zenon
<1>5. ASSUME NEW c \in HostIds, RetireDropped(c) PROVE ProcessInv'
  <2> DEFINE k == [call EXCEPT ![c] = "dropped"]
             t == Cancel(session, c)
  <2>1. Turn(t, k, rel, task, fromWorker)
    BY <1>5, Zenon DEF RetireDropped
  <2>2. /\ k \in [HostIds -> CallStates] /\ Unsent(k, toWorker, know)
        /\ \A x \in HostIds : k[x] = IF x = c THEN "dropped" ELSE call[x]
    <3>1. "dropped" \in CallStates
      BY DEF CallStates
    <3> QED BY <3>1, CallerSet, Zenon
  <2>3. Keeps(session, t) /\ CallsNot(session, t) /\ t.news = session.news /\ t.host = session.host
    BY <1>2, CancelKeeps, Zenon
  <2> HIDE DEF k, t
  <2>4. \A x \in HostIds : k[x] = "waiting" => call[x] = "waiting"
    BY <2>2
  <2> QED BY <1>1, <1>2, <2>1, <2>2, <2>3, <2>4, PlainArm, Zenon
<1>6. ASSUME NEW w \in WorkerIds, NEW h \in HandleIds, AcquireCapability(w, h) PROVE ProcessInv'
  <2>1. Turn(Minted(session, w, h), call, rel, task, fromWorker) /\ session.handle[h] = "fresh"
    BY <1>6, Zenon DEF AcquireCapability
  <2> QED BY <1>2, <1>3, <2>1, MintKeeps, Zenon
<1>7. ASSUME NEW w \in WorkerIds, NEW ok \in BOOLEAN, NEW u,
             Turn(ReplyToWorker(session, w, ok), call, rel, u, fromWorker)
      PROVE  ProcessInv'
  BY <1>2, <1>3, <1>7, ReplyKeeps, Zenon
<1>8. ASSUME NEW w \in WorkerIds, NEW ok \in BOOLEAN, Reply(w, ok) PROVE ProcessInv'
  BY <1>7, <1>8, Zenon DEF Reply
<1>9. ASSUME NEW w \in WorkerIds, SpillReply(w) PROVE ProcessInv'
  <2>1. CASE MayMint(session, w)
    <3>1. PICK h \in Where(session.handle, "fresh") :
             Turn(ReplyToWorker(Minted(session, w, h), w, TRUE), call, rel, [task EXCEPT ![w] = "done"], fromWorker)
      BY <1>9, <2>1, ZenonT(30) DEF SpillReply
    <3> DEFINE a == Minted(session, w, h)
               t == ReplyToWorker(a, w, TRUE)
    <3>2. h \in HandleIds /\ session.handle[h] = "fresh"
      BY <1>2, Fields, Zenon DEF Where
    <3>3. Keeps(session, a) /\ CallsNot(session, a) /\ a.news = session.news /\ a.host = session.host
      BY <1>2, <3>2, MintKeeps, Zenon
    <3> HIDE DEF a
    <3>4. a \in Sessions
      BY <3>3, Zenon DEF Keeps
    <3>5. Keeps(a, t) /\ CallsNot(a, t) /\ t.news = a.news /\ t.host = a.host
      BY <3>4, ReplyKeeps, Zenon
    <3> HIDE DEF t
    <3>6. Keeps(session, t)
      BY <1>2, <3>3, <3>5, KeepsTwice, Zenon
    <3>7. CallsNot(session, t) /\ t.news = session.news /\ t.host = session.host
      BY <3>3, <3>5, Zenon DEF CallsNot
    <3> QED BY <1>3, <3>1, <3>6, <3>7, Zenon DEF a, t
  <2>2. CASE ~MayMint(session, w)
    <3>1. Turn(ReplyToWorker(session, w, FALSE), call, rel, [task EXCEPT ![w] = "done"], fromWorker)
      BY <1>9, <2>2, Zenon DEF SpillReply
    <3> QED BY <1>7, <3>1, Zenon
  <2> QED BY <2>1, <2>2
<1> QED BY <1>4, <1>5, <1>6, <1>8, <1>9, ZenonT(30)

\* The end of the session: nobody waits for it any more.
LEMMA EndSessionKeeps ==
  ASSUME ProcessInv, EndSession
  PROVE  ProcessInv'
<1> DEFINE e == InputEnded(session, fromWorker)
           z == [SessionAfter(e, task) EXCEPT !.out = <<>>]
<1>1. /\ pump = "exiting" /\ pump' = "reaping" /\ call' = CallsAfter(e, call) /\ rel' = Lost(RelsAfter(e, rel))
      /\ session' = z /\ CloseOn(e) /\ fromWorker' = <<>>
      /\ resource' = resource /\ child' = child /\ know' = know /\ faulty' = faulty
  BY Zenon DEF EndSession, workerVars
<1>2. PICK n \in 0..Len(toWorker) : toWorker' = SubSeq(toWorker, 1, n)
  BY Zenon DEF EndSession
<1>3. /\ session \in Sessions /\ session.news = {} /\ session.out = <<>> /\ NoOpen(session)
      /\ fromWorker \in Seq(Frames) /\ Sent(know, fromWorker) /\ know \in Knowledge
      /\ Waits(session, call)
  BY Zenon DEF ProcessInv, ProcessTypes, Waits
<1>4. BackedNews(session, know)
  BY <1>3, Zenon DEF BackedNews, Told
<1>5. e \in Sessions /\ e.phase = "closed" /\ NoOpen(e) /\ Waits(e, call) /\ BackedNews(e, know)
  BY <1>3, <1>4, Drained, Zenon
<1> HIDE DEF e
<1>6. Keeps(e, z) /\ z.host = e.host /\ z.out = <<>> /\ z.news = {}
  BY <1>5, AfterKeeps, Zenon
<1> HIDE DEF z
<1>7. z \in Sessions /\ z.phase = "closed"
  BY <1>5, <1>6, Zenon DEF Keeps
<1>8. CallersMoved(e, call, call', know)
  BY <1>1, <1>5, Standing, CallersMove, Zenon
<1>9. /\ rel' \in [OfferIds -> RelStates] /\ AckedBacked(rel', know)
      /\ \A o \in OfferIds : rel'[o] # "waiting"
  <2> DEFINE y == RelsAfter(e, rel)
  <2>1. y \in [OfferIds -> RelStates] /\ AckedBacked(y, know)
    BY <1>5, Standing, RelsMove, Zenon
  <2> HIDE DEF y
  <2>2. rel' = Lost(y)
    BY <1>1, Zenon DEF y
  <2> QED BY <2>1, <2>2, LostEnds, Zenon
<1>10. toWorker' \in Seq(Messages) /\ \A m \in Range(toWorker') : m \in Range(toWorker)
  BY <1>2, Standing, Cuts, Zenon
<1>11. Unsent(call', toWorker', know)
  <2>1. Unsent(call, toWorker, know)
    BY Standing, Zenon
  <2> QED BY <1>8, <1>10, <2>1, UnsentMoves, Zenon
<1>12. \A c \in HostIds : call'[c] # "waiting"
  BY <1>5, <1>8, Zenon DEF CallersMoved, NoOpen
<1>13. summary' = summary /\ summary # "open"
  <2>1. summary # "open"
    BY <1>1, Standing DEF Stages
  <2> QED BY <1>1, <2>1, Zenon DEF CloseOn, SetClosed
<1>14. SummaryIsJust'
  BY <1>1, <1>13, Standing, Zenon DEF SummaryIsJust
<1>15. Stages'
  <2>1. resource # "none" /\ resource # "released"
    BY <1>1, Standing DEF Stages
  <2>2. session'.phase = "closed"
    BY <1>1, <1>7, Zenon
  <2> QED BY <1>1, <1>9, <1>12, <1>13, <2>1, <2>2, Zenon DEF Stages
<1>16. ProcessTypes'
  <2>1. call' \in [HostIds -> CallStates]
    BY <1>8, Zenon DEF CallersMoved
  <2>2. fromWorker' \in Seq(Frames)
    BY <1>1
  <2> QED BY <1>1, <1>3, <1>6, <1>7, <1>9, <1>10, <2>1, <2>2, Zenon DEF ProcessTypes
<1>17. NoOpen(session')
  BY <1>1, <1>5, <1>6, <1>7, Zenon DEF NoOpen
<1>18. Sent(know', fromWorker')
  BY <1>1 DEF Sent
<1>19. AckedBacked(rel', know') /\ Unsent(call', toWorker', know')
  BY <1>1, <1>9, <1>11, Zenon
<1>20. pump' \notin {"none", "loop"}
  BY <1>1, Zenon
<1> QED BY <1>12, <1>14, <1>15, <1>16, <1>17, <1>18, <1>19, <1>20, Zenon DEF ProcessInv, AckedBacked

-----------------------------------------------------------------------------
(* The theorems *)

\* Nothing is spawned, and nobody has asked for anything.
LEMMA ProcessStarts == ProcessInit => ProcessInv
<1> SUFFICES ASSUME ProcessInit PROVE ProcessInv
  BY Zenon
<1>1. /\ session = NewSession /\ call = [c \in HostIds |-> "idle"] /\ rel = [o \in OfferIds |-> "idle"]
      /\ toWorker = <<>> /\ fromWorker = <<>> /\ resource = "none" /\ pump = "none" /\ summary = "open"
      /\ know = [hello |-> FALSE, bye |-> FALSE, part |-> FALSE, sent |-> {}, got |-> {}, replied |-> {}, held |-> {},
                 returned |-> {}, offered |-> {}, asked |-> {}, acked |-> {}]
  BY Zenon DEF ProcessInit, InitDriver, InitPump, InitShared, InitWorker
<1>2. /\ session \in Sessions /\ session.out = <<>> /\ session.news = {} /\ session.phase = "hello"
      /\ \A c \in HostIds : session.host[c] = "fresh"
      /\ \A w \in WorkerIds : session.worker[w] = "fresh"
      /\ \A h \in HandleIds : session.handle[h] = "fresh"
      /\ \A o \in OfferIds : session.offer[o] = "fresh"
  <2>1. "hello" \in Phases /\ "fresh" \in HostStates /\ "fresh" \in WorkerStates /\ "fresh" \in HandleStates
        /\ "fresh" \in OfferStates /\ NoCall \in WorkerIds \cup {NoCall}
    BY DEF Phases, HostStates, WorkerStates, HandleStates, OfferStates
  <2>2. NewSession \in Sessions
    <3>1. [c \in HostIds |-> "fresh"] \in [HostIds -> HostStates]
      BY <2>1
    <3>2. [w \in WorkerIds |-> "fresh"] \in [WorkerIds -> WorkerStates]
      BY <2>1
    <3>3. [h \in HandleIds |-> "fresh"] \in [HandleIds -> HandleStates]
      BY <2>1
    <3>4. [h \in HandleIds |-> NoCall] \in [HandleIds -> WorkerIds \cup {NoCall}]
      BY <2>1
    <3>5. [o \in OfferIds |-> "fresh"] \in [OfferIds -> OfferStates]
      BY <2>1
    <3>6. <<>> \in Seq(Messages) /\ {} \in SUBSET News
      BY SMTT(30)
    <3> QED BY <2>1, <3>1, <3>2, <3>3, <3>4, <3>5, <3>6, Zenon DEF NewSession, Sessions
  <2>3. /\ session.out = <<>> /\ session.news = {} /\ session.phase = "hello"
        /\ session.host = [c \in HostIds |-> "fresh"] /\ session.worker = [w \in WorkerIds |-> "fresh"]
        /\ session.handle = [h \in HandleIds |-> "fresh"] /\ session.offer = [o \in OfferIds |-> "fresh"]
    BY <1>1, Zenon DEF NewSession
  <2> QED BY <1>1, <2>2, <2>3
<1>3. know \in Knowledge /\ know.got = {} /\ know.asked = {} /\ know.held = {} /\ ~know.hello
  BY <1>1, Zenon DEF Knowledge
<1>4. call \in [HostIds -> CallStates] /\ \A c \in HostIds : call[c] = "idle"
  BY <1>1 DEF CallStates
<1>5. rel \in [OfferIds -> RelStates] /\ \A o \in OfferIds : rel[o] = "idle"
  BY <1>1 DEF RelStates
<1>6. Range(toWorker) = {} /\ toWorker \in Seq(Messages) /\ fromWorker \in Seq(Frames)
  BY <1>1 DEF Range
<1>7. ProcessTypes
  BY <1>2, <1>3, <1>4, <1>5, <1>6, Zenon DEF ProcessTypes
<1>8. NoOpen(session) /\ Sent(know, fromWorker) /\ SummaryIsJust /\ Stages
  <2>1. NoOpen(session) /\ Sent(know, fromWorker)
    BY <1>1, <1>2, SMTT(30) DEF NoOpen, Sent
  <2>2. SummaryIsJust
    BY <1>1, Zenon DEF SummaryIsJust
  <2>3. Stages
    BY <1>1, <1>2, Zenon DEF Stages
  <2> QED BY <2>1, <2>2, <2>3, Zenon
<1>9. Unsent(call, toWorker, know)
  BY <1>3, <1>4, <1>6, Zenon DEF Unsent
<1>10. Conforms(session, know, toWorker, fromWorker)
  <2>1. Ties(session, know)
    BY <1>2, <1>3, Zenon DEF Ties
  <2>2. AllBacked(session, toWorker) /\ Ready(session, fromWorker, 0)
    BY <1>1, <1>6 DEF AllBacked, Ready
  <2> QED BY <1>1, <1>2, <1>3, <2>1, <2>2, ZenonT(30) DEF Conforms
<1> QED BY <1>4, <1>5, <1>7, <1>8, <1>9, <1>10, Zenon DEF ProcessInv

\* Every step of the process keeps the invariant.
LEMMA ProcessKeeps == ProcessInv /\ [ProcessNext]_processVars => ProcessInv'
<1> SUFFICES ASSUME ProcessInv, [ProcessNext]_processVars PROVE ProcessInv'
  OBVIOUS
<1>1. CASE PumpStep
  BY <1>1, ReadReadyKeeps, InputEndsKeeps, WriteFailsKeeps, TickKeeps, TakeCallKeeps, TakeReleaseKeeps,
     OtherArmsKeep, BeginGoodbyeKeeps, EndSessionKeeps, ReapKeeps, Zenon DEF PumpStep
<1>2. CASE \E f \in Frames : WorkerSends(f)
  BY <1>2, WorkerSendsKeeps, Zenon
<1>3. CASE WorkerReceives
  BY <1>3, WorkerReceivesKeeps, Zenon
<1>4. CASE \/ \E c \in HostIds : Submit(c)
           \/ \E o \in OfferIds : SubmitRelease(o)
           \/ \E w \in WorkerIds : Dispatch(w)
           \/ \E orderly \in BOOLEAN : Shutdown(orderly)
           \/ Boot \/ Release
           \/ UNCHANGED processVars
  BY <1>4, OthersKeep, Zenon
<1>5. CASE \E how \in {"hup", "dead"}, part \in BOOLEAN : WorkerLeaves(how, part)
  BY <1>5, WorkerLeavesKeeps, Zenon
<1> QED BY <1>1, <1>2, <1>3, <1>4, <1>5, Zenon DEF ProcessNext

\* The invariant that the theorems rest on: for a worker that keeps the protocol, the
\* session and the worker agree on every id, and each frame on its way finds the
\* session ready for it.
THEOREM ProcessSafety == ProcessSpec => []ProcessInv
BY ProcessStarts, ProcessKeeps, PTL DEF ProcessSpec

\* A caller that is told its call never ran is told the truth.
THEOREM HonestLossHolds == ProcessSpec => []HonestLoss
<1>1. ProcessInv => HonestLoss
  <2> SUFFICES ASSUME ProcessInv, NEW c \in HostIds, call[c] \in {"refused", "closed", "cancelled"}
               PROVE  c \notin know.got \/ know.bye
    BY Zenon DEF HonestLoss
  <2>1. Unsent(call, toWorker, know)
    BY Zenon DEF ProcessInv
  <2> QED BY <2>1, ZenonT(30) DEF Unsent
<1> QED BY <1>1, ProcessSafety, PTL

\* The close summary blames the right side.
THEOREM SummaryIsJustHolds == ProcessSpec => []SummaryIsJust
<1>1. ProcessInv => SummaryIsJust
  BY Zenon DEF ProcessInv
<1> QED BY <1>1, ProcessSafety, PTL

\* When the pump is gone or the worker released, the child is dead and nobody waits.
THEOREM NoWaiterLeftHolds == ProcessSpec => []NoWaiterLeft
<1>1. ProcessInv => NoWaiterLeft
  <2> SUFFICES ASSUME ProcessInv PROVE NoWaiterLeft
    BY Zenon
  <2>1. /\ resource = "released" => pump = "gone"
        /\ pump = "gone" =>
              /\ child = "dead"
              /\ \A c \in HostIds : call[c] # "waiting" /\ call[c] # "queued"
              /\ \A o \in OfferIds : rel[o] # "waiting" /\ rel[o] # "queued"
    BY Zenon DEF ProcessInv, Stages
  <2>2. \A o \in OfferIds : rel[o] = "acked" => o \in know.acked
    BY Zenon DEF ProcessInv
  <2> QED BY <2>1, <2>2 DEF NoWaiterLeft
<1> QED BY <1>1, ProcessSafety, PTL
=============================================================================
