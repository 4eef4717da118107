---------------------------- MODULE FrontProofs -----------------------------
(***************************************************************************)
(* What clients can do and learn, whatever the policies of the server.     *)
(* Pages: once a page's first request has left, its token and its cookies  *)
(* stay, so every request is the same one; an answer then tells by whom it *)
(* was given which checks that request passed, and the checks are worked   *)
(* out for the headers that browsers set.  Programs: each face adds to the *)
(* path of addresses the hop it saw, and the resolver reads that path from *)
(* its end, so what the client forwarded stays in front.  Errors: each     *)
(* stage refuses with codes of its own, and the HTTP faces say nothing of  *)
(* an error that they make a 500.  Faces: every face reads the same        *)
(* credentials and the same message, so the verdict on a request is a      *)
(* function of the request, and the two HTTP faces encode it alike.        *)
(* Authority: the tokens that name what is wanted are the ones the gates   *)
(* accept, the first requirement that is not met decides, and a request's  *)
(* one credential is what its caller is.                                   *)
(***************************************************************************)
EXTENDS Front, SequenceTheorems, FiniteSetTheorems, WellFoundedInduction, TLAPS

\* The checks that the page's request meets.
Passed == conf.csrf = <<>> \/ CSRFPasses(conf.csrf[1], Request)

\* The answer to the preflight that the browser sends for the page.
Preflight ==
  IF conf.cors = <<>> THEN [status |-> 405, marks |-> Unmarked]
  ELSE handlePreflight(conf.cors[1],
         [Request EXCEPT !.method = "OPTIONS", !.acrm = Page.method, !.acrh = Custom])

\* Whether the browser asks first, and whether it then lets the request go.
Asks == AsksFirst(Page, Custom)

Asked == Asks => Cleared([Page EXCEPT !.custom = Custom], Preflight)

\* What CORS marks on an answer to the page.
PageMarks == IF conf.cors = <<>> THEN Unmarked ELSE CORSMarks(conf.cors[1], Request)

\* Who answered tells which checks were passed.
Fits(a) ==
  /\ a.handled => a.by = "handler"
  /\ a.by = "browser" => ~Asked
  /\ a.by \notin {"none", "browser"} => Asked /\ a.marks = PageMarks
  /\ a.by = "csrf" => ~Passed
  /\ a.by \notin {"none", "browser", "csrf"} => Passed

\* The request inside the server, and on its way there and back.
Inside == {"routed", "called", "identified", "known", "allowed"}
Away   == {"asking", "sent", "answered"} \cup Inside

\* Where the page stands.
PageStands ==
  /\ face \in {<<"gateway", "extra">>, <<"extra">>, <<>>}
  /\ face = <<"gateway", "extra">> => \A f \in Faces : results[f] = NoAnswer
  /\ token # "" => Page.origin.host = Server.host
  /\ pc \in Away => req = Request /\ face # <<>>
  /\ pc = "asking" => Asks
  /\ pc \in {"sent"} \cup Inside => Asked
  /\ pc \in Inside => Passed
  /\ pc # "answered" => answer.by = "none" /\ ~answer.handled
  /\ pc = "answered" => Fits(answer)
  /\ \A f \in Faces : Fits(results[f])

\* The case is one of Case, and a page stands.
PageInv ==
  /\ \E x \in Case : Accepts(x.conf) /\ conf = x.conf /\ client = x.client
  /\ DOMAIN answer = DOMAIN NoAnswer /\ DOMAIN results = Faces
  /\ client.kind = "page" => PageStands

(***************************************************************************)
(* The headers of a page's request                                         *)
(***************************************************************************)

\* What is known of a page: its headers are the browser's, and CORS is sound.
LEMMA PageIsGiven ==
  ASSUME PageInv, client.kind = "page"
  PROVE  /\ DOMAIN client.headers = {}
         /\ Page \in [origin : [scheme : STRING, host : STRING] \ {NoOrigin, AnyOrigin},
                      shows : {"origin", "referer", "nothing"}, credentials : BOOLEAN,
                      method : STRING, custom : SUBSET STRING]
         /\ conf.cors # <<>> => CORSAccepts(conf.cors[1])
BY FrontAssumption DEF PageInv, Accepts, Page

\* The headers that the browser adds to a page's request.
LEMMA PageAdds ==
  ASSUME client.kind = "page"
  PROVE  /\ Added("origin") = IF Page.shows = "origin" THEN Given(Page.origin, NoOrigin) ELSE <<>>
         /\ Added("referer") = IF Page.shows = "referer" THEN Given(Page.origin, NoOrigin) ELSE <<>>
         /\ Added("x-csrf-token") = Given(token, "")
         /\ Added("cookie") = Given(IF Page.credentials \/ Page.origin = Server THEN jar ELSE NoCookies,
                                    NoCookies)
<1>1. \A v, absent : <<>> \o Given(v, absent) = Given(v, absent)
  BY DEF Given
<1>2. \A absent : Given(absent, absent) = <<>>
  BY DEF Given
<1>3. \A name \in {"origin", "referer", "x-csrf-token", "cookie"} :
        Added(name) = <<>> \o PageHeader(name)
  BY DEF Added, PathHeader, RealIPKey, ForwardedForKey
<1>4. PageHeader("origin") = Given(IF Page.shows = "origin" THEN Page.origin ELSE NoOrigin, NoOrigin)
  BY DEF PageHeader
<1>5. PageHeader("referer") = Given(IF Page.shows = "referer" THEN Page.origin ELSE NoOrigin, NoOrigin)
  BY DEF PageHeader
<1>6. PageHeader("x-csrf-token") = Given(token, "")
  BY DEF PageHeader
<1>7. PageHeader("cookie") = Given(IF Page.credentials \/ Page.origin = Server THEN jar ELSE NoCookies,
                                   NoCookies)
  BY DEF PageHeader
<1>8. \A name \in {"origin", "referer", "x-csrf-token", "cookie"} :
        \A v, absent : PageHeader(name) = Given(v, absent) => Added(name) = Given(v, absent)
  BY <1>1, <1>3
<1>9. <<>> = Given(NoOrigin, NoOrigin)
  BY <1>2
<1>10. /\ Added("origin") = IF Page.shows = "origin" THEN Given(Page.origin, NoOrigin) ELSE <<>>
       /\ Added("referer") = IF Page.shows = "referer" THEN Given(Page.origin, NoOrigin) ELSE <<>>
  BY <1>4, <1>5, <1>8, <1>9
<1>11. Added("x-csrf-token") = Given(token, "")
  BY <1>6, <1>8
<1>12. Added("cookie") = Given(IF Page.credentials \/ Page.origin = Server THEN jar ELSE NoCookies,
                               NoCookies)
  BY <1>7, <1>8
<1> QED
  BY <1>10, <1>11, <1>12

\* What the server finds in the request of a page.
LEMMA PageStates ==
  ASSUME PageInv, client.kind = "page"
  PROVE  /\ OriginOf(Request) = IF Page.shows = "origin" THEN Page.origin ELSE NoOrigin
         /\ First(Get(Request.headers, "referer"), NoOrigin)
              = IF Page.shows = "referer" THEN Page.origin ELSE NoOrigin
         /\ First(Get(Request.headers, "x-csrf-token"), "") = token
         /\ Get(Request.headers, "cookie")
              = Given(IF Page.credentials \/ Page.origin = Server THEN jar ELSE NoCookies, NoCookies)
         /\ Request.method = Page.method /\ Request.host = Server.host
<1>1. \A name \in {"origin", "referer", "x-csrf-token", "cookie"} :
        Get(Request.headers, name) = Added(name)
  BY PageIsGiven DEF Get, Request, AddedNames
<1>2. \A v, absent : First(Given(v, absent), absent) = v
  BY DEF First, Given
<1>3. First(<<>>, NoOrigin) = NoOrigin
  BY DEF First
<1>4. /\ OriginOf(Request) = First(Added("origin"), NoOrigin)
      /\ First(Get(Request.headers, "referer"), NoOrigin) = First(Added("referer"), NoOrigin)
      /\ First(Get(Request.headers, "x-csrf-token"), "") = First(Added("x-csrf-token"), "")
      /\ Get(Request.headers, "cookie") = Added("cookie")
  BY <1>1 DEF OriginOf
<1>5. Request.method = Page.method /\ Request.host = Server.host
  BY DEF Request
<1> QED
  BY <1>2, <1>3, <1>4, <1>5, PageAdds

\* The token in the cookie that the request carries.
LEMMA CookieSent ==
  ASSUME PageInv, client.kind = "page"
  PROVE  Cookie([cookies |-> Get(Request.headers, "cookie")], "csrf")
           = IF Page.credentials \/ Page.origin = Server THEN jar.csrf ELSE ""
<1>1. \A j : Cookie([cookies |-> <<j>>], "csrf") = j.csrf
  <2> TAKE j
  <2> DEFINE values == [i \in DOMAIN <<j>> |-> <<j>>[i]["csrf"]]
             others == {i \in DOMAIN values : values[i] # ""}
  <2>1. DOMAIN values = {1} /\ values[1] = j.csrf
    OBVIOUS
  <2>2. Cookie([cookies |-> <<j>>], "csrf") = FirstBut("", values)
    BY DEF Cookie
  <2> HIDE DEF values
  <2>3. CASE j.csrf = ""
    BY <2>1, <2>2, <2>3 DEF FirstBut
  <2>4. CASE j.csrf # ""
    <3>1. others = {1}
      BY <2>1, <2>4
    <3>2. (CHOOSE i \in {1} : \A k \in {1} : i <= k) = 1
      OBVIOUS
    <3> QED
      BY <2>1, <2>2, <2>4, <3>1, <3>2 DEF FirstBut
  <2> QED
    BY <2>3, <2>4
<1>2. Cookie([cookies |-> <<>>], "csrf") = ""
  BY DEF Cookie, FirstBut
<1>3. CASE Page.credentials \/ Page.origin = Server
  <2>1. Get(Request.headers, "cookie") = Given(jar, NoCookies)
    BY <1>3, PageStates
  <2>2. CASE jar = NoCookies
    BY <1>2, <1>3, <2>1, <2>2 DEF Given, NoCookies
  <2>3. CASE jar # NoCookies
    BY <1>1, <1>3, <2>1, <2>3 DEF Given
  <2> QED
    BY <2>2, <2>3
<1>4. CASE ~(Page.credentials \/ Page.origin = Server)
  <2>1. Get(Request.headers, "cookie") = <<>>
    BY <1>4, PageStates DEF Given
  <2> QED
    BY <1>2, <1>4, <2>1
<1> QED
  BY <1>3, <1>4

(***************************************************************************)
(* CORS                                                                    *)
(***************************************************************************)

\* The marks of an answer show a page what its own origin and cookies allow.
LEMMA MarksShow ==
  ASSUME PageInv, client.kind = "page", Page.origin # Server,
         conf.cors # <<>>, Page.shows = "origin"
  PROVE  Shown(Page, PageMarks)
           <=> /\ \E o \in conf.cors[1].origins : o.origin \in {AnyOrigin, Page.origin}
               /\ Page.credentials => conf.cors[1].credentials
<1> DEFINE c == conf.cors[1]
<1>1. OriginOf(Request) = Page.origin /\ Page.origin \notin {NoOrigin, AnyOrigin}
  BY PageStates, PageIsGiven
<1>2. corsOriginAllowed(c, Page.origin)
        <=> \E o \in c.origins : o.origin \in {AnyOrigin, Page.origin}
  BY DEF corsOriginAllowed, normalize
<1>3. CASE corsOriginAllowed(c, Page.origin)
  <2>1. PageMarks = setCommonHeaders(c, Page.origin)
    BY <1>1, <1>3 DEF PageMarks, CORSMarks
  <2>2. CASE AnyOrigin \in normalize(c).origins /\ ~c.credentials
    <3>1. PageMarks.origin = AnyOrigin /\ PageMarks.credentials = c.credentials
      BY <2>1, <2>2 DEF setCommonHeaders, Unmarked
    <3> QED
      BY <1>1, <1>2, <1>3, <2>2, <3>1 DEF Shown
  <2>3. CASE ~(AnyOrigin \in normalize(c).origins /\ ~c.credentials)
    <3>1. PageMarks.origin = Page.origin /\ PageMarks.credentials = c.credentials
      BY <2>1, <2>3 DEF setCommonHeaders, Unmarked
    <3> QED
      BY <1>1, <1>2, <1>3, <3>1 DEF Shown
  <2> QED
    BY <2>2, <2>3
<1>4. CASE ~corsOriginAllowed(c, Page.origin)
  <2>1. PageMarks.origin = NoOrigin
    BY <1>1, <1>4 DEF PageMarks, CORSMarks, Unmarked
  <2> QED
    BY <1>1, <1>2, <1>4, <2>1, FrontAssumption DEF Shown
<1> QED
  BY <1>3, <1>4

\* Where answers may be shown, a preflight looks at method and headers.
LEMMA PreflightClears ==
  ASSUME PageInv, client.kind = "page", Page.origin # Server,
         conf.cors # <<>>, Page.shows = "origin", Shown(Page, PageMarks)
  PROVE  Cleared([Page EXCEPT !.custom = Custom], Preflight)
           <=> /\ Page.method \in normalize(conf.cors[1]).methods
               /\ Custom \subseteq normalize(conf.cors[1]).headers
<1> DEFINE c    == conf.cors[1]
           pre  == [Request EXCEPT !.method = "OPTIONS", !.acrm = Page.method, !.acrh = Custom]
           page == [Page EXCEPT !.custom = Custom]
<1>1. /\ OriginOf(pre) = Page.origin /\ pre.acrm = Page.method /\ pre.acrh = Custom
  <2>1. pre.headers = Request.headers /\ pre.acrm = Page.method /\ pre.acrh = Custom
    BY DEF Request
  <2>2. OriginOf(pre) = OriginOf(Request)
    BY <2>1 DEF OriginOf
  <2> QED
    BY <2>1, <2>2, PageStates
<1>2. /\ page.origin = Page.origin /\ page.credentials = Page.credentials
      /\ page.method = Page.method /\ page.custom = Custom
  BY PageIsGiven
<1>3. Preflight = handlePreflight(c, pre)
  BY DEF Preflight
<1>4. corsOriginAllowed(c, Page.origin)
  BY MarksShow DEF corsOriginAllowed, normalize
<1>5. PageMarks = setCommonHeaders(c, Page.origin)
  BY <1>4, PageStates, PageIsGiven DEF PageMarks, CORSMarks
<1> HIDE DEF pre, page
<1>6. CASE Page.method \in normalize(c).methods /\ Custom \subseteq normalize(c).headers
  <2>1. Preflight = [status |-> 204,
                     marks  |-> [setCommonHeaders(c, Page.origin) EXCEPT
                                   !.methods = normalize(c).methods, !.headers = normalize(c).headers]]
    BY <1>1, <1>3, <1>4, <1>6 DEF handlePreflight
  <2>2. /\ Preflight.status = 204
        /\ Preflight.marks.origin = PageMarks.origin
        /\ Preflight.marks.credentials = PageMarks.credentials
        /\ Preflight.marks.methods = normalize(c).methods
        /\ Preflight.marks.headers = normalize(c).headers
    BY <1>5, <2>1 DEF setCommonHeaders, Unmarked
  <2>3. Shown(page, Preflight.marks)
    BY <1>2, <2>2 DEF Shown
  <2> QED
    BY <1>2, <1>6, <2>2, <2>3 DEF Cleared, page
<1>7. CASE ~(Page.method \in normalize(c).methods /\ Custom \subseteq normalize(c).headers)
  <2>1. Preflight.status = 403
    BY <1>1, <1>3, <1>7 DEF handlePreflight
  <2> QED
    BY <1>7, <2>1 DEF Cleared
<1> QED
  BY <1>6, <1>7

\* What the browser shows a page is what it may read.
LEMMA ReadingMeans ==
  ASSUME PageInv, client.kind = "page"
  PROVE  Asked /\ Shown(Page, PageMarks) <=> MayRead
<1>1. CASE Page.origin = Server
  BY <1>1 DEF Asked, Asks, AsksFirst, Shown, MayRead
<1>2. CASE Page.origin # Server /\ conf.cors # <<>> /\ Page.shows = "origin"
  <2>1. MayRead <=> /\ Shown(Page, PageMarks)
                    /\ Asks => /\ Page.method \in normalize(conf.cors[1]).methods
                               /\ Custom \subseteq normalize(conf.cors[1]).headers
    BY <1>2, MarksShow DEF MayRead, Asks
  <2> QED
    BY <1>2, <2>1, PreflightClears DEF Asked
<1>3. CASE Page.origin # Server /\ ~(conf.cors # <<>> /\ Page.shows = "origin")
  <2>1. PageMarks.origin = NoOrigin
    <3>1. CASE conf.cors = <<>>
      BY <3>1 DEF PageMarks, Unmarked
    <3>2. CASE conf.cors # <<>> /\ Page.shows # "origin"
      <4>1. OriginOf(Request) = NoOrigin
        BY <3>2, PageStates
      <4> QED
        BY <3>2, <4>1 DEF PageMarks, CORSMarks, Unmarked
    <3> QED
      BY <1>3, <3>1, <3>2
  <2>2. ~Shown(Page, PageMarks)
    BY <1>3, <2>1, PageIsGiven, FrontAssumption DEF Shown
  <2> QED
    BY <1>3, <2>2 DEF MayRead
<1> QED
  BY <1>1, <1>2, <1>3

(***************************************************************************)
(* CSRF                                                                    *)
(***************************************************************************)

\* An unsafe request of a page passes CSRF only with the latest token and from
\* an accepted origin, and then it does if it carries its cookies.
LEMMA PassingMeans ==
  ASSUME PageInv, client.kind = "page", Guarded
  PROVE  /\ Passed => Current /\ Accepted
         /\ Current /\ Accepted /\ (Page.credentials \/ Page.origin = Server) => Passed
<1> DEFINE c == conf.csrf[1]
           stated == IF OriginOf(Request) # NoOrigin THEN OriginOf(Request)
                     ELSE First(Get(Request.headers, "referer"), NoOrigin)
<1>1. Passed <=> csrfOriginAllowed(c, Request) /\ tokenMatches(Request)
  <2>1. Request.method \notin SafeMethods
    BY PageStates DEF Guarded
  <2> QED
    BY <2>1 DEF Passed, CSRFPasses, Guarded
<1>2. tokenMatches(Request)
        <=> (Page.credentials \/ Page.origin = Server) /\ jar.csrf # "" /\ token = jar.csrf
  BY PageStates, CookieSent DEF tokenMatches
<1>3. stated = IF Page.shows = "nothing" THEN NoOrigin ELSE Page.origin
  BY PageStates, PageIsGiven
<1>4. csrfOriginAllowed(c, Request)
        <=> IF c.origins = {} THEN stated = NoOrigin \/ stated.host = Server.host
            ELSE stated # NoOrigin /\ stated \in {o.origin : o \in c.origins}
  BY PageStates DEF csrfOriginAllowed
<1> HIDE DEF stated
<1>5. Page.origin # NoOrigin
  BY PageIsGiven
<1>6. Accepted <=> c.origins = {} \/ (stated # NoOrigin /\ stated \in {o.origin : o \in c.origins})
  BY <1>3, <1>5 DEF Accepted
<1>7. token # "" => Page.origin.host = Server.host
  BY DEF PageInv, PageStands
<1>8. Current <=> token # "" /\ token = jar.csrf
  BY <1>7 DEF Current
<1>9. Current /\ c.origins = {} => csrfOriginAllowed(c, Request)
  BY <1>3, <1>4 DEF Current
<1> QED
  BY <1>1, <1>2, <1>4, <1>6, <1>8, <1>9

(***************************************************************************)
(* Steps                                                                   *)
(***************************************************************************)

\* The request of a page stands while its token and its cookies do.
LEMMA RequestStands ==
  ASSUME UNCHANGED <<conf, client, jar, token>>
  PROVE  /\ Request' = Request /\ PageMarks' = PageMarks
         /\ Asks' = Asks /\ Asked' = Asked /\ Passed' = Passed
         /\ Page' = Page
<1>1. Page' = Page /\ Custom' = Custom
  BY DEF Page, Custom
<1>2. \A name : PageHeader(name)' = PageHeader(name)
  BY <1>1 DEF PageHeader, Given
<1>3. \A name : PathHeader(name)' = PathHeader(name)
  BY DEF PathHeader, Given
<1>4. \A name : Added(name)' = Added(name)
  BY <1>2, <1>3 DEF Added
<1>5. AddedNames' = AddedNames
  BY <1>4 DEF AddedNames
<1>6. Request' = Request
  BY <1>1, <1>4, <1>5 DEF Request
<1>7. Preflight' = Preflight /\ PageMarks' = PageMarks
  BY <1>1, <1>6 DEF Preflight, PageMarks
<1>8. Asks' = Asks
  BY <1>1 DEF Asks
<1>9. Asked' = Asked
  BY <1>1, <1>7, <1>8 DEF Asked
<1>10. Passed' = Passed
  BY <1>6 DEF Passed
<1> QED
  BY <1>1, <1>6, <1>7, <1>8, <1>9, <1>10

\* A step of a request that is on its way keeps the invariant if it leaves the
\* page and the results alone and does what the checks say.
LEMMA OnItsWay ==
  ASSUME PageInv, UNCHANGED <<conf, client, jar, token, face, results>>,
         DOMAIN answer' = DOMAIN NoAnswer,
         client.kind = "page" =>
           /\ face # <<>> /\ pc' \in Away /\ req' = Request
           /\ pc' = "asking" => Asks
           /\ pc' \in {"sent"} \cup Inside => Asked
           /\ pc' \in Inside => Passed
           /\ pc' # "answered" => answer'.by = "none" /\ ~answer'.handled
           /\ \A a : pc' = "answered" /\ a = answer' => Fits(a)
  PROVE  PageInv'
<1>1. /\ Request' = Request /\ PageMarks' = PageMarks
      /\ Asks' = Asks /\ Asked' = Asked /\ Passed' = Passed /\ Page' = Page
  BY RequestStands
<1>2. ASSUME client.kind = "page" PROVE PageStands'
  <2>1. PageStands
    BY <1>2 DEF PageInv
  <2>2. /\ (face \in {<<"gateway", "extra">>, <<"extra">>, <<>>})'
        /\ (face = <<"gateway", "extra">> => \A f \in Faces : results[f] = NoAnswer)'
    BY <2>1 DEF PageStands
  <2>3. (token # "" => Page.origin.host = Server.host)'
    BY <1>1, <2>1 DEF PageStands
  <2>4. (pc \in Away => req = Request /\ face # <<>>)'
    BY <1>1, <1>2
  <2>5. /\ (pc = "asking" => Asks)'
        /\ (pc \in {"sent"} \cup Inside => Asked)'
        /\ (pc \in Inside => Passed)'
    BY <1>1, <1>2 DEF Inside
  <2>6. (pc # "answered" => answer.by = "none" /\ ~answer.handled)'
    BY <1>2
  <2>7. (pc = "answered" => Fits(answer))'
    BY <1>1, <1>2 DEF Fits
  <2>8. (\A f \in Faces : Fits(results[f]))'
    BY <1>1, <2>1 DEF PageStands, Fits, Faces
  <2> QED
    BY <2>2, <2>3, <2>4, <2>5, <2>6, <2>7, <2>8 DEF PageStands
<1> QED
  BY <1>2 DEF PageInv, NoAnswer, Faces

\* A page asks the gateway, and then the extra route.
LEMMA FacesOfPages ==
  ASSUME PageStands
  PROVE  /\ face # <<>> => face[1] \in {"gateway", "extra"}
         /\ Len(face) = 2 => face = <<"gateway", "extra">>
<1>1. face \in {<<"gateway", "extra">>, <<"extra">>, <<>>}
  BY DEF PageStands
<1>2. CASE face = <<"gateway", "extra">>
  BY <1>2
<1>3. CASE face = <<"extra">>
  BY <1>3
<1>4. CASE face = <<>>
  BY <1>4
<1> QED
  BY <1>1, <1>2, <1>3, <1>4

\* What is known of a request that an action of the server works on.
LEMMA AtTheServer ==
  ASSUME PageInv, client.kind = "page", pc \in Away
  PROVE  /\ req = Request /\ face # <<>> /\ face[1] \in {"gateway", "extra"}
         /\ pc # "answered" => answer.by = "none" /\ ~answer.handled
         /\ Marks = PageMarks
<1>1. PageStands
  BY DEF PageInv
<1>2. req = Request /\ face # <<>>
  BY <1>1 DEF PageStands
<1>3. face[1] \in {"gateway", "extra"}
  BY <1>1, <1>2, FacesOfPages
<1>4. pc # "answered" => answer.by = "none" /\ ~answer.handled
  BY <1>1 DEF PageStands
<1>5. Marks = PageMarks
  BY <1>2, <1>3 DEF Marks, PageMarks
<1> QED
  BY <1>2, <1>3, <1>4, <1>5

\* Whoever answers a request that is past the middlewares, and what.
LEMMA AnswerKeeps ==
  ASSUME PageInv, pc \in Inside, UNCHANGED <<conf, client, jar, token, face, results, req>>,
         NEW by \in {"authn", "authz", "handler"}, NEW err, Answer(by, err)
  PROVE  PageInv'
<1>1. DOMAIN answer' = DOMAIN answer
  BY DEF Answer
<1>2. DOMAIN answer = DOMAIN NoAnswer
  BY DEF PageInv
<1>3. pc' = "answered"
  BY DEF Answer, To
<1>4. answer'.by = by /\ answer'.handled = (by = "handler") /\ answer'.marks = Marks
  BY <1>2 DEF Answer, NoAnswer
<1>5. ASSUME client.kind = "page", NEW a, a = answer'
      PROVE  Fits(a)
  <2>1. Asked /\ Passed
    BY <1>5 DEF PageInv, PageStands
  <2>2. Marks = PageMarks
    BY <1>5, AtTheServer DEF Away
  <2> QED
    BY <1>4, <1>5, <2>1, <2>2 DEF Fits
<1>6. client.kind = "page" => req' = Request /\ face # <<>>
  BY AtTheServer DEF Away
<1> QED
  BY <1>1, <1>2, <1>3, <1>5, <1>6, OnItsWay DEF Away, Inside

\* The page's first request and what it reads of the answer.
LEMMA BrowsingKeeps ==
  ASSUME PageInv, Issue \/ ReadToken
  PROVE  PageInv'
<1>1. /\ pc = "idle" /\ pc' = pc /\ client.kind = "page" /\ Len(face) = 2
      /\ UNCHANGED <<conf, client, face, req, answer, results>>
  BY DEF Issue, ReadToken, Browsing
<1>2. PageStands
  BY <1>1 DEF PageInv
<1>3. face = <<"gateway", "extra">> /\ \A f \in Faces : results[f] = NoAnswer
  <2>1. face = <<"gateway", "extra">>
    BY <1>1, <1>2, FacesOfPages
  <2> QED
    BY <1>2, <2>1 DEF PageStands
<1>4. token' # "" => Page.origin.host = Server.host
  BY <1>2 DEF Issue, ReadToken, PageStands
<1>5. \A f \in Faces : results'[f].by = "none" /\ ~results'[f].handled
  <2>1. NoAnswer.by = "none" /\ ~NoAnswer.handled
    BY DEF NoAnswer
  <2> QED
    BY <1>1, <1>3, <2>1
<1>6. (\A f \in Faces : Fits(results[f]))'
  BY <1>5 DEF Fits, Faces
<1>7. Page' = Page
  BY <1>1 DEF Page
<1>8. PageStands'
  BY <1>1, <1>2, <1>3, <1>4, <1>6, <1>7 DEF PageStands, Away, Inside, Faces, NoAnswer
<1> QED
  BY <1>1, <1>8 DEF PageInv, NoAnswer, Faces

\* The departure of a request, and the preflight before it.
LEMMA ClientKeeps ==
  ASSUME PageInv, Depart \/ Ask
  PROVE  PageInv'
<1>1. CASE Depart
  <2>1. /\ UNCHANGED <<conf, client, jar, token, face, answer, results>>
        /\ pc = "idle" /\ face # <<>> /\ req' = Request
    BY <1>1 DEF Depart
  <2>2. DOMAIN answer' = DOMAIN NoAnswer
    BY <2>1 DEF PageInv
  <2>3. ASSUME client.kind = "page"
        PROVE  /\ pc' = IF Asks THEN "asking" ELSE "sent"
               /\ answer'.by = "none" /\ ~answer'.handled
    <3>1. PageStands
      BY <2>3 DEF PageInv
    <3>2. face[1] # "grpc" /\ answer.by = "none" /\ ~answer.handled
      <4>1. face[1] \in {"gateway", "extra"}
        BY <2>1, <3>1, FacesOfPages
      <4>2. answer.by = "none" /\ ~answer.handled
        BY <2>1, <3>1 DEF PageStands
      <4> QED
        BY <4>1, <4>2
    <3> QED
      BY <1>1, <2>1, <2>3, <3>2 DEF Depart, To, Asks
  <2> QED
    BY <2>1, <2>2, <2>3, OnItsWay DEF Asked, Away, Inside
<1>2. CASE Ask
  <2>1. /\ UNCHANGED <<conf, client, jar, token, face, req, results>>
        /\ pc = "asking"
    BY <1>2 DEF Ask
  <2>2. DOMAIN answer = DOMAIN NoAnswer
    BY DEF PageInv
  <2>3. DOMAIN answer' = DOMAIN NoAnswer
    BY <1>2, <2>2 DEF Ask, NoAnswer
  <2>4. ASSUME client.kind = "page"
        PROVE  /\ req' = Request /\ face # <<>>
               /\ \/ pc' = "sent" /\ Asked /\ answer' = answer
                  \/ pc' = "answered" /\ ~Asked /\ answer'.by = "browser" /\ ~answer'.handled
               /\ answer.by = "none" /\ ~answer.handled
    <3>1. /\ req = Request /\ face # <<>> /\ answer.by = "none" /\ ~answer.handled
      BY <2>1, <2>4, AtTheServer DEF Away
    <3>2. Asks
      BY <2>1, <2>4 DEF PageInv, PageStands
    <3>3. \/ /\ Cleared([Page EXCEPT !.custom = Custom], Preflight)
             /\ pc' = "sent" /\ answer' = answer
          \/ /\ ~Cleared([Page EXCEPT !.custom = Custom], Preflight)
             /\ pc' = "answered" /\ answer' = [NoAnswer EXCEPT !.by = "browser"]
      BY <1>2, <3>1 DEF Ask, Preflight, To
    <3>4. [NoAnswer EXCEPT !.by = "browser"].by = "browser" /\ ~[NoAnswer EXCEPT !.by = "browser"].handled
      BY DEF NoAnswer
    <3> QED
      BY <2>1, <3>1, <3>2, <3>3, <3>4 DEF Asked
  <2>5. \A a : client.kind = "page" /\ pc' = "answered" /\ a = answer' => Fits(a)
    BY <2>4 DEF Fits
  <2> QED
    BY <2>1, <2>3, <2>4, <2>5, OnItsWay DEF Away, Inside
<1> QED
  BY <1>1, <1>2

\* What the server does with a page's request.
LEMMA ServerKeeps ==
  ASSUME PageInv, Admit \/ Route \/ Identify \/ Authenticate \/ Authorize \/ Handle
  PROVE  PageInv'
<1>1. UNCHANGED <<conf, client, jar, token, face, req, results>>
  BY DEF Admit, Route, Identify, Authenticate, Authorize, Handle
<1>2. DOMAIN answer = DOMAIN NoAnswer
  BY DEF PageInv
<1>3. CASE Admit
  <2>1. pc = "sent"
    BY <1>3 DEF Admit
  <2>2. CASE conf.csrf = <<>> \/ CSRFPasses(conf.csrf[1], req)
    <3>1. pc' = "routed" /\ answer' = answer
      BY <1>3, <2>2 DEF Admit, To
    <3>2. ASSUME client.kind = "page"
          PROVE  /\ req' = Request /\ face # <<>> /\ Asked /\ Passed
                 /\ answer'.by = "none" /\ ~answer'.handled
      <4>1. req = Request /\ face # <<>> /\ answer.by = "none" /\ ~answer.handled
        BY <2>1, <3>2, AtTheServer DEF Away
      <4>2. Asked
        BY <2>1, <3>2 DEF PageInv, PageStands
      <4> QED
        BY <1>1, <2>2, <3>1, <4>1, <4>2 DEF Passed
    <3> QED
      BY <1>1, <1>2, <3>1, <3>2, OnItsWay DEF Away, Inside
  <2>3. CASE ~(conf.csrf = <<>> \/ CSRFPasses(conf.csrf[1], req))
    <3>1. /\ pc' = "answered"
          /\ answer' = [answer EXCEPT !.by = "csrf", !.status = 403, !.message = "csrf", !.marks = Marks]
      BY <1>3, <2>3 DEF Admit, To
    <3>2. DOMAIN answer' = DOMAIN NoAnswer
      BY <1>2, <3>1
    <3>3. answer'.by = "csrf" /\ answer'.marks = Marks /\ answer'.handled = answer.handled
      BY <1>2, <3>1 DEF NoAnswer
    <3>4. ASSUME client.kind = "page"
          PROVE  /\ req' = Request /\ face # <<>>
                 /\ \A a : a = answer' => Fits(a)
      <4>1. /\ req = Request /\ face # <<>> /\ answer.by = "none" /\ ~answer.handled
            /\ Marks = PageMarks
        BY <2>1, <3>4, AtTheServer DEF Away
      <4>2. Asked
        BY <2>1, <3>4 DEF PageInv, PageStands
      <4>3. ~Passed
        BY <2>3, <4>1 DEF Passed
      <4> QED
        BY <1>1, <3>3, <4>1, <4>2, <4>3 DEF Fits
    <3> QED
      BY <1>1, <3>1, <3>2, <3>4, OnItsWay DEF Away, Inside
  <2> QED
    BY <2>2, <2>3
<1>4. ASSUME pc \in Inside, pc' \in Inside, DOMAIN answer' = DOMAIN answer,
             answer'.by = answer.by, answer'.handled = answer.handled
      PROVE  PageInv'
  <2>1. ASSUME client.kind = "page"
        PROVE  /\ req' = Request /\ face # <<>> /\ Asked /\ Passed
               /\ answer'.by = "none" /\ ~answer'.handled
    <3>1. req = Request /\ face # <<>> /\ answer.by = "none" /\ ~answer.handled
      BY <1>4, <2>1, AtTheServer DEF Away, Inside
    <3>2. Asked /\ Passed
      BY <1>4, <2>1 DEF PageInv, PageStands
    <3> QED
      BY <1>1, <1>4, <3>1, <3>2
  <2>2. pc' \in Away /\ pc' \notin {"asking", "answered"}
    BY <1>4 DEF Away, Inside
  <2> QED
    BY <1>1, <1>2, <1>4, <2>1, <2>2, OnItsWay
<1>5. CASE Route
  <2>1. pc = "routed" /\ pc' = "called" /\ answer' = answer
    BY <1>5 DEF Route, To
  <2> QED
    BY <1>4, <2>1 DEF Inside
<1>6. CASE Identify
  <2>1. pc = "called" /\ pc' = "identified"
    BY <1>6 DEF Identify, To
  <2>2. DOMAIN answer' = DOMAIN answer /\ answer'.by = answer.by /\ answer'.handled = answer.handled
    BY <1>2, <1>6 DEF Identify, NoAnswer
  <2> QED
    BY <1>4, <2>1, <2>2 DEF Inside
<1>7. CASE Authenticate
  <2>1. pc = "identified"
    BY <1>7 DEF Authenticate
  <2>2. CASE pc' = "known" /\ answer' = answer
    BY <1>4, <2>1, <2>2 DEF Inside
  <2>3. CASE \E code : Refuse("authn", code)
    BY <1>1, <2>1, <2>3, AnswerKeeps DEF Refuse, Inside
  <2> QED
    BY <1>7, <2>2, <2>3 DEF Authenticate, To
<1>8. CASE Authorize
  <2>1. pc = "known"
    BY <1>8 DEF Authorize
  <2>2. CASE pc' = "allowed" /\ answer' = answer
    BY <1>4, <2>1, <2>2 DEF Inside
  <2>3. CASE \E code : Refuse("authz", code)
    BY <1>1, <2>1, <2>3, AnswerKeeps DEF Refuse, Inside
  <2> QED
    BY <1>8, <2>2, <2>3 DEF Authorize, To
<1>9. CASE Handle
  BY <1>1, <1>9, AnswerKeeps DEF Handle, Inside
<1> QED
  BY <1>3, <1>5, <1>6, <1>7, <1>8, <1>9

\* The answer arrives, and the next face is asked.
LEMMA FinishKeeps ==
  ASSUME PageInv, Finish
  PROVE  PageInv'
<1>1. /\ UNCHANGED <<conf, client, jar, token>> /\ pc = "answered" /\ pc' \in {"done", "idle"}
      /\ results' = [results EXCEPT ![face[1]] = answer] /\ face' = Tail(face) /\ answer' = NoAnswer
  BY DEF Finish, To
<1>2. DOMAIN results' = Faces
  BY <1>1 DEF PageInv
<1>3. ASSUME client.kind = "page" PROVE PageStands'
  <2>1. PageStands /\ face # <<>>
    BY <1>1, <1>3 DEF PageInv, PageStands, Away
  <2>2. face' \in {<<"extra">>, <<>>}
    <3>1. face \in {<<"gateway", "extra">>, <<"extra">>}
      BY <2>1 DEF PageStands
    <3>2. Tail(<<"gateway", "extra">>) = <<"extra">> /\ Tail(<<"extra">>) = <<>>
      OBVIOUS
    <3> QED
      BY <1>1, <3>1, <3>2
  <2>3. face' # <<"gateway", "extra">>
    BY <2>2
  <2>4. /\ Request' = Request /\ PageMarks' = PageMarks
        /\ Asked' = Asked /\ Passed' = Passed /\ Page' = Page
    BY <1>1, RequestStands
  <2>5. Fits(answer) /\ \A f \in Faces : Fits(results[f])
    BY <1>1, <2>1 DEF PageStands
  <2>6. \A f \in Faces : results'[f] = answer \/ results'[f] = results[f]
    BY <1>1 DEF PageInv
  <2>7. (\A f \in Faces : Fits(results[f]))'
    BY <2>4, <2>5, <2>6 DEF Fits, Faces
  <2>8. (token # "" => Page.origin.host = Server.host)'
    BY <1>1, <2>1, <2>4 DEF PageStands
  <2>9. answer'.by = "none" /\ ~answer'.handled
    BY <1>1 DEF NoAnswer
  <2>10. pc' \notin Away \cup {"answered"}
    BY <1>1 DEF Away, Inside
  <2>11. (/\ pc \in Away => req = Request /\ face # <<>>
          /\ pc = "asking" => Asks
          /\ pc \in {"sent"} \cup Inside => Asked
          /\ pc \in Inside => Passed
          /\ pc = "answered" => Fits(answer))'
    BY <2>10 DEF Away, Inside
  <2> QED
    BY <2>2, <2>3, <2>7, <2>8, <2>9, <2>11 DEF PageStands
<1> QED
  BY <1>1, <1>2, <1>3 DEF PageInv, NoAnswer, Faces

\* PageInv holds of the initial states.
LEMMA FrontStarts ==
  ASSUME Init
  PROVE  PageInv
<1>1. NoAnswer.by = "none" /\ ~NoAnswer.handled
  BY DEF NoAnswer
<1>2. DOMAIN answer = DOMAIN NoAnswer /\ DOMAIN results = Faces
  BY DEF Init
<1>3. answer = NoAnswer /\ \A f \in Faces : results[f] = NoAnswer
  BY DEF Init
<1>4. \A f \in Faces : Fits(results[f])
  BY <1>1, <1>3 DEF Fits
<1>5. client.kind = "page" => face = <<"gateway", "extra">>
  BY DEF Init
<1>6. pc = "idle" /\ token = ""
  BY DEF Init
<1>7. client.kind = "page" => PageStands
  BY <1>1, <1>3, <1>4, <1>5, <1>6 DEF PageStands, Away, Inside
<1>8. \E x \in Case : Accepts(x.conf) /\ conf = x.conf /\ client = x.client
  BY DEF Init
<1> QED
  BY <1>2, <1>7, <1>8 DEF PageInv

\* PageInv is inductive.
LEMMA FrontStepKeeps ==
  ASSUME PageInv, [Next]_vars
  PROVE  PageInv'
<1>1. CASE Next
  BY <1>1, BrowsingKeeps, ClientKeeps, ServerKeeps, FinishKeeps DEF Next
<1>2. CASE UNCHANGED vars
  <2>1. /\ Request' = Request /\ PageMarks' = PageMarks
        /\ Asks' = Asks /\ Asked' = Asked /\ Passed' = Passed /\ Page' = Page
    BY <1>2, RequestStands DEF vars
  <2>2. ASSUME client.kind = "page" PROVE PageStands'
    <3>1. PageStands
      BY <2>2 DEF PageInv
    <3>2. Fits(answer)' = Fits(answer)
      BY <1>2, <2>1 DEF Fits, vars
    <3>3. (\A f \in Faces : Fits(results[f]))' = (\A f \in Faces : Fits(results[f]))
      BY <1>2, <2>1 DEF Fits, vars, Faces
    <3> QED
      BY <1>2, <2>1, <3>1, <3>2, <3>3 DEF PageStands, vars, Away, Inside, Faces, NoAnswer
  <2> QED
    BY <1>2, <2>2 DEF PageInv, vars, Faces, NoAnswer
<1> QED
  BY <1>1, <1>2

(***************************************************************************)
(* What pages can do and read                                              *)
(***************************************************************************)

\* For any lists of CORS, any page and any answer of the server: the browser
\* shows the answer exactly to the pages that may read it.
THEOREM AnswersAreShownToWhomTheyMay == Spec => []PagesReadWhatTheyMay
<1>1. PageInv => PagesReadWhatTheyMay
  <2> SUFFICES ASSUME PageInv, client.kind = "page", NEW f \in Faces, Done(f)
               PROVE  (results[f].by # "browser" /\ Shown(Page, results[f].marks)) <=> MayRead
    BY DEF PagesReadWhatTheyMay
  <2>1. Fits(results[f]) /\ results[f].by # "none"
    BY DEF PageInv, PageStands, Done
  <2>2. Asked /\ Shown(Page, PageMarks) <=> MayRead
    BY ReadingMeans
  <2>3. CASE results[f].by = "browser"
    BY <2>1, <2>2, <2>3 DEF Fits
  <2>4. CASE results[f].by # "browser"
    BY <2>1, <2>2, <2>4 DEF Fits
  <2> QED
    BY <2>3, <2>4
<1> QED
  BY <1>1, FrontStarts, FrontStepKeeps, PTL DEF Spec

\* For any configuration of CSRF: no page of another host, and none without the
\* latest token, makes a handler run, and those that have both are let through.
THEOREM ForgeriesAreStopped == Spec => []ForeignPagesDoNotAct
<1>1. PageInv => ForeignPagesDoNotAct
  <2> SUFFICES ASSUME PageInv, Guarded, NEW f \in Faces
               PROVE  /\ results[f].handled => Current /\ Accepted
                      /\ results[f].by = "csrf" =>
                           ~(Current /\ Accepted /\ (Page.credentials \/ Page.origin = Server))
    BY DEF ForeignPagesDoNotAct
  <2>1. client.kind = "page"
    BY DEF Guarded
  <2>2. Fits(results[f])
    BY <2>1 DEF PageInv, PageStands
  <2>3. /\ Passed => Current /\ Accepted
        /\ Current /\ Accepted /\ (Page.credentials \/ Page.origin = Server) => Passed
    BY <2>1, PassingMeans
  <2> QED
    BY <2>2, <2>3 DEF Fits
<1> QED
  BY <1>1, FrontStarts, FrontStepKeeps, PTL DEF Spec

(***************************************************************************)
(* Sequences of any values                                                 *)
(***************************************************************************)

\* Sequences of whatever they hold.
IsSequence(s) == s \in Seq(Range(s))

\* Two sequences joined hold the one's members and then the other's.
LEMMA SequencesJoin ==
  ASSUME NEW s, NEW t, IsSequence(s), IsSequence(t)
  PROVE  /\ IsSequence(s \o t) /\ Len(s \o t) = Len(s) + Len(t)
         /\ \A i \in 1 .. Len(s) : (s \o t)[i] = s[i]
         /\ \A i \in 1 .. Len(t) : (s \o t)[Len(s) + i] = t[i]
<1> DEFINE S == Range(s) \cup Range(t)
           u == s \o t
<1>1. s \in Seq(S) /\ t \in Seq(S)
  <2>1. /\ Len(s) \in Nat /\ DOMAIN s = 1 .. Len(s) /\ s = [i \in 1 .. Len(s) |-> s[i]]
        /\ Len(t) \in Nat /\ DOMAIN t = 1 .. Len(t) /\ t = [i \in 1 .. Len(t) |-> t[i]]
    BY DEF IsSequence
  <2>2. (\A i \in 1 .. Len(s) : s[i] \in S) /\ (\A i \in 1 .. Len(t) : t[i] \in S)
    BY <2>1 DEF Range
  <2> HIDE DEF S
  <2> QED
    BY <2>1, <2>2
<1> HIDE DEF S
<1>2. /\ u \in Seq(S) /\ Len(u) = Len(s) + Len(t)
      /\ \A i \in 1 .. Len(s) : u[i] = s[i]
      /\ \A i \in 1 .. Len(t) : u[Len(s) + i] = t[i]
  BY <1>1
<1> HIDE DEF u
<1>3. IsSequence(u)
  <2>1. Len(u) \in Nat /\ DOMAIN u = 1 .. Len(u) /\ u = [i \in 1 .. Len(u) |-> u[i]]
    BY <1>2
  <2>2. \A i \in 1 .. Len(u) : u[i] \in Range(u)
    BY <2>1 DEF Range
  <2> DEFINE R == Range(u)
  <2>3. \A i \in 1 .. Len(u) : u[i] \in R
    BY <2>2
  <2> HIDE DEF R
  <2>4. u \in Seq(R)
    BY <2>1, <2>3
  <2> QED
    BY <2>4 DEF IsSequence, R
<1> QED
  BY <1>2, <1>3 DEF u

\* No members, one, and two.
LEMMA ShortSequences ==
  /\ IsSequence(<<>>) /\ Len(<<>>) = 0
  /\ \A v : IsSequence(<<v>>) /\ Len(<<v>>) = 1 /\ <<v>>[1] = v
  /\ \A v, w : IsSequence(<<v, w>>)
<1>1. IsSequence(<<>>)
  BY DEF IsSequence
<1>2. \A v : IsSequence(<<v>>)
  <2> TAKE v
  <2>1. v \in Range(<<v>>)
    BY DEF Range
  <2> DEFINE R == Range(<<v>>)
  <2>2. v \in R
    BY <2>1
  <2> HIDE DEF R
  <2>3. <<v>> \in Seq(R)
    BY <2>2
  <2> QED
    BY <2>3 DEF R, IsSequence
<1>3. \A v, w : IsSequence(<<v, w>>)
  <2> TAKE v, w
  <2> DEFINE R == Range(<<v, w>>)
  <2>1. v \in R /\ w \in R
    <3>1. DOMAIN <<v, w>> = {1, 2} /\ <<v, w>>[1] = v /\ <<v, w>>[2] = w
      OBVIOUS
    <3> QED
      BY <3>1 DEF Range
  <2> HIDE DEF R
  <2>2. <<v, w>> \in Seq(R)
    BY <2>1
  <2> QED
    BY <2>2 DEF R, IsSequence
<1> QED
  BY <1>1, <1>2, <1>3

\* Nothing, joined to a sequence, adds nothing.
LEMMA NothingJoins ==
  ASSUME NEW s, IsSequence(s)
  PROVE  s \o <<>> = s /\ <<>> \o s = s
<1> DEFINE S == Range(s)
<1>1. s \in Seq(S)
  BY DEF IsSequence
<1> HIDE DEF S
<1> QED
  BY <1>1, ConcatEmptySeq

\* The indices of a sequence, and its members.
LEMMA Indices ==
  ASSUME NEW S, NEW s \in Seq(S)
  PROVE  Len(s) \in Nat /\ DOMAIN s = 1 .. Len(s) /\ \A i \in DOMAIN s : i \in Int /\ s[i] \in S
OBVIOUS

\* The greatest member of a set of integers is its Max.
LEMMA GreatestIsMax ==
  ASSUME NEW S \in SUBSET Int, NEW k \in S, \A i \in S : i <= k
  PROVE  Max(S) = k
<1>1. \A y \in S : k >= y
  OBVIOUS
<1>2. Max(S) \in S /\ \A y \in S : Max(S) >= y
  BY <1>1 DEF Max
<1>3. Max(S) \in Int /\ Max(S) >= k /\ k >= Max(S) /\ k \in Int
  BY <1>1, <1>2
<1> QED
  BY <1>3

\* What a forwarding header says: its last named hop that is not trusted.
LEMMA LastFarHop ==
  ASSUME NEW proxies, NEW xff \in Seq(STRING), NEW k \in DOMAIN xff,
         xff[k] # "", ~Trusted(proxies, xff[k]),
         \A j \in DOMAIN xff : ~Trusted(proxies, xff[j]) => j <= k
  PROVE  clientFromXFF(proxies, xff) = xff[k]
<1> DEFINE far == {i \in DOMAIN xff : xff[i] # "" /\ ~Trusted(proxies, xff[i])}
<1>1. \A i \in DOMAIN xff : i \in Int
  BY Indices
<1>2. k \in far /\ far \in SUBSET Int /\ \A i \in far : i <= k
  BY <1>1
<1>3. clientFromXFF(proxies, xff) = xff[Max(far)]
  BY <1>2 DEF clientFromXFF
<1> HIDE DEF far
<1>4. Max(far) = k
  BY <1>2, GreatestIsMax
<1> QED
  BY <1>3, <1>4

(***************************************************************************)
(* The address of a program                                                *)
(***************************************************************************)

\* The hops before the last.
From == SubSeq(client.path, 1, Len(client.path) - 1)

\* Whether the path is told by X-Real-IP.
Real == client.proxy = "real ip" /\ From # <<>>

\* What is known of a program: its headers and path are sequences, and no face
\* is asked with a forwarded path among the headers.
LEMMA ProgramIsGiven ==
  ASSUME PageInv, client.kind = "program"
  PROVE  /\ \A name \in DOMAIN client.headers : IsSequence(client.headers[name])
         /\ ForwardedForKey \notin DOMAIN client.headers
         /\ client.path \in Seq(STRING \ {"", "bufconn"}) /\ client.path # <<>>
         /\ client.forwarded \in Seq(STRING)
         /\ client.proxy \in {"xff", "lines", "real ip"} /\ conf.dial \in {"bufconn", "network"}
<1>1. PICK x \in Case : conf = x.conf /\ client = x.client
  BY DEF PageInv
<1> QED
  BY <1>1, FrontAssumption DEF IsSequence

\* The nodes of the path.
LEMMA PathIsGiven ==
  ASSUME PageInv, client.kind = "program"
  PROVE  /\ Len(client.path) \in Nat \ {0} /\ DOMAIN client.path = 1 .. Len(client.path)
         /\ \A i \in DOMAIN client.path :
              i \in Int /\ client.path[i] \in STRING \ {"", "bufconn"}
         /\ From \in Seq(STRING) /\ Len(From) = Len(client.path) - 1
         /\ \A i \in 1 .. Len(From) : From[i] = client.path[i]
         /\ From = <<>> <=> Len(client.path) = 1
<1> DEFINE path == client.path
<1>1. path \in Seq(STRING \ {"", "bufconn"}) /\ path # <<>>
  BY ProgramIsGiven
<1> HIDE DEF path
<1>2. Len(path) \in Nat /\ DOMAIN path = 1 .. Len(path)
  BY <1>1, Indices
<1>3. \A i \in DOMAIN path : i \in Int /\ path[i] \in STRING \ {"", "bufconn"}
  BY <1>1, Indices
<1>4. Len(path) # 0
  BY <1>1, EmptySeq
<1>5. ASSUME NEW i \in 1 .. (Len(path) - 1) PROVE i \in DOMAIN path /\ path[i] \in STRING
  <2>1. i \in 1 .. Len(path)
    BY <1>2
  <2> QED
    BY <1>2, <1>3, <2>1
<1>6. /\ SubSeq(path, 1, Len(path) - 1) \in Seq(STRING)
      /\ Len(SubSeq(path, 1, Len(path) - 1)) = Len(path) - 1
      /\ \A i \in 1 .. (Len(path) - 1) : SubSeq(path, 1, Len(path) - 1)[i] = path[i]
  <2> DEFINE last == Len(path) - 1
             from == SubSeq(path, 1, last)
  <2>1. /\ from \in Seq(STRING)
        /\ Len(from) = IF 1 <= last THEN last - 1 + 1 ELSE 0
        /\ \A i \in 1 .. last - 1 + 1 : from[i] = path[1 + i - 1]
    <3>1. last \in Int
      BY <1>2
    <3>2. \A i \in 1 .. last : path[i] \in STRING
      BY <1>5
    <3> HIDE DEF last
    <3> QED
      BY <3>1, <3>2, SubSeqProperties
  <2>2. last \in Nat /\ last = Len(path) - 1
    BY <1>2, <1>4
  <2> HIDE DEF from, last
  <2>3. last - 1 + 1 = last /\ \A i \in 1 .. last : 1 + i - 1 = i
    BY <2>2
  <2>4. Len(from) = last
    <3>1. Len(from) = IF 1 <= last THEN last - 1 + 1 ELSE 0
      BY <2>1
    <3> QED
      BY <2>2, <3>1
  <2>5. \A i \in 1 .. last : from[i] = path[i]
    BY <2>1, <2>3
  <2> QED
    BY <2>1, <2>2, <2>4, <2>5 DEF from
<1>7. From = SubSeq(path, 1, Len(path) - 1)
  BY DEF From, path
<1>8. From = <<>> <=> Len(path) = 1
  <2>1. From \in Seq(STRING) /\ Len(From) = Len(path) - 1
    BY <1>6, <1>7
  <2>2. From = <<>> <=> Len(From) = 0
    BY <2>1, EmptySeq
  <2> QED
    BY <1>2, <2>1, <2>2
<1> QED
  BY <1>2, <1>4, <1>6, <1>7, <1>8, <1>3 DEF path

\* The hops are on one line.
OneLine == client.proxy = "lines" => client.forwarded = <<>>

\* What a program's request says of its path, and that its headers hold
\* sequences.
LEMMA ProgramStates ==
  ASSUME PageInv, client.kind = "program"
  PROVE  /\ OneLine =>
              /\ First(Get(Request.headers, ForwardedForKey), <<>>)
                   = IF Real THEN <<>> ELSE client.forwarded \o From
              /\ Joined(Get(Request.headers, ForwardedForKey))
                   = First(Get(Request.headers, ForwardedForKey), <<>>)
         /\ Real => First(Get(Request.headers, RealIPKey), "") = From[Len(From)]
         /\ Request.remote = client.path[Len(client.path)]
         /\ \A name \in DOMAIN Request.headers : IsSequence(Request.headers[name])
         /\ "grpcgateway-x-forwarded-for" \notin DOMAIN client.headers
              => Get(Request.headers, "grpcgateway-x-forwarded-for") = <<>>
<1>1. \A name : Added(name) = PathHeader(name) \o <<>>
  BY DEF Added
<1>2. /\ PathHeader(RealIPKey) = IF Real THEN <<From[Len(From)]>> ELSE <<>>
      /\ PathHeader(ForwardedForKey)
           = IF ~OneLine /\ From # <<>> THEN <<client.forwarded, From>>
             ELSE IF Real THEN <<>> ELSE Given(client.forwarded \o From, <<>>)
      /\ \A name : name \notin {RealIPKey, ForwardedForKey} => PathHeader(name) = <<>>
  BY DEF PathHeader, Real, OneLine, From, RealIPKey, ForwardedForKey
<1>3. /\ \A v : <<>> \o <<>> = <<>> /\ <<v>> \o <<>> = <<v>>
      /\ \A v, w : <<v, w>> \o <<>> = <<v, w>>
  OBVIOUS
<1>4. /\ Added(RealIPKey) = IF Real THEN <<From[Len(From)]>> ELSE <<>>
      /\ Added(ForwardedForKey)
           = IF ~OneLine /\ From # <<>> THEN <<client.forwarded, From>>
             ELSE IF Real THEN <<>> ELSE Given(client.forwarded \o From, <<>>)
      /\ \A name : name \notin {RealIPKey, ForwardedForKey} => Added(name) = <<>>
  BY <1>1, <1>2, <1>3 DEF Given
<1>5. AddedNames \subseteq {RealIPKey, ForwardedForKey}
  BY <1>4 DEF AddedNames
<1>6. /\ Get(Request.headers, ForwardedForKey) = Added(ForwardedForKey)
      /\ Real => Get(Request.headers, RealIPKey) = Added(RealIPKey)
      /\ \A name \in DOMAIN Request.headers :
           \/ name \in {RealIPKey, ForwardedForKey} /\ Request.headers[name] = Added(name)
           \/ name \in DOMAIN client.headers /\ Request.headers[name] = client.headers[name]
  <2>1. /\ DOMAIN Request.headers = AddedNames \cup DOMAIN client.headers
        /\ \A name \in DOMAIN Request.headers :
             Request.headers[name] = IF name \in AddedNames THEN Added(name) ELSE client.headers[name]
    BY DEF Request
  <2>2. ForwardedForKey \notin DOMAIN client.headers
    BY ProgramIsGiven
  <2>3. \A name \in {RealIPKey, ForwardedForKey} : name \in AddedNames <=> Added(name) # <<>>
    BY DEF AddedNames
  <2>4. Real => RealIPKey \in AddedNames
    BY <1>4, <2>3
  <2>5. Get(Request.headers, ForwardedForKey) = Added(ForwardedForKey)
    BY <2>1, <2>2, <2>3 DEF Get
  <2>6. Real => Get(Request.headers, RealIPKey) = Added(RealIPKey)
    BY <2>1, <2>4 DEF Get
  <2> QED
    BY <1>5, <2>1, <2>5, <2>6
<1>7. \A name \in {RealIPKey, ForwardedForKey} : IsSequence(Added(name))
  BY <1>4, ShortSequences DEF Given
<1>8. \A v, absent : First(<<v>>, absent) = v /\ First(<<>>, absent) = absent
  BY DEF First
<1>9. First(Given(client.forwarded \o From, <<>>), <<>>) = client.forwarded \o From
  BY <1>8 DEF Given
<1>10. "grpcgateway-x-forwarded-for" \notin DOMAIN client.headers
         => "grpcgateway-x-forwarded-for" \notin DOMAIN Request.headers
  BY <1>6 DEF RealIPKey, ForwardedForKey
<1>11. Request.remote = client.path[Len(client.path)]
  BY DEF Request
<1>12. /\ First(Get(Request.headers, ForwardedForKey), <<>>) = First(Added(ForwardedForKey), <<>>)
       /\ Joined(Get(Request.headers, ForwardedForKey)) = Joined(Added(ForwardedForKey))
       /\ Real => First(Get(Request.headers, RealIPKey), "") = First(Added(RealIPKey), "")
  BY <1>6
<1>13. \A name \in DOMAIN Request.headers : IsSequence(Request.headers[name])
  BY <1>6, <1>7, ProgramIsGiven
<1>14. /\ OneLine => First(Added(ForwardedForKey), <<>>) = IF Real THEN <<>> ELSE client.forwarded \o From
       /\ Real => First(Added(RealIPKey), "") = From[Len(From)]
  BY <1>4, <1>8, <1>9
<1>15. OneLine => Joined(Added(ForwardedForKey)) = First(Added(ForwardedForKey), <<>>)
  <2>1. Len(<<>>) # 2 /\ \A v : Len(<<v>>) # 2
    OBVIOUS
  <2>2. OneLine => Added(ForwardedForKey) = <<>> \/ \E v : Added(ForwardedForKey) = <<v>>
    BY <1>4 DEF Given
  <2> QED
    BY <2>1, <2>2 DEF Joined
<1> QED
  BY <1>10, <1>11, <1>12, <1>13, <1>14, <1>15 DEF Get

\* Of the nodes of a path, i is the last that is not trusted.
LastFar(proxies, nodes, i) ==
  /\ i \in DOMAIN nodes /\ nodes[i] # "" /\ ~Trusted(proxies, nodes[i])
  /\ \A j \in DOMAIN nodes : j > i => Trusted(proxies, nodes[j])

\* The hops of a header end in nodes of the real path: its last far node is found.
LEMMA NodesAreFound ==
  ASSUME NEW proxies, NEW before \in Seq(STRING), NEW nodes \in Seq(STRING),
         NEW i, LastFar(proxies, nodes, i)
  PROVE  clientFromXFF(proxies, before \o nodes) = nodes[i]
<1> DEFINE hops == before \o nodes
           m == Len(before)
           n == Len(nodes)
           k == m + i
<1>1. m \in Nat /\ n \in Nat
  OBVIOUS
<1>2. i \in 1 .. n
  BY Indices DEF LastFar
<1>3. DOMAIN nodes = 1 .. n
  BY Indices
<1>4. hops \in Seq(STRING) /\ Len(hops) = m + n
  BY ConcatProperties
<1>5. \A j \in 1 .. m + n : hops[j] = IF j <= m THEN before[j] ELSE nodes[j - m]
  BY ConcatProperties
<1> HIDE DEF hops, m, n
<1>6. DOMAIN hops = 1 .. m + n
  BY <1>4, Indices
<1>7. k \in 1 .. m + n /\ ~(k <= m) /\ k - m = i
  BY <1>1, <1>2
<1>8. hops[k] = nodes[i]
  BY <1>5, <1>7
<1> HIDE DEF k
<1>9. ASSUME NEW j \in 1 .. m + n, ~Trusted(proxies, hops[j])
      PROVE  j <= k
  <2> SUFFICES ASSUME ~(j <= k) PROVE FALSE
    OBVIOUS
  <2>1. j - m \in 1 .. n /\ j - m > i /\ ~(j <= m)
    BY <1>1, <1>2 DEF k
  <2>2. hops[j] = nodes[j - m]
    BY <1>5, <2>1
  <2>3. Trusted(proxies, nodes[j - m])
    BY <1>3, <2>1 DEF LastFar
  <2> QED
    BY <1>9, <2>2, <2>3
<1>10. clientFromXFF(proxies, hops) = hops[k]
  BY <1>4, <1>6, <1>7, <1>8, <1>9, LastFarHop DEF LastFar
<1> QED
  BY <1>8, <1>10 DEF hops

\* Where X-Real-IP tells of the path, it tells all of it.
Told ==
  OneLine /\ (client.proxy = "real ip" => Len(client.path) = 2 /\ client.forwarded = <<>>)

\* The annotator, and a server that is asked directly, find it.
LEMMA RemoteIsResolved ==
  ASSUME PageInv, client.kind = "program", NEW i, Told,
         LastFar(ParseTrustedProxies(Trust), client.path, i)
  PROVE  ResolveClientIP(ParseTrustedProxies(Trust), Request.remote,
                         First(Get(Request.headers, ForwardedForKey), <<>>),
                         First(Get(Request.headers, RealIPKey), "")) = client.path[i]
<1> DEFINE path == client.path
           n == Len(path)
           proxies == ParseTrustedProxies(Trust)
<1>1. Request.remote = path[n]
  BY ProgramStates
<1>2. n \in Nat \ {0}
  BY PathIsGiven
<1>3. DOMAIN path = 1 .. n
  BY PathIsGiven
<1>4. path[i] # ""
  BY DEF LastFar
<1>5. ~Trusted(proxies, path[i]) /\ \A j \in 1 .. n : j > i => Trusted(proxies, path[j])
  BY <1>3 DEF LastFar
<1>6. i \in 1 .. n
  BY <1>3 DEF LastFar
<1>7. CASE i = n
  BY <1>1, <1>5, <1>7 DEF ResolveClientIP
<1>8. CASE i # n
  <2>1. n \in 1 .. n /\ n > i /\ i \in 1 .. n - 1
    <3> HIDE DEF n
    <3> QED
      BY <1>2, <1>6, <1>8
  <2>2. Trusted(proxies, path[n])
    BY <1>5, <2>1
  <2>3. From \in Seq(STRING) /\ Len(From) = n - 1
    BY PathIsGiven
  <2>4. DOMAIN From = 1 .. n - 1
    BY <2>3, Indices
  <2>5. \A j \in 1 .. n - 1 : From[j] = path[j]
    BY <2>3, PathIsGiven
  <2>6. From # <<>>
    BY <2>1, <2>4
  <2>7. \A xff, realIP :
          ResolveClientIP(proxies, path[n], xff, realIP)
            = IF clientFromXFF(proxies, xff) # "" THEN clientFromXFF(proxies, xff)
              ELSE IF realIP # "" THEN realIP ELSE path[n]
    BY <2>2 DEF ResolveClientIP
  <2>8. CASE client.proxy = "real ip"
    <3>1. n = 2 /\ Real
      BY <2>6, <2>8 DEF Real, Told
    <3>2. 2 - 1 = 1
      OBVIOUS
    <3>3. i = 1 /\ Len(From) = 1
      BY <2>1, <2>3, <3>1
    <3>4. From[Len(From)] = path[1]
      BY <2>1, <2>5, <3>3
    <3>5. First(Get(Request.headers, RealIPKey), "") = path[i]
      BY <3>1, <3>3, <3>4, ProgramStates
    <3>6. First(Get(Request.headers, ForwardedForKey), <<>>) = <<>>
      BY <3>1, ProgramStates DEF Told
    <3>7. clientFromXFF(proxies, <<>>) = ""
      <4> HIDE DEF proxies
      <4>1. DOMAIN <<>> = {}
        OBVIOUS
      <4> QED
        BY <4>1 DEF clientFromXFF
    <3>8. ResolveClientIP(proxies, path[n], <<>>, path[i]) = path[i]
      BY <1>4, <2>7, <3>7
    <3> QED
      BY <1>1, <3>5, <3>6, <3>8
  <2>9. CASE client.proxy # "real ip"
    <3>1. First(Get(Request.headers, ForwardedForKey), <<>>) = client.forwarded \o From
      BY <2>9, ProgramStates DEF Real, Told
    <3>2. i \in DOMAIN From /\ From[i] = path[i]
      BY <2>1, <2>4, <2>5
    <3>3. \A j \in DOMAIN From : j > i => Trusted(proxies, From[j])
      <4>1. \A j \in 1 .. n - 1 : j \in 1 .. n
        <5> HIDE DEF n
        <5> QED
          BY <1>2
      <4> QED
        BY <1>5, <2>4, <2>5, <4>1
    <3>4. client.forwarded \in Seq(STRING)
      BY ProgramIsGiven
    <3> HIDE DEF proxies
    <3>5. LastFar(proxies, From, i)
      BY <1>4, <1>5, <3>2, <3>3 DEF LastFar
    <3>6. clientFromXFF(proxies, client.forwarded \o From) = From[i]
      BY <2>3, <3>4, <3>5, NodesAreFound
    <3> QED
      BY <1>1, <1>4, <2>2, <2>7, <3>1, <3>2, <3>6 DEF proxies
  <2> QED
    BY <2>8, <2>9
<1> QED
  BY <1>7, <1>8

\* The first of two values that is not none.
LEMMA FirstOfTwo ==
  ASSUME NEW none, NEW a, NEW b
  PROVE  FirstBut(none, <<a, b>>) = IF a # none THEN a ELSE b
<1> DEFINE others == {i \in DOMAIN <<a, b>> : <<a, b>>[i] # none}
           least == CHOOSE i \in others : \A j \in others : i <= j
<1>1. DOMAIN <<a, b>> = {1, 2} /\ <<a, b>>[1] = a /\ <<a, b>>[2] = b
  OBVIOUS
<1>2. FirstBut(none, <<a, b>>) = IF others = {} THEN none ELSE <<a, b>>[least]
  BY DEF FirstBut
<1>3. CASE a # none
  <2>1. 1 \in others /\ \A j \in others : 1 <= j
    BY <1>1, <1>3
  <2>2. least \in others /\ \A j \in others : least <= j
    BY <2>1
  <2>3. least = 1
    BY <1>1, <2>1, <2>2
  <2> QED
    BY <1>1, <1>2, <1>3, <2>1, <2>3
<1>4. CASE a = none /\ b # none
  <2>1. others = {2}
    BY <1>1, <1>4
  <2>2. least = 2
    BY <2>1
  <2> QED
    BY <1>1, <1>2, <1>4, <2>1, <2>2
<1>5. CASE a = none /\ b = none
  <2>1. others = {}
    BY <1>1, <1>5
  <2> QED
    BY <1>2, <1>5, <2>1
<1> QED
  BY <1>3, <1>4, <1>5

\* What a header may be called by the matcher, and what gets the name of metadata
\* that is read.
LEMMA MatcherTells ==
  ASSUME NEW h, NEW k \in MetadataRead
  PROVE  /\ DefaultHeaderMatcher(h) = k <=> h = MetadataHeader(k)
         /\ MetadataHeader(k) \notin MetadataRead \cup {ForwardedForKey, RealIPKey, "origin",
                                                        "referer", "x-csrf-token", "cookie"}
<1>1. \A x, y \in MetadataRead : MetadataHeader(x) = MetadataHeader(y) => x = y
  <2>1. /\ MetadataHeader("authorization") = "grpc-metadata-authorization"
        /\ MetadataHeader("x-api-key") = "grpc-metadata-x-api-key"
        /\ MetadataHeader("cookie") = "grpc-metadata-cookie"
        /\ MetadataHeader("x-ticket") = "grpc-metadata-x-ticket"
        /\ MetadataHeader("x-request-id") = "grpc-metadata-x-request-id"
        /\ MetadataHeader("x-forwarded-for") = "grpc-metadata-x-forwarded-for"
        /\ MetadataHeader("grpcgateway-x-forwarded-for") = "grpc-metadata-grpcgateway-x-forwarded-for"
        /\ MetadataHeader("x-real-ip") = "grpc-metadata-x-real-ip"
        /\ MetadataHeader("x-grpcapi-client-ip") = "grpc-metadata-x-grpcapi-client-ip"
    BY DEF MetadataHeader
  <2> QED
    BY <2>1 DEF MetadataRead
<1>2. /\ MetadataHeader(k) \notin {"authorization", "cookie", "origin", "referer"}
      /\ k \notin {"", "grpcgateway-authorization", "grpcgateway-cookie", "grpcgateway-origin",
                   "grpcgateway-referer"}
  BY DEF MetadataRead, MetadataHeader
<1>3. MetadataHeader(k) \notin MetadataRead \cup {ForwardedForKey, RealIPKey, "origin", "referer",
                                                  "x-csrf-token", "cookie"}
  BY DEF MetadataRead, MetadataHeader, ForwardedForKey, RealIPKey
<1>4. ASSUME h = MetadataHeader(k) PROVE DefaultHeaderMatcher(h) = k
  <2> DEFINE it == CHOOSE x \in MetadataRead : h = MetadataHeader(x)
  <2>1. it \in MetadataRead /\ h = MetadataHeader(it)
    BY <1>4
  <2>2. it = k
    BY <1>1, <1>4, <2>1
  <2>3. DefaultHeaderMatcher(h) = it
    BY <1>2, <1>4 DEF DefaultHeaderMatcher
  <2> QED
    BY <2>2, <2>3
<1>5. ASSUME DefaultHeaderMatcher(h) = k PROVE h = MetadataHeader(k)
  <2> DEFINE it == CHOOSE x \in MetadataRead : h = MetadataHeader(x)
  <2>1. (\E x \in MetadataRead : h = MetadataHeader(x)) /\ DefaultHeaderMatcher(h) = it
    <3>1. h \notin {"authorization", "cookie", "origin", "referer"}
      <4>1. \A x \in MetadataRead : MetadataHeader(x) \notin {"authorization", "cookie", "origin", "referer"}
        BY DEF MetadataRead, MetadataHeader
      <4>2. /\ DefaultHeaderMatcher("authorization") = "grpcgateway-authorization"
            /\ DefaultHeaderMatcher("cookie") = "grpcgateway-cookie"
            /\ DefaultHeaderMatcher("origin") = "grpcgateway-origin"
            /\ DefaultHeaderMatcher("referer") = "grpcgateway-referer"
        BY <4>1 DEF DefaultHeaderMatcher
      <4> QED
        BY <1>2, <1>5, <4>2
    <3>2. CASE \E x \in MetadataRead : h = MetadataHeader(x)
      BY <3>1, <3>2 DEF DefaultHeaderMatcher
    <3>3. CASE ~\E x \in MetadataRead : h = MetadataHeader(x)
      <4>1. DefaultHeaderMatcher(h) = ""
        BY <3>1, <3>3 DEF DefaultHeaderMatcher
      <4> QED
        BY <1>2, <1>5, <4>1
    <3> QED
      BY <3>2, <3>3
  <2>2. h = MetadataHeader(it)
    BY <2>1
  <2> HIDE DEF it
  <2> QED
    BY <1>5, <2>1, <2>2
<1> QED
  BY <1>3, <1>4, <1>5

\* What the lists let through under the name of metadata k: the header itself,
\* and the one that is renamed to it.
Lists == normalizeHeaders(conf.headers)

OwnOf(k) ==
  (IF k = "authorization" THEN Get(Request.headers, k) ELSE <<>>)
    \o (IF k # ForwardedForKey /\ k \in Lists.allow \ Lists.deny THEN Get(Request.headers, k) ELSE <<>>)

OtherOf(k) ==
  IF MetadataHeader(k) \in DOMAIN Request.headers \ (Lists.allow \cup Lists.deny)
  THEN Request.headers[MetadataHeader(k)] ELSE <<>>

GotThrough(k) == IF k \in Request.late THEN OtherOf(k) \o OwnOf(k) ELSE OwnOf(k) \o OtherOf(k)

\* The policy of headers, for metadata that is read.
LEMMA PolicyTells ==
  ASSUME NEW k \in MetadataRead
  PROVE  /\ IncomingPolicy(conf.headers, k) = k <=> k \in Lists.allow \ Lists.deny
         /\ \A h : h # k => (IncomingPolicy(conf.headers, h) = k
                              <=> h = MetadataHeader(k) /\ h \notin Lists.allow \cup Lists.deny)
         /\ k # ""
<1>1. k # ""
  BY DEF MetadataRead
<1>2. k # MetadataHeader(k)
  BY MatcherTells
<1>3. \A h : DefaultHeaderMatcher(h) = k <=> h = MetadataHeader(k)
  BY MatcherTells
<1> QED
  BY <1>1, <1>2, <1>3 DEF IncomingPolicy, Lists

\* What the gateway makes of a request: what got through, the hops with the peer
\* behind them, and what is added.
LEMMA GatewayPasses ==
  ASSUME NEW added, NEW k \in MetadataRead
  PROVE  Get(annotateContext(conf.headers, Request, added), k)
           = GotThrough(k)
               \o (IF k = ForwardedForKey
                   THEN << Joined(Get(Request.headers, ForwardedForKey)) \o <<Request.remote>> >> ELSE <<>>)
               \o Get(added, k)
<1> DEFINE p == conf.headers
           r == Request
           hops == Joined(Get(r.headers, ForwardedForKey)) \o <<r.remote>>
           renamed(n) == {h \in DOMAIN r.headers \ {n} : IncomingPolicy(p, h) = n}
           other(n) == IF renamed(n) = {} THEN <<>> ELSE r.headers[CHOOSE h \in renamed(n) : TRUE]
           own(n) == (IF n = "authorization" THEN Get(r.headers, n) ELSE <<>>)
                       \o (IF n # ForwardedForKey /\ IncomingPolicy(p, n) = n THEN Get(r.headers, n) ELSE <<>>)
           last(n) == IF n = ForwardedForKey THEN <<hops>> ELSE <<>>
           keys == {"authorization", ForwardedForKey} \cup DOMAIN added
                     \cup ({IncomingPolicy(p, h) : h \in DOMAIN r.headers} \ {""})
           through(n) == IF n \in r.late THEN other(n) \o own(n) ELSE own(n) \o other(n)
           metadata == [n \in keys |-> through(n) \o last(n) \o Get(added, n)]
<1>1. annotateContext(p, r, added) = metadata
  BY DEF annotateContext
<1>2. other(k) = OtherOf(k)
  <2> DEFINE m == MetadataHeader(k)
  <2>1. m # k
    BY MatcherTells
  <2>2. \A h : h \in renamed(k) <=> h \in DOMAIN r.headers /\ h = m /\ h \notin Lists.allow \cup Lists.deny
    BY <2>1, PolicyTells
  <2> HIDE DEF renamed, r
  <2>3. CASE m \in DOMAIN r.headers \ (Lists.allow \cup Lists.deny)
    <3>1. renamed(k) = {m}
      BY <2>2, <2>3
    <3>2. (CHOOSE h \in renamed(k) : TRUE) = m /\ renamed(k) # {}
      BY <3>1
    <3>3. other(k) = r.headers[m]
      BY <3>2
    <3> QED
      BY <2>3, <3>3 DEF OtherOf, r
  <2>4. CASE m \notin DOMAIN r.headers \ (Lists.allow \cup Lists.deny)
    <3>1. renamed(k) = {}
      BY <2>2, <2>4
    <3> QED
      BY <2>4, <3>1 DEF OtherOf, r
  <2> QED
    BY <2>3, <2>4
<1>3. own(k) = OwnOf(k)
  BY PolicyTells DEF OwnOf
<1>4. through(k) = GotThrough(k)
  BY <1>2, <1>3 DEF GotThrough
<1>5. CASE k \in keys
  <2> HIDE DEF through, last
  <2>1. Get(metadata, k) = through(k) \o last(k) \o Get(added, k)
    BY <1>5 DEF Get
  <2> QED
    BY <1>1, <1>4, <2>1 DEF last
<1>6. CASE k \notin keys
  <2>1. k # "authorization" /\ k # ForwardedForKey /\ Get(added, k) = <<>>
    BY <1>6 DEF Get
  <2>2. \A h \in DOMAIN r.headers : IncomingPolicy(p, h) # k
    BY <1>6, PolicyTells
  <2>3. IncomingPolicy(p, k) = k => Get(r.headers, k) = <<>>
    BY <2>2 DEF Get
  <2>4. renamed(k) = {}
    BY <2>2
  <2>5. <<>> \o <<>> = <<>>
    OBVIOUS
  <2>6. other(k) = <<>> /\ own(k) = <<>>
    BY <2>1, <2>3, <2>4, <2>5
  <2>7. through(k) = <<>>
    <3> HIDE DEF own, other
    <3> QED
      BY <2>5, <2>6
  <2>8. Get(metadata, k) = <<>>
    <3> HIDE DEF through, last, keys
    <3> QED
      BY <1>6 DEF Get
  <2>9. GotThrough(k) = <<>>
    <3> HIDE DEF through
    <3> QED
      BY <1>4, <2>7
  <2>10. <<>> \o <<>> \o <<>> = <<>>
    OBVIOUS
  <2> HIDE DEF metadata
  <2> QED
    BY <1>1, <2>1, <2>8, <2>9, <2>10
<1> QED
  BY <1>5, <1>6

\* What gets through is a sequence, where the headers are.
LEMMA ThroughIsSequence ==
  ASSUME NEW k, \A name \in {k, MetadataHeader(k)} : IsSequence(Get(Request.headers, name))
  PROVE  IsSequence(OwnOf(k)) /\ IsSequence(OtherOf(k)) /\ IsSequence(GotThrough(k))
<1> DEFINE value == Get(Request.headers, k)
<1>1. IsSequence(value) /\ IsSequence(<<>>)
  BY ShortSequences
<1> DEFINE a == IF k = "authorization" THEN value ELSE <<>>
           b == IF k # ForwardedForKey /\ k \in Lists.allow \ Lists.deny THEN value ELSE <<>>
<1>2. OwnOf(k) = a \o b
  BY DEF OwnOf
<1> HIDE DEF value
<1>3. IsSequence(a) /\ IsSequence(b)
  BY <1>1
<1> HIDE DEF a, b
<1>4. IsSequence(OwnOf(k))
  BY <1>2, <1>3, SequencesJoin
<1>5. IsSequence(OtherOf(k))
  BY <1>1 DEF OtherOf, Get
<1> QED
  BY <1>4, <1>5, SequencesJoin DEF GotThrough

\* The names that the path and a browser add are none that are renamed.
LEMMA AddedAreKnown ==
  ASSUME NEW k \in MetadataRead
  PROVE  /\ MetadataHeader(k) \notin AddedNames
         /\ Renamed(k) <=> MetadataHeader(k) \in DOMAIN Request.headers \ (Lists.allow \cup Lists.deny)
         /\ MetadataHeader(k) \in DOMAIN Request.headers =>
              Request.headers[MetadataHeader(k)] = client.headers[MetadataHeader(k)]
<1>1. MetadataHeader(k) \notin {RealIPKey, ForwardedForKey, "origin", "referer", "x-csrf-token", "cookie"}
  BY MatcherTells
<1>2. MetadataHeader(k) \notin AddedNames
  BY <1>1, Zenon DEF AddedNames
<1>3. /\ DOMAIN Request.headers = AddedNames \cup DOMAIN client.headers
      /\ \A name \in DOMAIN Request.headers :
           Request.headers[name] = IF name \in AddedNames THEN Added(name) ELSE client.headers[name]
  BY DEF Request
<1> QED
  BY <1>2, <1>3 DEF Renamed, Lists

\* What the gateway adds at the end is there, and the peer ends the hops.
LEMMA Annotated ==
  ASSUME PageInv, client.kind = "program", NEW added,
         DOMAIN added = {ClientIPKey, ForwardedForKey},
         \A key \in DOMAIN added : IsSequence(added[key])
  PROVE  /\ \E others : /\ IsSequence(others)
                        /\ Get(annotateContext(conf.headers, Request, added), ClientIPKey)
                             = others \o added[ClientIPKey]
         /\ ~Renamed(ForwardedForKey) =>
              First(Get(annotateContext(conf.headers, Request, added), ForwardedForKey), <<>>)
                = Joined(Get(Request.headers, ForwardedForKey)) \o <<Request.remote>>
<1> DEFINE hops == Joined(Get(Request.headers, ForwardedForKey)) \o <<Request.remote>>
           md1 == annotateContext(conf.headers, Request, added)
<1>1. /\ ClientIPKey \in MetadataRead /\ ForwardedForKey \in MetadataRead
      /\ ClientIPKey # ForwardedForKey /\ ForwardedForKey # "authorization"
  BY DEF ClientIPKey, ForwardedForKey, MetadataRead
<1>2. /\ Get(added, ClientIPKey) = added[ClientIPKey]
      /\ Get(added, ForwardedForKey) = added[ForwardedForKey]
  BY DEF Get
<1>3. /\ Get(md1, ClientIPKey) = GotThrough(ClientIPKey) \o <<>> \o added[ClientIPKey]
      /\ Get(md1, ForwardedForKey) = GotThrough(ForwardedForKey) \o <<hops>> \o added[ForwardedForKey]
  BY <1>1, <1>2, GatewayPasses
<1> HIDE DEF md1, hops
<1>4. IsSequence(GotThrough(ClientIPKey) \o <<>>)
  <2>1. \A name \in DOMAIN Request.headers : IsSequence(Request.headers[name])
    BY ProgramStates
  <2>2. \A name : IsSequence(Get(Request.headers, name))
    BY <2>1, ShortSequences DEF Get
  <2>3. IsSequence(GotThrough(ClientIPKey))
    BY <2>2, ThroughIsSequence
  <2> QED
    BY <2>3, NothingJoins
<1>5. ASSUME ~Renamed(ForwardedForKey) PROVE First(Get(md1, ForwardedForKey), <<>>) = hops
  <2>1. OtherOf(ForwardedForKey) = <<>>
    BY <1>1, <1>5, AddedAreKnown DEF OtherOf
  <2>2. <<>> \o <<>> = <<>>
    OBVIOUS
  <2>3. OwnOf(ForwardedForKey) = <<>>
    BY <1>1, <2>2 DEF OwnOf
  <2>4. GotThrough(ForwardedForKey) = <<>>
    BY <2>1, <2>2, <2>3 DEF GotThrough
  <2> DEFINE a == <<hops>>
             c == added[ForwardedForKey]
  <2>5. IsSequence(a) /\ Len(a) = 1 /\ a[1] = hops /\ IsSequence(c)
    BY ShortSequences
  <2>6. Get(md1, ForwardedForKey) = <<>> \o a \o c
    BY <1>3, <2>4
  <2> HIDE DEF a, c
  <2>7. <<>> \o a = a
    BY <2>5, NothingJoins
  <2>8. Get(md1, ForwardedForKey) = a \o c
    BY <2>6, <2>7
  <2>9. Len(a \o c) = 1 + Len(c) /\ (a \o c)[1] = hops /\ Len(c) \in Nat
    <3>1. 1 \in 1 .. Len(a)
      BY <2>5
    <3>2. Len(a \o c) = Len(a) + Len(c) /\ \A i \in 1 .. Len(a) : (a \o c)[i] = a[i]
      BY <2>5, SequencesJoin
    <3>3. Len(c) \in Nat
      BY <2>5 DEF IsSequence
    <3> QED
      BY <2>5, <3>1, <3>2, <3>3
  <2>10. a \o c # <<>>
    <3>1. Len(<<>>) = 0
      OBVIOUS
    <3>2. Len(a \o c) # 0
      BY <2>9
    <3> QED
      BY <3>1, <3>2
  <2> QED
    BY <2>8, <2>9, <2>10 DEF First
<1> QED
  BY <1>3, <1>4, <1>5 DEF md1, hops

\* What the interceptor reads of a call.
MdOf(f) ==
  IF f = "gateway"
  THEN annotateContext(conf.headers, Request,
                       clientIPAnnotator(ParseTrustedProxies(Trust), Request))
  ELSE Request.headers

\* The peer that a face's server sees, and the address it then resolves.
PeerOf(f) ==
  IF f = "grpc" THEN Request.remote ELSE IF conf.dial = "network" THEN Loopback ELSE "bufconn"

AddressAt(f) == extractClientInfo(Trust, PeerOf(f), MdOf(f))

\* A peer with an address is resolved by the hops that the metadata states.
LEMMA HopsAreRead ==
  ASSUME NEW networks, NEW peerIP, NEW m, validIP(peerIP)
  PROVE  /\ First(Get(m, ForwardedForKey), <<>>) # <<>> =>
              extractClientInfo(networks, peerIP, m)
                = ResolveClientIP(ParseTrustedProxies(networks), peerIP,
                                  First(Get(m, ForwardedForKey), <<>>), First(Get(m, RealIPKey), ""))
         /\ Get(m, "grpcgateway-x-forwarded-for") = <<>> =>
              extractClientInfo(networks, peerIP, m)
                = ResolveClientIP(ParseTrustedProxies(networks), peerIP,
                                  First(Get(m, ForwardedForKey), <<>>), First(Get(m, RealIPKey), ""))
         /\ ~Trusted(ParseTrustedProxies(networks), peerIP) =>
              extractClientInfo(networks, peerIP, m) = peerIP
<1> DEFINE a == First(Get(m, ForwardedForKey), <<>>)
           b == First(Get(m, "grpcgateway-x-forwarded-for"), <<>>)
<1>1. FirstBut(<<>>, <<a, b>>) = IF a # <<>> THEN a ELSE b
  BY FirstOfTwo
<1>2. First(<<>>, <<>>) = <<>>
  BY DEF First
<1>3. peerIP # ""
  BY DEF validIP
<1>4. extractClientInfo(networks, peerIP, m)
        = ResolveClientIP(ParseTrustedProxies(networks), peerIP, FirstBut(<<>>, <<a, b>>),
                          First(Get(m, RealIPKey), ""))
  BY <1>3 DEF extractClientInfo
<1>5. \A xff, realIP : ~Trusted(ParseTrustedProxies(networks), peerIP) =>
        ResolveClientIP(ParseTrustedProxies(networks), peerIP, xff, realIP) = peerIP
  BY DEF ResolveClientIP
<1> HIDE DEF a
<1>6. Get(m, "grpcgateway-x-forwarded-for") = <<>> => b = <<>>
  BY <1>2
<1> HIDE DEF b
<1>7. a # <<>> => FirstBut(<<>>, <<a, b>>) = a
  BY <1>1
<1>8. Get(m, "grpcgateway-x-forwarded-for") = <<>> => FirstBut(<<>>, <<a, b>>) = a
  BY <1>1, <1>6
<1> QED
  BY <1>4, <1>5, <1>7, <1>8 DEF a

\* The gateway's annotator tells the address of the path.
LEMMA AnnotatorTells ==
  ASSUME PageInv, client.kind = "program", NEW i, Told,
         LastFar(ParseTrustedProxies(Trust), client.path, i)
  PROVE  LET added == clientIPAnnotator(ParseTrustedProxies(Trust), Request)
         IN  /\ DOMAIN added = {ClientIPKey, ForwardedForKey}
             /\ added[ClientIPKey] = <<client.path[i]>>
             /\ \A key \in DOMAIN added : IsSequence(added[key])
<1> DEFINE ip == ResolveClientIP(ParseTrustedProxies(Trust), Request.remote,
                                 First(Get(Request.headers, ForwardedForKey), <<>>),
                                 First(Get(Request.headers, RealIPKey), ""))
           added == clientIPAnnotator(ParseTrustedProxies(Trust), Request)
<1>1. ip = client.path[i]
  BY RemoteIsResolved
<1>2. ip # ""
  BY <1>1 DEF LastFar
<1>3. added = [k \in {ClientIPKey, ForwardedForKey} |->
                 IF ip = "" THEN <<>> ELSE IF k = ClientIPKey THEN <<ip>> ELSE << <<ip>> >>]
  BY DEF clientIPAnnotator
<1> HIDE DEF ip
<1>4. /\ DOMAIN added = {ClientIPKey, ForwardedForKey}
      /\ added[ClientIPKey] = <<ip>> /\ added[ForwardedForKey] = << <<ip>> >>
  BY <1>2, <1>3 DEF ClientIPKey, ForwardedForKey
<1> HIDE DEF added
<1>5. \A key \in DOMAIN added : IsSequence(added[key])
  BY <1>4, ShortSequences
<1> QED
  BY <1>1, <1>4, <1>5 DEF added

\* Where a path can be told, the address that a face finds is that of the last
\* node of the path that is not trusted.
LEMMA AddressFound ==
  ASSUME PageInv, client.kind = "program", NEW f \in {"gateway", "grpc"}, Traceable(f),
         NEW i, LastFar(ParseTrustedProxies(Trust), client.path, i)
  PROVE  AddressAt(f) = client.path[i]
<1> DEFINE path == client.path
           n == Len(path)
           proxies == ParseTrustedProxies(Trust)
<1>1. Told /\ OneLine
  BY DEF Traceable, Told, OneLine
<1>2. Request.remote = path[n]
  BY ProgramStates
<1>3. n \in Nat \ {0} /\ DOMAIN path = 1 .. n
  BY PathIsGiven
<1>4. path[n] \notin {"", "bufconn"}
  <2>1. n \in 1 .. n
    BY <1>3
  <2> QED
    BY <1>3, <2>1, PathIsGiven
<1>5. From \in Seq(STRING) /\ Len(From) = n - 1
  BY PathIsGiven
<1>6. client.forwarded \in Seq(STRING)
  BY ProgramIsGiven
<1>7. i \in 1 .. n /\ path[i] # "" /\ ~Trusted(proxies, path[i])
  BY <1>3 DEF LastFar
<1>8. conf.dial \in {"bufconn", "network"}
  BY ProgramIsGiven
<1>9. CASE f = "grpc"
  <2>1. PeerOf(f) = path[n] /\ MdOf(f) = Request.headers
    BY <1>2, <1>9 DEF PeerOf, MdOf
  <2>2. validIP(path[n])
    BY <1>4 DEF validIP
  <2>3. CASE i = n
    <3>1. ~Trusted(ParseTrustedProxies(Trust), path[n])
      BY <1>7, <2>3
    <3>2. \A peer, m : validIP(peer) /\ ~Trusted(ParseTrustedProxies(Trust), peer)
                        => extractClientInfo(Trust, peer, m) = peer
      BY HopsAreRead
    <3>3. extractClientInfo(Trust, path[n], Request.headers) = path[n]
      BY <2>2, <3>1, <3>2
    <3> QED
      BY <2>1, <2>3, <3>3 DEF AddressAt
  <2>4. CASE i # n
    <3>1. From # <<>>
      <4>1. n - 1 # 0
        <5>1. n \in Nat \ {0} /\ i \in 1 .. n
          BY <1>3, <1>7
        <5> HIDE DEF n
        <5> QED
          BY <2>4, <5>1
      <4>2. Len(<<>>) = 0
        OBVIOUS
      <4> QED
        BY <1>5, <4>1, <4>2
    <3>2. \/ First(Get(Request.headers, ForwardedForKey), <<>>) # <<>>
          \/ Get(Request.headers, "grpcgateway-x-forwarded-for") = <<>>
      <4>1. CASE client.proxy = "real ip"
        BY <4>1, ProgramStates DEF Traceable
      <4>2. CASE client.proxy # "real ip"
        <5>1. First(Get(Request.headers, ForwardedForKey), <<>>) = client.forwarded \o From
          BY <1>1, <4>2, ProgramStates DEF Real
        <5>2. client.forwarded \o From # <<>>
          BY <1>5, <1>6, <3>1, ConcatEqualIffEmpty
        <5> QED
          BY <5>1, <5>2
      <4> QED
        BY <4>1, <4>2
    <3>3. extractClientInfo(Trust, path[n], Request.headers)
            = ResolveClientIP(proxies, path[n], First(Get(Request.headers, ForwardedForKey), <<>>),
                              First(Get(Request.headers, RealIPKey), ""))
      BY <2>2, <3>2, HopsAreRead
    <3>4. ResolveClientIP(proxies, path[n], First(Get(Request.headers, ForwardedForKey), <<>>),
                          First(Get(Request.headers, RealIPKey), "")) = path[i]
      BY <1>1, <1>2, RemoteIsResolved
    <3> QED
      BY <2>1, <3>3, <3>4 DEF AddressAt
  <2> QED
    BY <2>3, <2>4
<1>10. CASE f = "gateway"
  <2> DEFINE added == clientIPAnnotator(proxies, Request)
             m == annotateContext(conf.headers, Request, added)
  <2>1. /\ DOMAIN added = {ClientIPKey, ForwardedForKey}
        /\ added[ClientIPKey] = <<path[i]>>
        /\ \A key \in DOMAIN added : IsSequence(added[key])
    BY <1>1, AnnotatorTells
  <2>2. MdOf(f) = m
    BY <1>10 DEF MdOf
  <2>3. /\ \E others : IsSequence(others) /\ Get(m, ClientIPKey) = others \o <<path[i]>>
        /\ ~Renamed(ForwardedForKey) =>
             First(Get(m, ForwardedForKey), <<>>)
               = First(Get(Request.headers, ForwardedForKey), <<>>) \o <<Request.remote>>
    <3>1. Joined(Get(Request.headers, ForwardedForKey)) = First(Get(Request.headers, ForwardedForKey), <<>>)
      BY <1>1, ProgramStates
    <3> HIDE DEF added
    <3> QED
      BY <2>1, <3>1, Annotated
  <2> HIDE DEF m
  <2>4. CASE conf.dial = "bufconn"
    <3>1. PeerOf(f) = "bufconn" /\ ~validIP("bufconn")
      BY <1>10, <2>4 DEF PeerOf, validIP
    <3>2. injected(m) = path[i]
      <4>1. PICK others : IsSequence(others) /\ Get(m, ClientIPKey) = others \o <<path[i]>>
        BY <2>3
      <4>2. /\ Len(others) \in Nat /\ IsSequence(<<path[i]>>) /\ Len(<<path[i]>>) = 1
            /\ <<path[i]>>[1] = path[i]
        BY <4>1, ShortSequences DEF IsSequence
      <4> DEFINE ip == <<path[i]>>
      <4>3. /\ Len(others \o ip) = Len(others) + Len(ip)
            /\ \A j \in 1 .. Len(ip) : (others \o ip)[Len(others) + j] = ip[j]
        <5>1. IsSequence(ip)
          BY <4>2
        <5> HIDE DEF ip
        <5> QED
          BY <4>1, <5>1, SequencesJoin
      <4>4. Len(ip) = 1 /\ ip[1] = path[i]
        BY <4>2
      <4> HIDE DEF ip
      <4>5. Len(others \o ip) = Len(others) + 1 /\ (others \o ip)[Len(others) + 1] = path[i]
        <5>1. 1 \in 1 .. Len(ip)
          BY <4>4
        <5> QED
          BY <4>3, <4>4, <5>1
      <4>6. others \o ip # <<>>
        <5>1. Len(<<>>) = 0
          OBVIOUS
        <5> QED
          BY <4>2, <4>5, <5>1
      <4>7. Get(m, ClientIPKey) = others \o ip
        BY <4>1 DEF ip
      <4> QED
        BY <4>5, <4>6, <4>7 DEF injected
    <3> QED
      BY <1>7, <2>2, <3>1, <3>2 DEF AddressAt, extractClientInfo
  <2>5. CASE conf.dial = "network"
    <3>1. client.proxy # "real ip" /\ Trusted(proxies, Loopback) /\ ~Renamed(ForwardedForKey)
      BY <1>10, <2>5 DEF Traceable
    <3>2. PeerOf(f) = Loopback /\ validIP(Loopback)
      BY <1>10, <2>5 DEF PeerOf, validIP, Loopback
    <3> DEFINE nodes == From \o <<path[n]>>
    <3>3. First(Get(m, ForwardedForKey), <<>>) = client.forwarded \o nodes
      <4>1. First(Get(Request.headers, ForwardedForKey), <<>>) = client.forwarded \o From
        BY <1>1, <3>1, ProgramStates DEF Real
      <4>2. path[n] \in STRING
        <5>1. n \in 1 .. n
          BY <1>3
        <5> QED
          BY <1>3, <5>1, PathIsGiven
      <4>3. (client.forwarded \o From) \o <<path[n]>> = client.forwarded \o (From \o <<path[n]>>)
        <5> DEFINE peer == <<path[n]>>
        <5>1. peer \in Seq(STRING)
          BY <4>2
        <5> HIDE DEF peer
        <5>2. \A a, b, c \in Seq(STRING) : (a \o b) \o c = a \o (b \o c)
          BY ConcatAssociative
        <5>3. (client.forwarded \o From) \o peer = client.forwarded \o (From \o peer)
          BY <1>5, <1>6, <5>1, <5>2
        <5> QED
          BY <5>3 DEF peer
      <4> QED
        BY <1>2, <2>3, <3>1, <4>1, <4>3
    <3>4. /\ nodes \in Seq(STRING) /\ Len(nodes) = n
          /\ \A j \in 1 .. n : nodes[j] = path[j]
      <4>1. path[n] \in STRING
        <5>1. n \in 1 .. n
          BY <1>3
        <5> QED
          BY <1>3, <5>1, PathIsGiven
      <4>2. /\ nodes \in Seq(STRING) /\ Len(nodes) = Len(From) + 1
            /\ \A j \in 1 .. Len(From) + 1 :
                 nodes[j] = IF j <= Len(From) THEN From[j] ELSE <<path[n]>>[j - Len(From)]
        <5> DEFINE peer == <<path[n]>>
        <5>1. peer \in Seq(STRING) /\ Len(peer) = 1
          BY <4>1
        <5> HIDE DEF peer
        <5>2. /\ From \o peer \in Seq(STRING) /\ Len(From \o peer) = Len(From) + Len(peer)
              /\ \A j \in 1 .. Len(From) + Len(peer) :
                   (From \o peer)[j] = IF j <= Len(From) THEN From[j] ELSE peer[j - Len(From)]
          BY <1>5, <5>1, ConcatProperties
        <5> QED
          BY <5>1, <5>2 DEF peer
      <4>3. \A j \in 1 .. Len(From) : From[j] = path[j]
        BY PathIsGiven
      <4> HIDE DEF nodes
      <4>4. Len(From) + 1 = n
        <5> HIDE DEF n
        <5> QED
          BY <1>3, <1>5
      <4>5. ASSUME NEW j \in 1 .. n PROVE nodes[j] = path[j]
        <5>1. nodes[j] = IF j <= Len(From) THEN From[j] ELSE <<path[n]>>[j - Len(From)]
          BY <4>2, <4>4
        <5>2. CASE j = n
          <6>1. ~(j <= Len(From)) /\ j - Len(From) = 1
            <7> HIDE DEF n
            <7> QED
              BY <1>3, <1>5, <5>2
          <6> QED
            BY <5>1, <5>2, <6>1
        <5>3. CASE j # n
          <6>1. j \in 1 .. Len(From)
            <7> HIDE DEF n
            <7> QED
              BY <1>3, <1>5, <5>3
          <6>2. j <= Len(From)
            BY <6>1
          <6> QED
            BY <4>3, <5>1, <6>1, <6>2
        <5> QED
          BY <5>2, <5>3
      <4> QED
        BY <4>2, <4>4, <4>5
    <3> HIDE DEF nodes
    <3>5. LastFar(proxies, nodes, i)
      <4>1. DOMAIN nodes = 1 .. n
        BY <3>4, Indices
      <4> QED
        BY <1>3, <1>7, <3>4, <4>1 DEF LastFar
    <3>6. nodes[i] = path[i]
      BY <1>7, <3>4
    <3>7. clientFromXFF(proxies, client.forwarded \o nodes) = path[i]
      <4> HIDE DEF proxies
      <4> QED
        BY <1>6, <3>4, <3>5, <3>6, NodesAreFound
    <3>8. client.forwarded \o nodes # <<>>
      <4>1. nodes # <<>>
        <5>1. DOMAIN nodes = 1 .. n /\ i \in DOMAIN nodes
          BY <1>7, <3>4, Indices
        <5> QED
          BY <5>1
      <4> QED
        BY <1>6, <3>4, <4>1, ConcatEqualIffEmpty
    <3>9. extractClientInfo(Trust, Loopback, m)
            = ResolveClientIP(proxies, Loopback, client.forwarded \o nodes,
                              First(Get(m, RealIPKey), ""))
      BY <3>2, <3>3, <3>8, HopsAreRead
    <3>10. \A realIP : ResolveClientIP(proxies, Loopback, client.forwarded \o nodes, realIP) = path[i]
      BY <1>7, <3>1, <3>7 DEF ResolveClientIP
    <3> QED
      BY <2>2, <3>2, <3>9, <3>10 DEF AddressAt
  <2> QED
    BY <1>8, <2>4, <2>5
<1> QED
  BY <1>9, <1>10

(***************************************************************************)
(* Steps of a program's requests                                           *)
(***************************************************************************)

\* The faces whose handlers learn the client's address.
Informed == {"gateway", "grpc"}

\* Whether this face is asked.
OnFace(f) == face # <<>> /\ face[1] = f

\* Behind CSRF, an answer tells the address.
Tells(a, f) == a.by \notin {"none", "csrf"} => a.ip = AddressAt(f)

\* On its way through a face the request keeps what was added to it.
Asking(f) ==
  /\ f = "grpc" => pc \notin {"sent", "routed"}
  /\ pc = "called" => md = MdOf(f)
  /\ pc \in {"identified", "known", "allowed"} => answer.ip = AddressAt(f)
  /\ pc = "answered" => Tells(answer, f)

\* Where the program stands.
ProgramStands ==
  /\ face \in {<<"gateway", "extra", "grpc">>, <<"extra", "grpc">>, <<"grpc">>, <<>>}
  /\ pc # "asking"
  /\ pc \in Away => req = Request /\ face # <<>>
  /\ \A f \in Informed : Tells(results[f], f)
  /\ \A f \in Informed : OnFace(f) => Asking(f)

ProgramInv == PageInv /\ (client.kind = "program" => ProgramStands)

\* While the client stands, so do its request and where it is resolved.
LEMMA AddressStands ==
  ASSUME UNCHANGED <<conf, client, jar, token>>
  PROVE  /\ Request' = Request
         /\ \A f \in Informed : MdOf(f)' = MdOf(f) /\ AddressAt(f)' = AddressAt(f)
<1>1. Request' = Request /\ Trust' = Trust
  BY RequestStands DEF Trust
<1>2. \A f \in Informed : MdOf(f)' = MdOf(f) /\ PeerOf(f)' = PeerOf(f)
  BY <1>1 DEF MdOf, PeerOf, Informed
<1> QED
  BY <1>1, <1>2 DEF AddressAt, Informed

\* A step of a request on its way, while the client stays on one face.
LEMMA ProgramGoesOn ==
  ASSUME ProgramStands, UNCHANGED <<conf, client, jar, token, face, results>>,
         pc' # "asking", pc' \in Away => req' = Request /\ face # <<>>,
         \A f \in Informed : OnFace(f) =>
           /\ f = "grpc" => pc' \notin {"sent", "routed"}
           /\ pc' = "called" => md' = MdOf(f)
           /\ pc' \in {"identified", "known", "allowed"} => answer'.ip = AddressAt(f)
           /\ pc' = "answered" /\ answer'.by # "csrf" => answer'.ip = AddressAt(f)
  PROVE  ProgramStands'
<1>1. /\ Request' = Request
      /\ \A f \in Informed : MdOf(f)' = MdOf(f) /\ AddressAt(f)' = AddressAt(f)
  BY AddressStands
<1>2. (\A f \in Informed : Tells(results[f], f))'
  BY <1>1 DEF ProgramStands, Tells, Informed
<1>3. (\A f \in Informed : OnFace(f) => Asking(f))'
  BY <1>1 DEF OnFace, Asking, Tells, Informed
<1>4. face' \in {<<"gateway", "extra", "grpc">>, <<"extra", "grpc">>, <<"grpc">>, <<>>}
  BY DEF ProgramStands
<1>5. (pc \in Away => req = Request /\ face # <<>>)'
  BY <1>1
<1> QED
  BY <1>2, <1>3, <1>4, <1>5 DEF ProgramStands

\* An answer keeps the address that is known.
LEMMA AnswerTells ==
  ASSUME PageInv, ProgramStands, pc \in {"identified", "known", "allowed"},
         UNCHANGED <<conf, client, jar, token, face, results, req>>,
         NEW by, NEW err, Answer(by, err)
  PROVE  ProgramStands'
<1>1. pc' = "answered"
  BY DEF Answer, To
<1>2. answer'.ip = answer.ip
  BY DEF Answer, PageInv, NoAnswer
<1>3. \A f \in Informed : OnFace(f) => answer.ip = AddressAt(f)
  BY DEF ProgramStands, Asking
<1>4. req = Request /\ face # <<>>
  BY DEF ProgramStands, Away, Inside
<1> QED
  BY <1>1, <1>2, <1>3, <1>4, ProgramGoesOn

\* A stage that lets the request through leaves the address alone.
LEMMA PassingTells ==
  ASSUME ProgramStands, pc \in {"identified", "known"}, pc' \in {"known", "allowed"},
         UNCHANGED <<conf, client, jar, token, face, results, req, answer>>
  PROVE  ProgramStands'
<1>1. \A f \in Informed : OnFace(f) => answer.ip = AddressAt(f)
  BY DEF ProgramStands, Asking
<1>2. req = Request /\ face # <<>>
  BY DEF ProgramStands, Away, Inside
<1> QED
  BY <1>1, <1>2, ProgramGoesOn

\* Every step keeps the program's addresses.
LEMMA ProgramStepKeeps ==
  ASSUME PageInv, client.kind = "program", ProgramStands, Next
  PROVE  ProgramStands'
<1>1. CASE Issue \/ ReadToken
  BY <1>1 DEF Issue, ReadToken, Browsing
<1>2. CASE Depart
  <2>1. /\ UNCHANGED <<conf, client, jar, token, face, answer, results>>
        /\ face # <<>> /\ req' = Request
        /\ pc' = IF face[1] = "grpc" THEN "called" ELSE "sent"
        /\ face[1] = "grpc" => md' = Request.headers
    BY <1>2 DEF Depart, To
  <2>2. MdOf("grpc") = Request.headers
    BY DEF MdOf
  <2> QED
    BY <2>1, <2>2, ProgramGoesOn DEF OnFace, Informed
<1>3. CASE Ask
  BY <1>3 DEF Ask, ProgramStands
<1>4. CASE Admit
  <2>1. /\ UNCHANGED <<conf, client, jar, token, face, req, md, results>> /\ pc = "sent"
    BY <1>4 DEF Admit
  <2>2. req = Request /\ face # <<>> /\ \A f \in Informed : OnFace(f) => f # "grpc"
    BY <2>1 DEF ProgramStands, Asking, Away, Inside
  <2>3. \/ pc' = "routed"
        \/ pc' = "answered" /\ answer'.by = "csrf"
    BY <1>4 DEF Admit, To, PageInv, NoAnswer
  <2> QED
    BY <2>1, <2>2, <2>3, ProgramGoesOn
<1>5. CASE Route
  <2>1. /\ UNCHANGED <<conf, client, jar, token, face, req, results>>
        /\ pc = "routed" /\ pc' = "called"
    BY <1>5 DEF Route, To
  <2>2. req = Request /\ face # <<>> /\ \A f \in Informed : OnFace(f) => f # "grpc"
    BY <2>1 DEF ProgramStands, Asking, Away, Inside
  <2>3. face[1] = "gateway" => md' = MdOf("gateway")
    BY <1>5, <2>2 DEF Route, MdOf
  <2> QED
    BY <2>1, <2>2, <2>3, ProgramGoesOn DEF OnFace, Informed
<1>6. CASE Identify
  <2>1. /\ UNCHANGED <<conf, client, jar, token, face, req, md, results>>
        /\ pc = "called" /\ pc' = "identified"
    BY <1>6 DEF Identify, To
  <2>2. req = Request /\ face # <<>>
    BY <2>1 DEF ProgramStands, Away, Inside
  <2>3. ASSUME NEW f \in Informed, OnFace(f)
        PROVE  answer'.ip = AddressAt(f)
    <3>1. face[1] = f /\ f # "extra" /\ md = MdOf(f)
      BY <2>1, <2>3 DEF ProgramStands, Asking, OnFace, Informed
    <3>2. PeerIP = PeerOf(f)
      BY <2>2, <2>3, <3>1 DEF PeerIP, PeerOf, Informed
    <3>3. answer'.ip = extractClientInfo(Trust, PeerIP, md)
      BY <1>6, <3>1 DEF Identify, PageInv, NoAnswer
    <3> QED
      BY <3>1, <3>2, <3>3 DEF AddressAt
  <2> QED
    BY <2>1, <2>2, <2>3, ProgramGoesOn
<1>7. CASE Authenticate
  <2>1. pc = "identified" /\ UNCHANGED <<conf, client, jar, token, face, req, results>>
    BY <1>7 DEF Authenticate
  <2>2. CASE pc' = "known" /\ answer' = answer
    BY <2>1, <2>2, PassingTells
  <2>3. CASE \E code : Refuse("authn", code)
    BY <2>1, <2>3, AnswerTells DEF Refuse
  <2> QED
    BY <1>7, <2>2, <2>3 DEF Authenticate, To
<1>8. CASE Authorize
  <2>1. pc = "known" /\ UNCHANGED <<conf, client, jar, token, face, req, results>>
    BY <1>8 DEF Authorize
  <2>2. CASE pc' = "allowed" /\ answer' = answer
    BY <2>1, <2>2, PassingTells
  <2>3. CASE \E code : Refuse("authz", code)
    BY <2>1, <2>3, AnswerTells DEF Refuse
  <2> QED
    BY <1>8, <2>2, <2>3 DEF Authorize, To
<1>9. CASE Handle
  BY <1>9, AnswerTells DEF Handle
<1>10. CASE Finish
  <2>1. /\ UNCHANGED <<conf, client, jar, token>> /\ pc = "answered" /\ pc' \in {"done", "idle"}
        /\ results' = [results EXCEPT ![face[1]] = answer] /\ face' = Tail(face)
    BY <1>10 DEF Finish, To
  <2>2. face # <<>> /\ DOMAIN results = Faces
    BY <2>1 DEF ProgramStands, PageInv, Away
  <2>3. face' \in {<<"extra", "grpc">>, <<"grpc">>, <<>>}
    <3>1. face \in {<<"gateway", "extra", "grpc">>, <<"extra", "grpc">>, <<"grpc">>}
      BY <2>2 DEF ProgramStands
    <3>2. /\ Tail(<<"gateway", "extra", "grpc">>) = <<"extra", "grpc">>
          /\ Tail(<<"extra", "grpc">>) = <<"grpc">> /\ Tail(<<"grpc">>) = <<>>
      OBVIOUS
    <3> QED
      BY <2>1, <3>1, <3>2
  <2>4. \A f \in Informed : MdOf(f)' = MdOf(f) /\ AddressAt(f)' = AddressAt(f)
    BY <2>1, AddressStands
  <2>5. ASSUME NEW f \in Informed PROVE Tells(results'[f], f)
    <3>1. CASE face[1] = f
      <4>1. results'[f] = answer
        BY <2>1, <2>2, <2>5, <3>1 DEF Informed, Faces
      <4>2. Tells(answer, f)
        BY <2>1, <2>2, <2>5, <3>1 DEF ProgramStands, Asking, OnFace
      <4> QED
        BY <4>1, <4>2
    <3>2. CASE face[1] # f
      <4>1. results'[f] = results[f]
        BY <2>1, <2>2, <2>5, <3>2 DEF Informed, Faces
      <4> QED
        BY <2>5, <4>1 DEF ProgramStands
    <3> QED
      BY <3>1, <3>2
  <2>6. (\A f \in Informed : Tells(results[f], f))'
    BY <2>4, <2>5 DEF Tells, Informed
  <2>7. (\A f \in Informed : OnFace(f) => Asking(f))'
    BY <2>1 DEF Asking, Informed
  <2> QED
    BY <2>1, <2>3, <2>6, <2>7 DEF ProgramStands, Away, Inside
<1> QED
  BY <1>1, <1>2, <1>3, <1>4, <1>5, <1>6, <1>7, <1>8, <1>9, <1>10 DEF Next

\* ProgramInv is inductive.
LEMMA ProgramKeeps ==
  ASSUME ProgramInv, [Next]_vars
  PROVE  ProgramInv'
<1>1. PageInv'
  BY FrontStepKeeps DEF ProgramInv
<1>2. ASSUME client'.kind = "program" PROVE ProgramStands'
  <2>1. CASE Next
    <3>1. client' = client
      BY <2>1 DEF Next, Issue, ReadToken, Depart, Ask, Admit, Route, Identify, Authenticate,
                  Authorize, Handle, Finish
    <3> QED
      BY <1>2, <2>1, <3>1, ProgramStepKeeps DEF ProgramInv
  <2>2. CASE UNCHANGED vars
    <3>1. ProgramStands
      BY <1>2, <2>2 DEF ProgramInv, vars
    <3>2. /\ Request' = Request
          /\ \A f \in Informed : MdOf(f)' = MdOf(f) /\ AddressAt(f)' = AddressAt(f)
      BY <2>2, AddressStands DEF vars
    <3>3. (\A f \in Informed : Tells(results[f], f))'
      BY <2>2, <3>1, <3>2 DEF ProgramStands, Tells, Informed, vars
    <3>4. (\A f \in Informed : OnFace(f) => Asking(f))'
      BY <2>2, <3>1, <3>2 DEF ProgramStands, OnFace, Asking, Tells, Informed, vars
    <3> QED
      BY <2>2, <3>1, <3>2, <3>3, <3>4 DEF ProgramStands, vars, Away, Inside
  <2> QED
    BY <2>1, <2>2
<1> QED
  BY <1>1, <1>2 DEF ProgramInv

\* ProgramInv holds of the initial states.
LEMMA ProgramStarts ==
  ASSUME Init
  PROVE  ProgramInv
<1>1. PageInv
  BY FrontStarts
<1>2. ASSUME client.kind = "program" PROVE ProgramStands
  <2>1. pc = "idle" /\ face = <<"gateway", "extra", "grpc">>
    BY <1>2 DEF Init
  <2>2. \A f \in Informed : results[f].by = "none"
    BY DEF Init, Informed, Faces, NoAnswer
  <2>3. \A f \in Informed : Tells(results[f], f)
    BY <2>2 DEF Tells
  <2>4. \A f \in Informed : OnFace(f) => Asking(f)
    BY <2>1 DEF Asking
  <2> QED
    BY <2>1, <2>3, <2>4 DEF ProgramStands, Away, Inside
<1> QED
  BY <1>1, <1>2 DEF ProgramInv

\* For any networks that are trusted, any header policy, any path and whatever
\* hops and headers the client writes: where Traceable says that the path can be
\* told, the address is that of its last node that is not a trusted proxy.  Over
\* the network that leaves out the requests whose header the gateway renames to
\* X-Forwarded-For: of those the server reads what the client wrote.
THEOREM AddressesAreHonest == Spec => []AddressIsHonest
<1>1. ProgramInv => AddressIsHonest
  <2> SUFFICES ASSUME ProgramInv, client.kind = "program", NEW f \in {"gateway", "grpc"},
                      Done(f), results[f].by # "csrf", Traceable(f),
                      NEW i \in DOMAIN client.path,
                      ~Trusted(ParseTrustedProxies(Trust), client.path[i]),
                      \A j \in DOMAIN client.path :
                        j > i => ~~Trusted(ParseTrustedProxies(Trust), client.path[j])
               PROVE  results[f].ip = client.path[i]
    BY DEF AddressIsHonest
  <2>1. PageInv /\ ProgramStands
    BY DEF ProgramInv
  <2>2. results[f].ip = AddressAt(f)
    BY <2>1 DEF ProgramStands, Tells, Done, Informed
  <2>3. LastFar(ParseTrustedProxies(Trust), client.path, i)
    BY <2>1, PathIsGiven DEF LastFar
  <2> QED
    BY <2>1, <2>2, <2>3, AddressFound
<1> QED
  BY <1>1, ProgramStarts, ProgramKeeps, PTL DEF Spec

(***************************************************************************)
(* What errors tell                                                        *)
(***************************************************************************)

\* The codes of what went wrong inside, and those of the other refusals.
Inner    == {"internal", "unknown"} \cup Statusless
Refusals == {"permission denied", "unauthenticated", "unavailable"}

\* The bare errors of a context, and the codes that gRPC gives them.
Bare  == {"context.DeadlineExceeded", "context.Canceled"}
Ended == {"deadline exceeded", "canceled"}

\* An answer of an HTTP face that is a 500 and not the handler's own choice.
Silent(a) ==
  /\ a.status = 500
  /\ a.by = "handler" => client.outcome.code \in Inner
  => a.message = "generic"

\* HTTP faces are silent in their results and in the answer on its way.
SilentInv ==
  /\ DOMAIN answer = DOMAIN NoAnswer /\ DOMAIN results = Faces
  /\ \A f \in Faces \ {"grpc"} : Silent(results[f])
  /\ pc = "answered" /\ face[1] # "grpc" => Silent(answer)

\* The first of three values that is not none is one of them.
LEMMA FirstOfThree ==
  ASSUME NEW none, NEW a, NEW b, NEW c
  PROVE  FirstBut(none, <<a, b, c>>) \in {none, a, b, c}
<1> DEFINE values == <<a, b, c>>
           others == {i \in DOMAIN values : values[i] # none}
           least == CHOOSE i \in others : \A j \in others : i <= j
<1>1. DOMAIN values = {1, 2, 3} /\ values[1] = a /\ values[2] = b /\ values[3] = c
  OBVIOUS
<1>2. FirstBut(none, values) = IF others = {} THEN none ELSE values[least]
  BY DEF FirstBut
<1> HIDE DEF values
<1>3. CASE others = {}
  BY <1>2, <1>3 DEF values
<1>4. CASE others # {}
  <2>1. \E i \in others : \A j \in others : i <= j
    BY <1>1, <1>4
  <2>2. least \in others
    BY <2>1
  <2>3. others \subseteq {1, 2, 3}
    BY <1>1
  <2>4. values[least] \in {a, b, c}
    BY <1>1, <2>2, <2>3
  <2> QED
    BY <1>2, <1>4, <2>4 DEF values
<1> QED
  BY <1>3, <1>4

\* Authentication is refused as Unavailable or as Unauthenticated.
LEMMA RefusalsOfAuthn ==
  ASSUME NEW creds, NEW lenient
  PROVE  authenticate(creds, lenient).code \in {"ok", "unavailable", "unauthenticated"}
<1> DEFINE Reported == {"ok", "unavailable", "unauthenticated"}
<1>1. Nobody.code = "ok"
  BY DEF Nobody
<1>2. \A code : Refused(code).code = code
  BY DEF Refused
<1>3. \A kind, scopes : Principal(kind, scopes).code = "ok"
  BY DEF Principal
<1>4. AuthenticateJWT(creds) = Unknown \/ AuthenticateJWT(creds).code \in Reported
  BY <1>2, <1>3 DEF AuthenticateJWT
<1>5. AuthenticateKey(creds) = Unknown \/ AuthenticateKey(creds).code \in Reported
  BY <1>2, <1>3 DEF AuthenticateKey
<1>6. AuthenticateSession(creds) = Unknown \/ AuthenticateSession(creds).code \in Reported
  BY <1>2, <1>3 DEF AuthenticateSession
<1>7. ChainAuthenticate(creds) = Unknown \/ ChainAuthenticate(creds).code \in Reported
  <2>1. ChainAuthenticate(creds) \in {Unknown, AuthenticateJWT(creds), AuthenticateKey(creds),
                                      AuthenticateSession(creds)}
    BY FirstOfThree DEF ChainAuthenticate
  <2> QED
    BY <1>4, <1>5, <1>6, <2>1
<1> QED
  BY <1>1, <1>2, <1>7 DEF authenticate

\* A refusal of the decider is an error, or says what it is.
LEMMA RefusalsOfAuthz ==
  ASSUME NEW p, NEW present, NEW ev, decidePolicy(p, present, ev) # "allow"
  PROVE  CodeOf(decidePolicy(p, present, ev)) \in {"internal"} \cup Refusals
BY DEF Refusals, decidePolicy, CodeOf, AnyOfError, AnyOfMatch

\* No refusal of the stages is a 500, and no end of a context.
LEMMA StatusOfCodes ==
  \A code \in Refusals \cup Ended : DefaultCodeToHTTP(code) # 500
<1>1. \A n : /\ (n = 403 => n # 500) /\ (n = 401 => n # 500) /\ (n = 503 => n # 500)
             /\ (n = 504 => n # 500) /\ (n = 499 => n # 500)
  OBVIOUS
<1>2. DefaultCodeToHTTP("permission denied") # 500
  <2>1. DefaultCodeToHTTP("permission denied") = 403
    BY DEF DefaultCodeToHTTP
  <2> QED
    BY <1>1, <2>1, Zenon
<1>3. DefaultCodeToHTTP("unauthenticated") # 500
  <2>1. DefaultCodeToHTTP("unauthenticated") = 401
    BY DEF DefaultCodeToHTTP
  <2> QED
    BY <1>1, <2>1, Zenon
<1>4. DefaultCodeToHTTP("unavailable") # 500
  <2>1. DefaultCodeToHTTP("unavailable") = 503
    BY DEF DefaultCodeToHTTP
  <2> QED
    BY <1>1, <2>1, Zenon
<1>5. DefaultCodeToHTTP("deadline exceeded") # 500
  <2>1. DefaultCodeToHTTP("deadline exceeded") = 504
    BY DEF DefaultCodeToHTTP
  <2> QED
    BY <1>1, <2>1, Zenon
<1>6. DefaultCodeToHTTP("canceled") # 500
  <2>1. DefaultCodeToHTTP("canceled") = 499
    BY DEF DefaultCodeToHTTP
  <2> QED
    BY <1>1, <2>1, Zenon
<1> QED
  BY <1>2, <1>3, <1>4, <1>5, <1>6 DEF Refusals, Ended

\* The status that an error has, or is given.
LEMMA StatusIsGiven ==
  ASSUME NEW err, "code" \in DOMAIN err
  PROVE  /\ err.code \notin Statusless => StatusOf(err) = err
         /\ err.code = "plain" => StatusOf(err).code = "unknown"
         /\ err.code \in Bare => StatusOf(err).code \in Ended
         /\ Statusless = {"plain"} \cup Bare
<1>1. Statusless = {"plain"} \cup Bare
  BY DEF Statusless, Bare
<1>2. err.code \notin Statusless => StatusOf(err) = err
  BY DEF StatusOf, Statusless
<1>3. err.code = "plain" => StatusOf(err).code = "unknown"
  BY DEF StatusOf
<1>4. err.code = "context.DeadlineExceeded" => StatusOf(err).code = "deadline exceeded"
  BY DEF StatusOf
<1>5. err.code = "context.Canceled" => StatusOf(err).code = "canceled"
  BY DEF StatusOf
<1> QED
  BY <1>1, <1>2, <1>3, <1>4, <1>5 DEF Bare, Ended

\* What the two HTTP faces make of an error.
LEMMA EncodedSilently ==
  ASSUME NEW err, "code" \in DOMAIN err, face[1] # "grpc",
         err.code \in Inner \cup Refusals
  PROVE  Encoded(err).status = 500 => Encoded(err).message = "generic"
<1>1. PICK st : /\ Encoded(err) = encodeError(st)
                /\ st.code \in Inner \cup Refusals \cup Ended
  <2>1. /\ \A code \in Inner \cup Refusals \cup Ended : code # "ok"
        /\ "unknown" \in Inner
    BY DEF Inner, Refusals, Ended, Statusless
  <2>2. CASE face[1] = "extra"
    BY <2>1, <2>2 DEF Encoded
  <2>3. CASE face[1] # "extra"
    <3>1. StatusOf(err).code \in Inner \cup Refusals \cup Ended
      <4> HIDE DEF Inner, Refusals, Ended, Statusless, Bare
      <4> QED
        BY <2>1, StatusIsGiven
    <3> QED
      BY <2>1, <2>3, <3>1 DEF Encoded
  <2> QED
    BY <2>2, <2>3
<1>2. CASE st.code \in Statusless
  <2> DEFINE inner == [code |-> "internal", message |-> "generic", retry |-> 0]
  <2>1. inner.code = "internal" /\ sanitize(inner.code)
    BY DEF sanitize
  <2>2. encodeError(st).message = "generic"
    BY <1>2, <2>1 DEF encodeError
  <2> QED
    BY <1>1, <2>2
<1>3. CASE st.code \in {"internal", "unknown"}
  <2>1. sanitize(st.code) /\ st.code \notin Statusless
    BY <1>3 DEF sanitize, Statusless
  <2>2. encodeError(st).message = "generic"
    BY <1>3, <2>1 DEF encodeError
  <2> QED
    BY <1>1, <2>2
<1>4. CASE st.code \notin {"internal", "unknown"} \cup Statusless
  <2>1. st.code \in Refusals \cup Ended
    BY <1>1, <1>4 DEF Inner
  <2>2. DefaultCodeToHTTP(st.code) # 500
    BY <2>1, StatusOfCodes
  <2>3. encodeError(st).status = DefaultCodeToHTTP(st.code)
    BY <1>4 DEF encodeError
  <2> QED
    BY <1>1, <2>2, <2>3
<1> QED
  BY <1>2, <1>3, <1>4

\* An answer that refuses, and one of the handler, is silent.
LEMMA AnswerIsSilent ==
  ASSUME SilentInv, UNCHANGED <<client, face, results>>,
         NEW by, NEW err, "code" \in DOMAIN err, Answer(by, err),
         \/ by = "handler" /\ err = client.outcome
         \/ /\ by # "handler"
            /\ err.code \in {"internal"} \cup Refusals
  PROVE  SilentInv'
<1>1. DOMAIN answer' = DOMAIN answer
  BY DEF Answer
<1>2. /\ answer'.by = by /\ answer'.status = Encoded(err).status
      /\ answer'.message = Encoded(err).message
  BY DEF Answer, SilentInv, NoAnswer
<1>3. ASSUME NEW a, a = answer', face[1] # "grpc" PROVE Silent(a)
  <2>1. CASE by = "handler" /\ err = client.outcome
    <3>1. err.code \in Inner => (Encoded(err).status = 500 => Encoded(err).message = "generic")
      BY <1>3, EncodedSilently
    <3> QED
      BY <1>2, <1>3, <2>1, <3>1 DEF Silent
  <2>2. CASE by # "handler" /\ err.code \in {"internal"} \cup Refusals
    <3>1. err.code \in Inner \cup Refusals
      BY <2>2 DEF Inner
    <3>2. Encoded(err).status = 500 => Encoded(err).message = "generic"
      BY <1>3, <3>1, EncodedSilently
    <3> QED
      BY <1>2, <1>3, <3>2 DEF Silent
  <2> QED
    BY <2>1, <2>2
<1>4. (\A f \in Faces \ {"grpc"} : Silent(results[f]))'
  BY DEF SilentInv, Silent, Faces
<1>5. (pc = "answered" /\ face[1] # "grpc" => Silent(answer))'
  <2>1. face[1] # "grpc" => Silent(answer')
    BY <1>3
  <2> QED
    BY <2>1 DEF Silent
<1> QED
  BY <1>1, <1>4, <1>5 DEF SilentInv, NoAnswer, Faces

\* A refusal says one of three things, and Internal to HTTP clients silently.
LEMMA RefusalIsSilent ==
  ASSUME SilentInv, UNCHANGED <<client, face, results>>,
         NEW by, by # "handler",
         NEW code \in {"internal"} \cup Refusals,
         Refuse(by, code)
  PROVE  SilentInv'
<1> DEFINE err == [code |-> code, message |-> "reason", retry |-> 0]
<1>1. "code" \in DOMAIN err /\ err.code = code
  OBVIOUS
<1>2. Answer(by, err)
  BY DEF Refuse
<1> HIDE DEF err
<1> QED
  BY <1>1, <1>2, AnswerIsSilent

\* Every step keeps the HTTP faces silent.
LEMMA SilentStepKeeps ==
  ASSUME PageInv, SilentInv, Next
  PROVE  SilentInv'
<1>1. client' = client
  BY DEF Next, Issue, ReadToken, Depart, Ask, Admit, Route, Identify, Authenticate,
         Authorize, Handle, Finish
<1>2. PageInv /\ SilentInv
  OBVIOUS
<1>3. ASSUME UNCHANGED results, DOMAIN answer' = DOMAIN answer,
             pc' = "answered" => answer'.status # 500
      PROVE  SilentInv'
  <2>1. (\A f \in Faces \ {"grpc"} : Silent(results[f]))'
    BY <1>1, <1>3 DEF SilentInv, Silent, Faces
  <2>2. (pc = "answered" /\ face[1] # "grpc" => Silent(answer))'
    BY <1>3 DEF Silent
  <2> QED
    BY <1>3, <2>1, <2>2 DEF SilentInv, NoAnswer, Faces
<1>4. CASE Issue \/ ReadToken \/ Depart \/ Route \/ Identify
  <2>1. UNCHANGED results /\ DOMAIN answer' = DOMAIN answer
    BY <1>4 DEF Issue, ReadToken, Depart, Route, Identify
  <2>2. pc' # "answered"
    BY <1>4 DEF Issue, ReadToken, Browsing, Depart, Route, Identify, To
  <2> QED
    BY <1>3, <2>1, <2>2
<1>5. CASE Ask
  <2>1. /\ UNCHANGED results
        /\ \/ pc' = "sent" /\ answer' = answer
           \/ answer' = [NoAnswer EXCEPT !.by = "browser"]
    BY <1>5 DEF Ask, To
  <2>2. /\ DOMAIN [NoAnswer EXCEPT !.by = "browser"] = DOMAIN NoAnswer
        /\ [NoAnswer EXCEPT !.by = "browser"].status = 0
    BY DEF NoAnswer
  <2>3. DOMAIN answer' = DOMAIN answer
    BY <2>1, <2>2 DEF SilentInv
  <2>4. pc' = "answered" => answer'.status # 500
    <3>1. CASE pc' = "sent"
      BY <3>1
    <3>2. CASE answer' = [NoAnswer EXCEPT !.by = "browser"]
      <4>1. answer'.status = 0
        BY <2>2, <3>2
      <4> QED
        BY <4>1
    <3> QED
      BY <2>1, <3>1, <3>2
  <2> QED
    BY <1>3, <2>1, <2>3, <2>4
<1>6. CASE Admit
  <2>1. /\ UNCHANGED results
        /\ \/ pc' = "routed" /\ answer' = answer
           \/ answer' = [answer EXCEPT !.by = "csrf", !.status = 403, !.message = "csrf", !.marks = Marks]
    BY <1>6 DEF Admit, To
  <2>2. DOMAIN answer' = DOMAIN answer
    BY <2>1
  <2>3. pc' = "answered" => answer'.status # 500
    <3>1. CASE pc' = "routed"
      BY <3>1
    <3>2. CASE answer' = [answer EXCEPT !.by = "csrf", !.status = 403, !.message = "csrf", !.marks = Marks]
      <4>1. "status" \in DOMAIN answer
        BY DEF SilentInv, NoAnswer
      <4>2. answer'.status = 403
        BY <3>2, <4>1
      <4> QED
        BY <4>2
    <3> QED
      BY <2>1, <3>1, <3>2
  <2> QED
    BY <1>3, <2>1, <2>2, <2>3
<1>7. CASE Authenticate
  <2>1. UNCHANGED <<client, face, results>>
    BY <1>7 DEF Authenticate
  <2>2. PICK creds, lenient :
             LET p == authenticate(creds, lenient)
             IN  IF p.code = "ok" THEN pc' = "known" /\ answer' = answer
                 ELSE Refuse("authn", p.code)
    <3>1. CASE face[1] = "extra"
      BY <1>7, <3>1 DEF Authenticate, To
    <3>2. CASE face[1] # "extra"
      BY <1>7, <3>2 DEF Authenticate, To
    <3> QED
      BY <3>1, <3>2
  <2>3. CASE authenticate(creds, lenient).code = "ok"
    BY <1>3, <2>1, <2>2, <2>3
  <2>4. CASE authenticate(creds, lenient).code # "ok"
    <3>1. Refuse("authn", authenticate(creds, lenient).code)
      BY <2>2, <2>4
    <3>2. authenticate(creds, lenient).code \in {"unavailable", "unauthenticated"}
      BY <2>4, RefusalsOfAuthn
    <3>3. authenticate(creds, lenient).code \in {"internal"} \cup Refusals
      BY <3>2 DEF Refusals
    <3> QED
      BY <2>1, <3>1, <3>3, RefusalIsSilent
  <2> QED
    BY <2>3, <2>4
<1>8. CASE Authorize
  <2>1. UNCHANGED <<client, face, results>>
    BY <1>8 DEF Authorize
  <2> DEFINE decision == decidePolicy(conf.policy, who # Nobody,
                                      [r \in requirementsOf(conf.policy) |-> Evaluate(r)])
  <2>2. IF decision = "allow" THEN pc' = "allowed" /\ answer' = answer
        ELSE Refuse("authz", CodeOf(decision))
    BY <1>8 DEF Authorize, To
  <2>3. decision # "allow" =>
          CodeOf(decision) \in {"internal"} \cup Refusals
    BY RefusalsOfAuthz
  <2> HIDE DEF decision
  <2>4. CASE decision = "allow"
    BY <1>3, <2>1, <2>2, <2>4
  <2>5. CASE decision # "allow"
    BY <2>1, <2>2, <2>3, <2>5, RefusalIsSilent
  <2> QED
    BY <2>4, <2>5
<1>9. CASE Handle
  <2>1. UNCHANGED <<client, face, results>> /\ Answer("handler", client.outcome)
    BY <1>9 DEF Handle
  <2>2. client.outcome \in [code : STRING, message : STRING, retry : Nat]
    BY FrontAssumption DEF PageInv
  <2>3. "code" \in DOMAIN client.outcome
    BY <2>2
  <2> QED
    BY <2>1, <2>3, AnswerIsSilent
<1>10. CASE Finish
  <2>1. /\ results' = [results EXCEPT ![face[1]] = answer] /\ answer' = NoAnswer
        /\ pc = "answered" /\ pc' \in {"done", "idle"}
    BY <1>10 DEF Finish, To
  <2>2. ASSUME NEW f \in Faces \ {"grpc"} PROVE Silent(results'[f])
    BY <2>1, <2>2 DEF SilentInv
  <2>3. (\A f \in Faces \ {"grpc"} : Silent(results[f]))'
    BY <1>1, <2>2 DEF Silent, Faces
  <2>4. DOMAIN results' = Faces
    BY <2>1 DEF SilentInv
  <2> QED
    BY <2>1, <2>3, <2>4 DEF SilentInv, NoAnswer, Faces
<1> QED
  BY <1>4, <1>5, <1>6, <1>7, <1>8, <1>9, <1>10 DEF Next

\* For any authenticators' answers, any policy and any outcome of the handler:
\* what went wrong inside is not told to clients of the HTTP faces.
THEOREM ErrorsAreSilent == Spec => []InternalsStayInside
<1>1. Init => PageInv /\ SilentInv
  <2> SUFFICES ASSUME Init PROVE PageInv /\ SilentInv
    OBVIOUS
  <2>1. \A f \in Faces : results[f] = NoAnswer /\ NoAnswer.status = 0
    BY DEF Init, NoAnswer
  <2>2. \A f \in Faces \ {"grpc"} : Silent(results[f])
    BY <2>1 DEF Silent
  <2>3. pc = "idle" /\ answer = NoAnswer /\ DOMAIN results = Faces
    BY DEF Init
  <2> QED
    BY <2>2, <2>3, FrontStarts DEF SilentInv
<1>2. PageInv /\ SilentInv /\ [Next]_vars => (PageInv /\ SilentInv)'
  <2> SUFFICES ASSUME PageInv, SilentInv, [Next]_vars PROVE (PageInv /\ SilentInv)'
    OBVIOUS
  <2>1. PageInv'
    BY FrontStepKeeps
  <2>2. CASE UNCHANGED vars
    <3>1. (\A f \in Faces \ {"grpc"} : Silent(results[f]))'
      BY <2>2 DEF SilentInv, Silent, Faces, vars
    <3>2. (pc = "answered" /\ face[1] # "grpc" => Silent(answer))'
      BY <2>2 DEF SilentInv, Silent, vars
    <3> QED
      BY <2>1, <2>2, <3>1, <3>2 DEF SilentInv, NoAnswer, Faces, vars
  <2> QED
    BY <2>1, <2>2, SilentStepKeeps
<1>3. SilentInv => InternalsStayInside
  BY DEF SilentInv, Silent, Inner, InternalsStayInside
<1> QED
  BY <1>1, <1>2, <1>3, PTL DEF Spec

(***************************************************************************)
(* What the faces make of one request                                      *)
(***************************************************************************)

\* What the request states of its caller to face f.
Creds(f) ==
  IF f = "extra" THEN ExtractHTTP(Request.headers, Certs("extra")) ELSE Extract(MdOf(f), Certs(f))

\* The headers that Uniform names, at those of the request.
LEMMA UniformMeans ==
  ASSUME PageInv, Uniform
  PROVE  /\ \A k \in {"cookie", "x-api-key"} : k \in Lists.allow \ Lists.deny
         /\ "x-ticket" \notin DOMAIN Request.headers
         /\ "authorization" \in DOMAIN Request.headers => "authorization" \notin Lists.allow \ Lists.deny
         /\ \A k \in {"authorization", "x-api-key", "cookie", "x-ticket"} : OtherOf(k) = <<>>
         /\ \A f \in Faces : Certs(f) = <<>>
<1>1. \A name \in {"authorization", "x-ticket"} :
        name \in DOMAIN Request.headers => name \in DOMAIN client.headers
  BY DEF Request, AddedNames, RealIPKey, ForwardedForKey
<1>2. \A k \in {"authorization", "x-api-key", "cookie", "x-ticket"} : OtherOf(k) = <<>>
  <2>1. {"authorization", "x-api-key", "cookie", "x-ticket"} \subseteq MetadataRead
    BY DEF MetadataRead
  <2>2. \A k \in {"authorization", "x-api-key", "cookie", "x-ticket"} : ~Renamed(k)
    BY DEF Uniform
  <2> QED
    BY <2>1, <2>2, AddedAreKnown DEF OtherOf
<1>3. \A f \in Faces : Certs(f) = <<>>
  BY DEF Uniform, Certs
<1>4. /\ \A k \in {"cookie", "x-api-key"} : k \in Lists.allow \ Lists.deny
      /\ "authorization" \in DOMAIN client.headers => "authorization" \notin Lists.allow \ Lists.deny
      /\ "x-ticket" \notin DOMAIN client.headers
  BY DEF Uniform, Lists
<1> QED
  BY <1>1, <1>2, <1>3, <1>4

\* The values of the headers with credentials are sequences.
LEMMA HeadersHoldSequences ==
  ASSUME PageInv, NEW k \in {"cookie", "x-api-key", "authorization"}
  PROVE  IsSequence(Get(Request.headers, k))
<1>1. PICK x \in Case : conf = x.conf /\ client = x.client
  BY DEF PageInv
<1>2. client.kind \in {"page", "program"}
  BY <1>1, FrontAssumption
<1>3. IsSequence(<<>>) /\ \A v : IsSequence(<<v>>)
  BY ShortSequences
<1>4. CASE client.kind = "program"
  <2>1. \A name \in DOMAIN Request.headers : IsSequence(Request.headers[name])
    BY <1>4, ProgramStates
  <2> QED
    BY <1>3, <2>1 DEF Get
<1>5. CASE client.kind = "page"
  <2>1. Get(Request.headers, "cookie")
          = Given(IF Page.credentials \/ Page.origin = Server THEN jar ELSE NoCookies, NoCookies)
    BY <1>5, PageStates
  <2>2. \A v, absent : IsSequence(Given(v, absent))
    BY <1>3 DEF Given
  <2>3. IsSequence(Get(Request.headers, "cookie"))
    BY <2>1, <2>2
  <2>4. DOMAIN client.headers = {}
    BY <1>5, PageIsGiven
  <2>5. \A name \in {"x-api-key", "authorization"} : Get(Request.headers, name) = <<>>
    BY <2>4 DEF Get, Request, AddedNames, RealIPKey, ForwardedForKey
  <2> QED
    BY <1>3, <2>3, <2>5
<1> QED
  BY <1>2, <1>4, <1>5

\* The metadata that the gateway makes of headers, where none is named twice.
LEMMA MetadataOfHeaders ==
  ASSUME PageInv, Uniform, NEW added, DOMAIN added = {ClientIPKey, ForwardedForKey},
         NEW k \in {"cookie", "x-api-key", "authorization", "x-ticket"}
  PROVE  Get(annotateContext(conf.headers, Request, added), k) = Get(Request.headers, k)
<1> DEFINE value == Get(Request.headers, k)
<1>1. k \in MetadataRead /\ k # ForwardedForKey /\ Get(added, k) = <<>>
  BY DEF MetadataRead, Get, ClientIPKey, ForwardedForKey
<1>2. Get(annotateContext(conf.headers, Request, added), k) = GotThrough(k) \o <<>> \o <<>>
  BY <1>1, GatewayPasses
<1>3. OtherOf(k) = <<>>
  BY UniformMeans
<1>4. IsSequence(value)
  <2>1. k = "x-ticket" => value = <<>>
    BY UniformMeans DEF Get
  <2> QED
    BY <2>1, HeadersHoldSequences, ShortSequences
<1>5. value \o <<>> = value /\ <<>> \o value = value
  BY <1>4, NothingJoins
<1>6. <<>> \o <<>> = <<>>
  OBVIOUS
<1>7. k \notin DOMAIN Request.headers => value = <<>>
  BY DEF Get
<1>8. OwnOf(k) = (IF k = "authorization" THEN value ELSE <<>>)
                   \o (IF k \in Lists.allow \ Lists.deny THEN value ELSE <<>>)
  BY <1>1 DEF OwnOf
<1> HIDE DEF value
<1>9. OwnOf(k) = value
  <2>1. CASE k = "authorization"
    <3>1. value = <<>> \/ k \notin Lists.allow \ Lists.deny
      BY <1>7, <2>1, UniformMeans
    <3> QED
      BY <1>5, <1>6, <1>8, <2>1, <3>1
  <2>2. CASE k # "authorization"
    <3>1. value = <<>> \/ k \in Lists.allow \ Lists.deny
      BY <1>7, <2>2, UniformMeans
    <3> QED
      BY <1>5, <1>6, <1>8, <2>2, <3>1
  <2> QED
    BY <2>1, <2>2
<1>10. GotThrough(k) = value
  BY <1>3, <1>5, <1>9 DEF GotThrough
<1> QED
  BY <1>2, <1>5, <1>10 DEF value

\* All faces find the same credentials in the request.
LEMMA CredentialsAreAlike ==
  ASSUME PageInv, Uniform, NEW f \in Faces
  PROVE  Creds(f) = ExtractHTTP(Request.headers, <<>>)
<1>1. Get(Request.headers, "x-ticket") = <<>>
  BY UniformMeans DEF Get
<1>2. Certs(f) = <<>> /\ Certs("extra") = <<>>
  BY UniformMeans DEF Faces
<1>3. CASE f = "extra"
  BY <1>2, <1>3 DEF Creds
<1>4. CASE f # "extra"
  <2>1. \A k \in {"cookie", "x-api-key", "authorization", "x-ticket"} :
          Get(MdOf(f), k) = Get(Request.headers, k)
    <3>1. CASE f = "grpc"
      BY <3>1 DEF MdOf
    <3>2. CASE f = "gateway"
      <4> DEFINE added == clientIPAnnotator(ParseTrustedProxies(Trust), Request)
      <4>1. DOMAIN added = {ClientIPKey, ForwardedForKey}
        BY DEF clientIPAnnotator
      <4> HIDE DEF added
      <4>2. MdOf(f) = annotateContext(conf.headers, Request, added)
        BY <3>2 DEF MdOf, added
      <4> QED
        BY <4>1, <4>2, MetadataOfHeaders
    <3> QED
      BY <1>4, <3>1, <3>2 DEF Faces
  <2>2. Creds(f) = Extract(MdOf(f), <<>>)
    BY <1>2, <1>4 DEF Creds
  <2> QED
    BY <1>1, <2>1, <2>2 DEF Extract, ExtractHTTP
<1> QED
  BY <1>3, <1>4

\* How face f answers an outcome.
EncodedOn(f, err) ==
  LET st == IF f = "extra" THEN err ELSE StatusOf(err)
  IN  IF st.code = "ok" THEN [status |-> 200, message |-> "", retry |-> 0]
      ELSE IF f # "grpc" THEN encodeError(st)
      ELSE [status |-> DefaultCodeToHTTP(st.code), message |-> st.message,
            retry |-> retryAfterSeconds(st.retry)]

\* A plain error has become one with a status, or is made one: either is a 500
\* that says no more.
LEMMA OutcomesAreEncodedAlike ==
  ASSUME NEW err, "code" \in DOMAIN err, err.code \notin Bare
  PROVE  /\ \A f, g \in Faces : EncodedOn(f, err).status = EncodedOn(g, err).status
         /\ EncodedOn("gateway", err) = EncodedOn("extra", err)
<1> DEFINE st    == StatusOf(err)
           inner == [code |-> "internal", message |-> "generic", retry |-> 0]
<1>1. "unknown" \notin Statusless /\ "plain" \in Statusless
  BY DEF Statusless
<1>2. /\ DefaultCodeToHTTP("internal") = 500 /\ sanitize("internal")
      /\ DefaultCodeToHTTP("unknown") = 500 /\ sanitize("unknown")
  BY DEF DefaultCodeToHTTP, sanitize
<1>3. 500 # 429
  OBVIOUS
<1>4. CASE err.code = "plain"
  <2>1. st.code = "unknown"
    BY <1>4 DEF StatusOf
  <2> HIDE DEF st
  <2>2. encodeError(st) = [status |-> 500, message |-> "generic", retry |-> 0]
    BY <1>1, <1>2, <1>3, <2>1 DEF encodeError
  <2>3. inner.code = "internal" /\ inner.message = "generic"
    OBVIOUS
  <2>4. encodeError(err) = [status |-> 500, message |-> "generic", retry |-> 0]
    BY <1>1, <1>2, <1>3, <1>4, <2>3 DEF encodeError
  <2>5. EncodedOn("gateway", err) = encodeError(st)
    BY <2>1 DEF EncodedOn, st
  <2>6. EncodedOn("extra", err) = encodeError(err)
    BY <1>4 DEF EncodedOn
  <2>7. EncodedOn("grpc", err).status = 500
    BY <1>2, <2>1 DEF EncodedOn, st
  <2>8. EncodedOn("gateway", err) = EncodedOn("extra", err)
    BY <2>2, <2>4, <2>5, <2>6
  <2>9. \A f \in Faces : EncodedOn(f, err).status = 500
    BY <2>2, <2>5, <2>7, <2>8 DEF Faces
  <2> QED
    BY <2>8, <2>9
<1>5. CASE err.code # "plain"
  <2>1. err.code \notin Statusless
    BY <1>5, StatusIsGiven
  <2>2. st = err
    BY <2>1, StatusIsGiven
  <2>3. encodeError(err).status = DefaultCodeToHTTP(err.code)
    BY <2>1 DEF encodeError
  <2>4. CASE err.code = "ok"
    <3>1. \A f \in Faces : EncodedOn(f, err) = [status |-> 200, message |-> "", retry |-> 0]
      BY <2>2, <2>4 DEF EncodedOn
    <3> QED
      BY <3>1 DEF Faces
  <2>5. CASE err.code # "ok"
    <3>1. EncodedOn("gateway", err) = encodeError(err) /\ EncodedOn("extra", err) = encodeError(err)
      BY <2>2, <2>5 DEF EncodedOn
    <3>2. EncodedOn("grpc", err).status = DefaultCodeToHTTP(err.code)
      BY <2>2, <2>5 DEF EncodedOn
    <3>3. \A f \in Faces : EncodedOn(f, err).status = DefaultCodeToHTTP(err.code)
      BY <2>3, <3>1, <3>2 DEF Faces
    <3> QED
      BY <3>1, <3>3
  <2> QED
    BY <2>4, <2>5
<1> QED
  BY <1>4, <1>5

(***************************************************************************)
(* What comes of a request, whichever face it is made on                   *)
(***************************************************************************)

\* Whom face f takes for the request's caller.
Caller(f) == authenticate(Creds(f), conf.lenient /\ conf.policy.anonymous)

\* What a requirement finds in the caller.
Judged(f, r) ==
  CASE r.kind = "scope"    -> IF Caller(f) = Nobody THEN "miss"
                              ELSE ScopeEvaluate(conf.gate, Caller(f).scopes, r)
    [] r.kind = "resource" -> IF Caller(f) = Nobody THEN "miss"
                              ELSE ResourceEvaluate(conf.gate, Caller(f).scopes, r, client.id)
    [] OTHER               -> IF Caller(f) = Nobody THEN "miss" ELSE "match"

Decision(f) == decidePolicy(conf.policy, Caller(f) # Nobody,
                            [r \in requirementsOf(conf.policy) |-> Judged(f, r)])

\* The browser lets it go, and CSRF lets it pass.
LetGo == client.kind = "page" => Asked

Served(f) == LetGo /\ Passed /\ Caller(f).code = "ok" /\ Decision(f) = "allow"

Reason(code) == [code |-> code, message |-> "reason", retry |-> 0]

\* What the server says to the request.
Verdict(f) ==
  IF Caller(f).code # "ok" THEN Reason(Caller(f).code)
  ELSE IF Decision(f) # "allow" THEN Reason(CodeOf(Decision(f))) ELSE client.outcome

Fate(f) ==
  IF ~LetGo THEN [status |-> 0, message |-> "", retry |-> 0]
  ELSE IF ~Passed THEN [status |-> 403, message |-> "csrf", retry |-> 0]
  ELSE EncodedOn(f, Verdict(f))

\* An answer is the one this request is due.
Befits(a, f) ==
  /\ a.handled = Served(f) /\ a.status = Fate(f).status
  /\ a.message = Fate(f).message /\ a.retry = Fate(f).retry

\* The instance is named alike, and no program has to prove that it is no page.
Plain == client.field = "string" /\ (client.kind = "program" => Open)

\* Where the judgement stands.
JudgedStands ==
  /\ pc # "answered" => answer.handled = FALSE /\ answer.retry = 0
  /\ \A f \in Faces :
       face[1] = f =>
         /\ pc \in {"called", "identified"} /\ f # "extra" => md = MdOf(f)
         /\ pc \in {"known", "allowed"} => who = Caller(f) /\ Caller(f).code = "ok"
         /\ pc = "allowed" => Decision(f) = "allow"
         /\ pc = "answered" => Befits(answer, f)
  /\ \A f \in Faces : Done(f) => Befits(results[f], f)

JudgedInv == ProgramInv /\ (Plain => JudgedStands)

\* What comes of it is settled while the client, its cookies and its token are.
LEMMA FateStands ==
  ASSUME UNCHANGED <<conf, client, jar, token>>
  PROVE  /\ \A f : Caller(f)' = Caller(f) /\ Decision(f)' = Decision(f) /\ MdOf(f)' = MdOf(f)
         /\ \A a, f : Befits(a, f)' = Befits(a, f)
         /\ Plain' = Plain
<1>1. Request' = Request /\ Asked' = Asked /\ Passed' = Passed
  BY RequestStands
<1>2. \A f : MdOf(f)' = MdOf(f)
  BY <1>1 DEF MdOf, Trust
<1>3. \A f : Creds(f)' = Creds(f)
  BY <1>1, <1>2 DEF Creds, Certs
<1>4. \A f : Caller(f)' = Caller(f)
  BY <1>3 DEF Caller
<1>5. \A f, r : Judged(f, r)' = Judged(f, r)
  BY <1>4 DEF Judged
<1>6. \A f : Decision(f)' = Decision(f)
  BY <1>4, <1>5 DEF Decision
<1>7. LetGo' = LetGo
  BY <1>1 DEF LetGo
<1>8. \A f : Served(f)' = Served(f)
  BY <1>1, <1>4, <1>6, <1>7 DEF Served
<1>9. \A f : Verdict(f)' = Verdict(f)
  BY <1>4, <1>6 DEF Verdict
<1>10. \A f : Fate(f)' = Fate(f)
  BY <1>1, <1>7, <1>9 DEF Fate
<1>11. \A a, f : Befits(a, f)' = Befits(a, f)
  BY <1>8, <1>10 DEF Befits
<1>12. Plain' = Plain
  BY DEF Plain, Open
<1> QED
  BY <1>2, <1>4, <1>6, <1>11, <1>12

\* Where a request is, whoever made it, and which checks it has passed.
LEMMA RequestAtServer ==
  ASSUME ProgramInv, Plain, pc \in Away
  PROVE  /\ req = Request /\ face # <<>> /\ face[1] \in Faces
         /\ pc \in {"sent"} \cup Inside => LetGo
         /\ pc \in Inside => Passed
         /\ DOMAIN answer = DOMAIN NoAnswer
         /\ pc \in {"sent", "routed"} => face[1] # "grpc"
<1>1. PageInv /\ client.kind \in {"page", "program"}
  BY FrontAssumption DEF ProgramInv, PageInv
<1>2. DOMAIN answer = DOMAIN NoAnswer
  BY <1>1 DEF PageInv
<1>3. CASE client.kind = "page"
  <2>1. PageStands
    BY <1>1, <1>3 DEF PageInv
  <2>2. req = Request /\ face # <<>> /\ face[1] \in {"gateway", "extra"}
    BY <1>1, <1>3, AtTheServer
  <2> QED
    BY <1>2, <2>1, <2>2 DEF PageStands, LetGo, Faces
<1>4. CASE client.kind = "program"
  <2>1. ProgramStands
    BY <1>4 DEF ProgramInv
  <2>2. req = Request /\ face # <<>>
    BY <2>1 DEF ProgramStands
  <2>3. face[1] \in Faces
    <3>1. face \in {<<"gateway", "extra", "grpc">>, <<"extra", "grpc">>, <<"grpc">>}
      BY <2>1, <2>2 DEF ProgramStands
    <3>2. CASE face = <<"gateway", "extra", "grpc">>
      BY <3>2 DEF Faces
    <3>3. CASE face = <<"extra", "grpc">>
      BY <3>3 DEF Faces
    <3>4. CASE face = <<"grpc">>
      BY <3>4 DEF Faces
    <3> QED
      BY <3>1, <3>2, <3>3, <3>4
  <2>4. Passed
    BY <1>4 DEF Plain, Open, Passed, CSRFPasses
  <2>5. pc \in {"sent", "routed"} => face[1] # "grpc"
    BY <2>1, <2>2 DEF ProgramStands, Asking, OnFace, Informed
  <2> QED
    BY <1>2, <1>4, <2>2, <2>3, <2>4, <2>5 DEF LetGo
<1> QED
  BY <1>1, <1>3, <1>4

\* A step that leaves the client on its face.
LEMMA JudgedGoesOn ==
  ASSUME JudgedStands, UNCHANGED <<conf, client, jar, token, face, results>>,
         NEW f \in Faces, face[1] = f,
         pc' \in {"called", "identified"} /\ f # "extra" => md' = MdOf(f),
         pc' # "answered" => answer'.handled = FALSE /\ answer'.retry = 0,
         pc' \in {"known", "allowed"} => who' = Caller(f) /\ Caller(f).code = "ok",
         pc' = "allowed" => Decision(f) = "allow",
         pc' = "answered" => \A a : a = answer' => Befits(a, f)
  PROVE  JudgedStands'
<1>1. /\ \A g : Caller(g)' = Caller(g) /\ Decision(g)' = Decision(g) /\ MdOf(g)' = MdOf(g)
      /\ \A a, g : Befits(a, g)' = Befits(a, g)
  BY FateStands
<1>2. ASSUME pc' = "answered" PROVE Befits(answer, f)'
  BY <1>1, <1>2 DEF Befits
<1>3. (\A g \in Faces : Done(g) => Befits(results[g], g))'
  BY <1>1 DEF JudgedStands, Befits, Done, Faces
<1>4. (\A g \in Faces :
         face[1] = g =>
           /\ pc \in {"called", "identified"} /\ g # "extra" => md = MdOf(g)
           /\ pc \in {"known", "allowed"} => who = Caller(g) /\ Caller(g).code = "ok"
           /\ pc = "allowed" => Decision(g) = "allow"
           /\ pc = "answered" => Befits(answer, g))'
  BY <1>1, <1>2 DEF Faces
<1> QED
  BY <1>3, <1>4 DEF JudgedStands

\* Any answer but that of CSRF says the whole verdict.
LEMMA VerdictIsSaid ==
  ASSUME ProgramInv, Plain, JudgedStands, pc \in {"identified", "known", "allowed"},
         UNCHANGED <<conf, client, jar, token, face, results, req>>,
         NEW f \in Faces, face[1] = f, NEW by, Answer(by, Verdict(f)),
         (by = "handler") = (Caller(f).code = "ok" /\ Decision(f) = "allow")
  PROVE  JudgedStands'
<1>1. pc \in Inside \cap Away
  BY DEF Inside, Away
<1>2. LetGo /\ Passed /\ DOMAIN answer = DOMAIN NoAnswer
  BY <1>1, RequestAtServer
<1>3. pc' = "answered"
  BY DEF Answer, To
<1>4. Encoded(Verdict(f)) = EncodedOn(f, Verdict(f))
  BY DEF Encoded, EncodedOn
<1>5. /\ answer'.handled = (by = "handler")
      /\ answer'.status = Encoded(Verdict(f)).status
      /\ answer'.message = Encoded(Verdict(f)).message
      /\ answer'.retry = Encoded(Verdict(f)).retry
  BY <1>2 DEF Answer, NoAnswer
<1>6. (by = "handler") = Served(f)
  BY <1>2 DEF Served
<1>7. Fate(f) = EncodedOn(f, Verdict(f))
  BY <1>2 DEF Fate
<1>8. \A a : a = answer' => Befits(a, f)
  BY <1>4, <1>5, <1>6, <1>7 DEF Befits
<1> QED
  BY <1>3, <1>8, JudgedGoesOn

\* The steps before the caller is known keep the judgement.
LEMMA JudgedOnTheWay ==
  ASSUME ProgramInv, Plain, JudgedStands, NEW f \in Faces, face[1] = f,
         Depart \/ Ask \/ Admit \/ Route \/ Identify
  PROVE  JudgedStands'
<1>1. UNCHANGED <<conf, client, jar, token, face, results>>
  BY DEF Depart, Ask, Admit, Route, Identify
<1>2. CASE Depart
  <2>1. /\ pc = "idle" /\ face # <<>> /\ UNCHANGED answer
        /\ pc' \in {"asking", "sent", "called"}
        /\ pc' = "called" => f = "grpc"
        /\ md' = IF f = "grpc" THEN Request.headers ELSE << >>
    BY <1>2 DEF Depart, To
  <2>2. MdOf("grpc") = Request.headers
    BY DEF MdOf
  <2>3. answer'.handled = FALSE /\ answer'.retry = 0
    BY <2>1 DEF JudgedStands
  <2> QED
    BY <1>1, <2>1, <2>2, <2>3, JudgedGoesOn
<1>3. CASE Ask
  <2>1. /\ pc = "asking" /\ req = Request
        /\ answer.handled = FALSE /\ answer.retry = 0
    BY <1>3, RequestAtServer DEF Ask, JudgedStands, Away
  <2>2. client.kind = "page"
    BY <2>1, FrontAssumption DEF ProgramInv, PageInv, ProgramStands
  <2>3. Asks
    BY <2>1, <2>2 DEF ProgramInv, PageInv, PageStands
  <2>4. \/ pc' = "sent" /\ answer' = answer
        \/ /\ ~Cleared([Page EXCEPT !.custom = Custom], Preflight)
           /\ pc' = "answered" /\ answer' = [NoAnswer EXCEPT !.by = "browser"]
    BY <1>3, <2>1 DEF Ask, Preflight, To
  <2>5. CASE pc' = "sent" /\ answer' = answer
    BY <1>1, <2>1, <2>5, JudgedGoesOn
  <2>6. CASE /\ ~Cleared([Page EXCEPT !.custom = Custom], Preflight)
             /\ pc' = "answered" /\ answer' = [NoAnswer EXCEPT !.by = "browser"]
    <3>1. ~LetGo
      BY <2>2, <2>3, <2>6 DEF LetGo, Asked
    <3>2. Served(f) = FALSE
      BY <3>1 DEF Served
    <3>3. /\ Fate(f).status = 0 /\ Fate(f).message = ""
          /\ Fate(f).retry = 0
      BY <3>1 DEF Fate
    <3>4. /\ answer'.handled = FALSE /\ answer'.status = 0 /\ answer'.message = ""
          /\ answer'.retry = 0
      BY <2>6 DEF NoAnswer
    <3>5. \A a : a = answer' => Befits(a, f)
      BY <3>2, <3>3, <3>4 DEF Befits
    <3> QED
      BY <1>1, <2>1, <2>6, <3>5, JudgedGoesOn
  <2> QED
    BY <2>4, <2>5, <2>6
<1>4. CASE Admit
  <2>1. /\ pc = "sent" /\ req = Request /\ LetGo
        /\ answer.handled = FALSE /\ answer.retry = 0 /\ DOMAIN answer = DOMAIN NoAnswer
    BY <1>4, RequestAtServer DEF Admit, JudgedStands, Away
  <2>2. \/ pc' = "routed" /\ answer' = answer
        \/ /\ ~Passed /\ pc' = "answered"
           /\ answer' = [answer EXCEPT !.by = "csrf", !.status = 403, !.message = "csrf",
                                       !.marks = Marks]
    BY <1>4, <2>1 DEF Admit, Passed, To
  <2>3. CASE pc' = "routed" /\ answer' = answer
    BY <1>1, <2>1, <2>3, JudgedGoesOn
  <2>4. CASE /\ ~Passed /\ pc' = "answered"
             /\ answer' = [answer EXCEPT !.by = "csrf", !.status = 403, !.message = "csrf",
                                         !.marks = Marks]
    <3>1. Served(f) = FALSE
      BY <2>4 DEF Served
    <3>2. /\ Fate(f).status = 403 /\ Fate(f).message = "csrf"
          /\ Fate(f).retry = 0
      BY <2>1, <2>4 DEF Fate
    <3>3. /\ answer'.handled = FALSE /\ answer'.status = 403 /\ answer'.message = "csrf"
          /\ answer'.retry = 0
      BY <2>1, <2>4 DEF NoAnswer
    <3>4. \A a : a = answer' => Befits(a, f)
      <4>1. answer'.handled = Served(f)
        BY <3>1, <3>3, Zenon
      <4>2. answer'.status = Fate(f).status
        BY <3>2, <3>3, Zenon
      <4>3. answer'.message = Fate(f).message
        BY <3>2, <3>3, Zenon
      <4>4. answer'.retry = Fate(f).retry
        BY <3>2, <3>3, Zenon
      <4> QED
        BY <4>1, <4>2, <4>3, <4>4, Zenon DEF Befits
    <3> QED
      BY <1>1, <2>1, <2>4, <3>4, JudgedGoesOn
  <2> QED
    BY <2>2, <2>3, <2>4
<1>5. CASE Route
  <2>1. /\ pc = "routed" /\ req = Request /\ f # "grpc"
        /\ answer.handled = FALSE /\ answer.retry = 0
    BY <1>5, RequestAtServer DEF Route, JudgedStands, Away, Inside
  <2>2. pc' = "called" /\ answer' = answer
    BY <1>5 DEF Route, To
  <2>3. f # "extra" => f = "gateway" /\ md' = MdOf("gateway")
    BY <1>5, <2>1 DEF Route, MdOf, Faces
  <2> QED
    BY <1>1, <2>1, <2>2, <2>3, JudgedGoesOn
<1>6. CASE Identify
  <2>1. /\ pc = "called" /\ DOMAIN answer = DOMAIN NoAnswer
        /\ answer.handled = FALSE /\ answer.retry = 0
        /\ f # "extra" => md = MdOf(f)
    BY <1>6, RequestAtServer DEF Identify, JudgedStands, Away, Inside
  <2>2. pc' = "identified" /\ md' = md
    BY <1>6 DEF Identify, To
  <2>3. answer'.handled = FALSE /\ answer'.retry = 0
    BY <1>6, <2>1 DEF Identify, NoAnswer
  <2> QED
    BY <1>1, <2>1, <2>2, <2>3, JudgedGoesOn
<1> QED
  BY <1>2, <1>3, <1>4, <1>5, <1>6

\* A refusal says the verdict, and a request that goes on is as good as said.
LEMMA JudgedInTheChain ==
  ASSUME ProgramInv, Plain, JudgedStands, NEW f \in Faces, face[1] = f,
         Authenticate \/ Authorize \/ Handle
  PROVE  JudgedStands'
<1>1. /\ UNCHANGED <<conf, client, jar, token, face, results, req>>
      /\ pc \in {"identified", "known", "allowed"}
  BY DEF Authenticate, Authorize, Handle
<1>2. req = Request /\ answer.handled = FALSE /\ answer.retry = 0
  BY <1>1, RequestAtServer DEF JudgedStands, Away, Inside
<1>3. CASE Authenticate
  <2>1. pc = "identified"
    BY <1>3 DEF Authenticate
  <2>2. (IF f = "extra" THEN ExtractHTTP(req.headers, Certs("extra")) ELSE Extract(md, Certs(f)))
          = Creds(f)
    BY <1>2, <2>1 DEF Creds, JudgedStands
  <2>3. IF Caller(f).code = "ok" THEN who' = Caller(f) /\ To("known") /\ UNCHANGED answer
        ELSE Refuse("authn", Caller(f).code) /\ UNCHANGED who
    <3> DEFINE creds == IF f = "extra" THEN ExtractHTTP(req.headers, Certs("extra"))
                        ELSE Extract(md, Certs(f))
               lenient == conf.lenient /\ conf.policy.anonymous
    <3>1. creds = Creds(f)
      BY <2>2
    <3>2. IF authenticate(creds, lenient).code = "ok"
          THEN who' = authenticate(creds, lenient) /\ To("known") /\ UNCHANGED answer
          ELSE Refuse("authn", authenticate(creds, lenient).code) /\ UNCHANGED who
      BY <1>3 DEF Authenticate
    <3>3. Caller(f) = authenticate(Creds(f), lenient)
      BY DEF Caller
    <3> HIDE DEF creds, lenient
    <3> QED
      BY <3>1, <3>2, <3>3
  <2>4. CASE Caller(f).code = "ok"
    <3>1. who' = Caller(f) /\ pc' = "known" /\ answer' = answer
      BY <2>3, <2>4 DEF To
    <3> QED
      BY <1>1, <1>2, <2>4, <3>1, JudgedGoesOn
  <2>5. CASE Caller(f).code # "ok"
    <3>1. Answer("authn", Verdict(f))
      BY <2>3, <2>5 DEF Refuse, Verdict, Reason
    <3>2. ("authn" = "handler") = (Caller(f).code = "ok" /\ Decision(f) = "allow")
      BY <2>5
    <3> QED
      BY <1>1, <3>1, <3>2, VerdictIsSaid
  <2> QED
    BY <2>4, <2>5
<1>4. CASE Authorize
  <2>1. who = Caller(f) /\ Caller(f).code = "ok" /\ pc = "known"
    BY <1>4 DEF Authorize, JudgedStands
  <2>2. Target = client.id
    BY DEF Plain, Target, ParamID, FieldID
  <2>3. \A r : Evaluate(r) = Judged(f, r)
    BY <2>1, <2>2 DEF Evaluate, Judged
  <2>4. [r \in requirementsOf(conf.policy) |-> Evaluate(r)]
          = [r \in requirementsOf(conf.policy) |-> Judged(f, r)]
    BY <2>3
  <2>5. IF Decision(f) = "allow" THEN To("allowed") /\ UNCHANGED answer
        ELSE Refuse("authz", CodeOf(Decision(f)))
    <3> DEFINE ev == [r \in requirementsOf(conf.policy) |-> Evaluate(r)]
    <3>1. decidePolicy(conf.policy, who # Nobody, ev) = Decision(f)
      BY <2>1, <2>4 DEF Decision
    <3>2. IF decidePolicy(conf.policy, who # Nobody, ev) = "allow"
          THEN To("allowed") /\ UNCHANGED answer
          ELSE Refuse("authz", CodeOf(decidePolicy(conf.policy, who # Nobody, ev)))
      BY <1>4 DEF Authorize
    <3> HIDE DEF ev
    <3> QED
      BY <3>1, <3>2
  <2>6. who' = who
    BY <1>4 DEF Authorize
  <2>7. CASE Decision(f) = "allow"
    <3>1. pc' = "allowed" /\ answer' = answer
      BY <2>5, <2>7 DEF To
    <3> QED
      BY <1>1, <1>2, <2>1, <2>6, <2>7, <3>1, JudgedGoesOn
  <2>8. CASE Decision(f) # "allow"
    <3>1. Answer("authz", Verdict(f))
      BY <2>1, <2>5, <2>8 DEF Refuse, Verdict, Reason
    <3>2. ("authz" = "handler") = (Caller(f).code = "ok" /\ Decision(f) = "allow")
      BY <2>8
    <3> QED
      BY <1>1, <3>1, <3>2, VerdictIsSaid
  <2> QED
    BY <2>7, <2>8
<1>5. CASE Handle
  <2>1. Caller(f).code = "ok" /\ Decision(f) = "allow"
    BY <1>5 DEF Handle, JudgedStands
  <2>2. Answer("handler", Verdict(f))
    BY <1>5, <2>1 DEF Handle, Verdict
  <2>3. ("handler" = "handler") = (Caller(f).code = "ok" /\ Decision(f) = "allow")
    BY <2>1
  <2> QED
    BY <1>1, <2>2, <2>3, VerdictIsSaid
<1> QED
  BY <1>3, <1>4, <1>5

\* Every step keeps the judgement of a program's request.
LEMMA JudgedStepKeeps ==
  ASSUME ProgramInv, Plain, JudgedStands, [Next]_vars
  PROVE  JudgedStands'
<1>1. CASE Issue \/ ReadToken
  <2>1. /\ pc = "idle" /\ pc' = pc /\ client.kind = "page" /\ Len(face) = 2
        /\ UNCHANGED <<face, answer, results>>
    BY <1>1 DEF Issue, ReadToken, Browsing
  <2>2. PageStands
    BY <2>1 DEF ProgramInv, PageInv
  <2>3. \A f \in Faces : results[f] = NoAnswer
    <3>1. face = <<"gateway", "extra">>
      BY <2>1, <2>2, FacesOfPages
    <3> QED
      BY <2>2, <3>1 DEF PageStands
  <2>4. (\A f \in Faces : ~Done(f))'
    <3>1. NoAnswer.by = "none"
      BY DEF NoAnswer
    <3>2. \A f \in Faces : results'[f].by = "none"
      BY <2>1, <2>3, <3>1
    <3> QED
      BY <3>2 DEF Done, Faces
  <2>5. answer'.handled = FALSE /\ answer'.retry = 0
    BY <2>1 DEF JudgedStands
  <2> QED
    BY <2>1, <2>4, <2>5 DEF JudgedStands
<1>2. CASE Finish
  <2>1. /\ pc = "answered" /\ pc' \in {"done", "idle"} /\ answer' = NoAnswer
        /\ results' = [results EXCEPT ![face[1]] = answer]
        /\ UNCHANGED <<conf, client, jar, token>>
    BY <1>2 DEF Finish, To
  <2>2. PICK g \in Faces : face[1] = g
    BY <2>1, RequestAtServer DEF Away
  <2>3. Befits(answer, g)
    BY <2>1, <2>2 DEF JudgedStands
  <2>4. DOMAIN results = Faces
    BY DEF ProgramInv, PageInv
  <2>5. \A a, f : Befits(a, f)' = Befits(a, f)
    BY <2>1, FateStands
  <2>6. \A f \in Faces : results'[f] = IF f = g THEN answer ELSE results[f]
    BY <2>1, <2>2, <2>4
  <2>7. \A f \in Faces : results'[f].by # "none" => Befits(results'[f], f)
    BY <2>3, <2>6 DEF JudgedStands, Done
  <2>8. (\A f \in Faces : Done(f) => Befits(results[f], f))'
    BY <2>5, <2>7 DEF Befits, Done, Faces
  <2>9. answer'.handled = FALSE /\ answer'.retry = 0
    BY <2>1 DEF NoAnswer
  <2>10. pc' \notin {"called", "identified", "known", "allowed", "answered"}
    BY <2>1
  <2> QED
    BY <2>8, <2>9, <2>10 DEF JudgedStands
<1>3. CASE UNCHANGED vars
  <2>1. /\ \A f : Caller(f)' = Caller(f) /\ Decision(f)' = Decision(f) /\ MdOf(f)' = MdOf(f)
        /\ \A a, f : Befits(a, f)' = Befits(a, f)
    BY <1>3, FateStands DEF vars
  <2>2. (\A f \in Faces : Done(f) => Befits(results[f], f))'
    BY <1>3, <2>1 DEF Befits, Done, Faces, JudgedStands, vars
  <2>3. ASSUME NEW f \in Faces, face[1] = f, pc = "answered" PROVE Befits(answer, f)'
    BY <1>3, <2>1, <2>3 DEF Befits, JudgedStands, vars
  <2>4. (\A f \in Faces :
           face[1] = f =>
             /\ pc \in {"called", "identified"} /\ f # "extra" => md = MdOf(f)
             /\ pc \in {"known", "allowed"} => who = Caller(f) /\ Caller(f).code = "ok"
             /\ pc = "allowed" => Decision(f) = "allow"
             /\ pc = "answered" => Befits(answer, f))'
    BY <1>3, <2>1, <2>3 DEF Faces, JudgedStands, vars
  <2> QED
    BY <1>3, <2>2, <2>4 DEF JudgedStands, vars
<1>4. CASE Depart \/ Ask \/ Admit \/ Route \/ Identify \/ Authenticate \/ Authorize \/ Handle
  <2>1. PICK f \in Faces : face[1] = f
    <3>1. face # <<>> /\ pc \in {"idle"} \cup Away
      <4>1. CASE Depart
        BY <4>1 DEF Depart
      <4>2. CASE Ask \/ Admit \/ Route \/ Identify \/ Authenticate \/ Authorize \/ Handle
        <5>1. pc \in Away
          BY <4>2 DEF Away, Inside, Ask, Admit, Route, Identify, Authenticate, Authorize, Handle
        <5> QED
          BY <5>1, RequestAtServer
      <4> QED
        BY <1>4, <4>1, <4>2
    <3>2. client.kind \in {"page", "program"}
      BY FrontAssumption DEF ProgramInv, PageInv
    <3>3. face \in {<<"gateway", "extra", "grpc">>, <<"extra", "grpc">>, <<"grpc">>,
                    <<"gateway", "extra">>, <<"extra">>}
      BY <3>1, <3>2 DEF ProgramInv, PageInv, ProgramStands, PageStands
    <3>4. /\ <<"gateway", "extra", "grpc">>[1] = "gateway" /\ <<"gateway", "extra">>[1] = "gateway"
          /\ <<"extra", "grpc">>[1] = "extra" /\ <<"extra">>[1] = "extra" /\ <<"grpc">>[1] = "grpc"
      OBVIOUS
    <3>5. face[1] \in {"gateway", "extra", "grpc"}
      BY <3>3, <3>4
    <3> QED
      BY <3>5 DEF Faces
  <2> QED
    BY <1>4, <2>1, JudgedOnTheWay, JudgedInTheChain
<1> QED
  BY <1>1, <1>2, <1>3, <1>4 DEF Next

\* JudgedInv holds of the initial states.
LEMMA JudgedStarts ==
  ASSUME Init
  PROVE  JudgedInv
<1>1. NoAnswer.by = "none" /\ NoAnswer.handled = FALSE /\ NoAnswer.retry = 0
  BY DEF NoAnswer
<1>2. pc = "idle" /\ answer = NoAnswer /\ \A f \in Faces : results[f] = NoAnswer
  BY DEF Init
<1>3. JudgedStands
  BY <1>1, <1>2 DEF JudgedStands, Done
<1> QED
  BY <1>3, ProgramStarts DEF JudgedInv

\* JudgedInv is inductive.
LEMMA JudgedKeeps ==
  ASSUME JudgedInv, [Next]_vars
  PROVE  JudgedInv'
<1>1. ProgramInv /\ ProgramInv'
  BY ProgramKeeps DEF JudgedInv
<1>2. Plain' = Plain
  <2>1. UNCHANGED <<conf, client>>
    BY DEF Next, vars, Issue, ReadToken, Depart, Ask, Admit, Route, Identify, Authenticate,
           Authorize, Handle, Finish
  <2> QED
    BY <2>1 DEF Plain, Open
<1>3. Plain => JudgedStands'
  BY <1>1, JudgedStepKeeps DEF JudgedInv
<1> QED
  BY <1>1, <1>2, <1>3 DEF JudgedInv

\* What comes of a request on a face that finds the credentials of another.
LEMMA FatesAreAlike ==
  ASSUME PageInv, NEW f, NEW g, Creds(f) = Creds(g)
  PROVE  Caller(f) = Caller(g) /\ Decision(f) = Decision(g) /\ Served(f) = Served(g)
           /\ Verdict(f) = Verdict(g)
<1>1. Caller(f) = Caller(g)
  BY DEF Caller
<1>2. \A r : Judged(f, r) = Judged(g, r)
  BY <1>1 DEF Judged
<1>3. Decision(f) = Decision(g)
  BY <1>1, <1>2 DEF Decision
<1> QED
  BY <1>1, <1>3 DEF Served, Verdict

\* For any policy, credentials, headers and outcome: where the faces are meant
\* to be alike, what comes of a request is the same on each.  They differ, and
\* are excepted, where a credential or ticket comes under the gateway's prefix
\* for metadata or with a certificate, where CSRF stands before the HTTP faces,
\* and where a handler returns a context's error as it is.
THEOREM FacesAreAlike == Spec => []FacesAgree
<1>1. JudgedInv => FacesAgree
  <2> SUFFICES ASSUME JudgedInv, Uniform, client.field = "string",
                      NEW f \in Faces, NEW g \in Faces, Done(f), Done(g)
               PROVE  /\ results[f].handled = results[g].handled
                      /\ results[f].status = results[g].status
                      /\ "grpc" \notin {f, g} =>
                           /\ results[f].message = results[g].message
                           /\ results[f].retry = results[g].retry
    BY DEF FacesAgree
  <2>1. Befits(results[f], f) /\ Befits(results[g], g)
    BY DEF JudgedInv, JudgedStands, Plain, Uniform
  <2>2. Served(f) = Served(g) /\ Verdict(f) = Verdict(g)
    <3>1. PageInv
      BY DEF JudgedInv, ProgramInv
    <3>2. Creds(f) = Creds(g)
      BY <3>1, CredentialsAreAlike
    <3> QED
      BY <3>1, <3>2, FatesAreAlike
  <2>3. Fate(f).status = Fate(g).status /\ ("grpc" \notin {f, g} => Fate(f) = Fate(g))
    <3>1. CASE LetGo /\ Passed
      <4> DEFINE said == Verdict(f)
      <4>1. "code" \in DOMAIN said /\ said.code \notin Bare
        <5>1. /\ client.outcome \in [code : STRING, message : STRING, retry : Nat]
              /\ client.outcome.code \notin Bare
          BY FrontAssumption DEF JudgedInv, ProgramInv, PageInv, Uniform, Bare
        <5>2. Caller(f).code # "ok" => Caller(f).code \in Refusals
          <6>1. Caller(f).code \in {"ok", "unavailable", "unauthenticated"}
            BY RefusalsOfAuthn DEF Caller
          <6> QED
            BY <6>1 DEF Refusals
        <5>3. Decision(f) # "allow" => CodeOf(Decision(f)) \in {"internal"} \cup Refusals
          BY RefusalsOfAuthz DEF Decision
        <5>4. \A code \in {"internal"} \cup Refusals : code \notin Bare
          BY DEF Refusals, Bare
        <5>5. \A code : Reason(code).code = code /\ "code" \in DOMAIN Reason(code)
          BY DEF Reason
        <5> QED
          BY <5>1, <5>2, <5>3, <5>4, <5>5 DEF Verdict
      <4>2. Fate(f) = EncodedOn(f, said) /\ Fate(g) = EncodedOn(g, said)
        BY <2>2, <3>1 DEF Fate
      <4> HIDE DEF said
      <4>3. "grpc" \notin {f, g} => EncodedOn(f, said) = EncodedOn(g, said)
        BY <4>1, OutcomesAreEncodedAlike DEF Faces
      <4> QED
        BY <4>1, <4>2, <4>3, OutcomesAreEncodedAlike
    <3>2. CASE ~(LetGo /\ Passed)
      BY <3>2 DEF Fate
    <3> QED
      BY <3>1, <3>2
  <2> QED
    BY <2>1, <2>2, <2>3 DEF Befits
<1> QED
  BY <1>1, JudgedStarts, JudgedKeeps, PTL DEF Spec

(***************************************************************************)
(* The scope language                                                      *)
(***************************************************************************)

\* A set of naturals has a least member.
LEMMA LeastExists ==
  ASSUME NEW S \in SUBSET Nat, S # {}
  PROVE  \E k \in S : \A i \in S : k <= i
<1>1. PICK k \in S : \A j \in S : ~(<<j, k>> \in OpToRel(<, Nat))
  BY NatLessThanWellFounded, WFMin
<1>2. \A j \in S : ~(j < k)
  BY <1>1 DEF OpToRel
<1> QED
  BY <1>2

\* A set of naturals up to n has a greatest member.
LEMMA GreatestExists ==
  ASSUME NEW n \in Nat, NEW S \in SUBSET (1 .. n), S # {}
  PROVE  \E k \in S : \A i \in S : i <= k
<1> DEFINE D == {n - i : i \in S}
<1>1. \A i \in S : n - i \in Nat
  OBVIOUS
<1>2. D \in SUBSET Nat /\ D # {}
  BY <1>1
<1>3. PICK d \in D : \A e \in D : d <= e
  BY <1>2, LeastExists
<1>4. PICK k \in S : d = n - k
  BY <1>3
<1>5. ASSUME NEW i \in S PROVE i <= k
  <2>1. n - k <= n - i
    BY <1>3, <1>4
  <2> QED
    BY <2>1
<1> QED
  BY <1>5

\* Joining two texts with a separator.
LEMMA JoinedTexts ==
  ASSUME NEW S, NEW a \in Seq(S), NEW b \in Seq(S), NEW sep \in S
  PROVE  /\ a \o <<sep>> \o b \in Seq(S)
         /\ Len(a \o <<sep>> \o b) = Len(a) + 1 + Len(b)
         /\ \A i \in 1 .. Len(a) : (a \o <<sep>> \o b)[i] = a[i]
         /\ (a \o <<sep>> \o b)[Len(a) + 1] = sep
         /\ \A i \in 1 .. Len(b) : (a \o <<sep>> \o b)[Len(a) + 1 + i] = b[i]
<1> DEFINE s == a \o <<sep>>
           t == s \o b
<1>1. <<sep>> \in Seq(S) /\ Len(<<sep>>) = 1 /\ <<sep>>[1] = sep
  OBVIOUS
<1>2. Len(a) \in Nat /\ Len(b) \in Nat
  BY LenProperties
<1>3. /\ s \in Seq(S) /\ Len(s) = Len(a) + 1
      /\ \A i \in 1 .. Len(a) + 1 : s[i] = IF i <= Len(a) THEN a[i] ELSE <<sep>>[i - Len(a)]
  BY <1>1, ConcatProperties
<1> HIDE DEF s
<1>4. (\A i \in 1 .. Len(a) : s[i] = a[i]) /\ s[Len(a) + 1] = sep
  <2>1. \A i \in 1 .. Len(a) : i \in 1 .. Len(a) + 1 /\ i <= Len(a)
    BY <1>2
  <2>2. Len(a) + 1 \in 1 .. Len(a) + 1 /\ ~(Len(a) + 1 <= Len(a)) /\ Len(a) + 1 - Len(a) = 1
    BY <1>2
  <2> QED
    BY <1>1, <1>3, <2>1, <2>2
<1>5. /\ t \in Seq(S) /\ Len(t) = Len(s) + Len(b)
      /\ \A i \in 1 .. Len(s) + Len(b) : t[i] = IF i <= Len(s) THEN s[i] ELSE b[i - Len(s)]
  <2>1. s \in Seq(S)
    BY <1>3
  <2> QED
    BY <2>1, ConcatProperties
<1> HIDE DEF t
<1>6. \A i \in 1 .. Len(a) + 1 : t[i] = s[i]
  <2>1. \A i \in 1 .. Len(a) + 1 : i \in 1 .. Len(a) + 1 + Len(b) /\ i <= Len(a) + 1
    BY <1>2
  <2> QED
    BY <1>3, <1>5, <2>1
<1>7. \A i \in 1 .. Len(b) : t[Len(a) + 1 + i] = b[i]
  <2>1. \A i \in 1 .. Len(b) :
          /\ Len(a) + 1 + i \in 1 .. Len(a) + 1 + Len(b) /\ ~(Len(a) + 1 + i <= Len(a) + 1)
          /\ Len(a) + 1 + i - (Len(a) + 1) = i
    BY <1>2
  <2> QED
    BY <1>3, <1>5, <2>1
<1>8. (\A i \in 1 .. Len(a) : i \in 1 .. Len(a) + 1) /\ Len(a) + 1 \in 1 .. Len(a) + 1
  BY <1>2
<1>9. (\A i \in 1 .. Len(a) : t[i] = a[i]) /\ t[Len(a) + 1] = sep
  BY <1>4, <1>6, <1>8
<1> QED
  BY <1>3, <1>5, <1>7, <1>9 DEF t, s

\* Two texts joined with a separator that the second has not are cut there.
LEMMA CutJoined ==
  ASSUME NEW S, NEW a \in Seq(S), NEW b \in Seq(S), NEW sep \in S, ~Holds(b, sep)
  PROVE  cutLast(a \o <<sep>> \o b, sep) = [before |-> a, after |-> b, found |-> TRUE]
<1> DEFINE t == a \o <<sep>> \o b
           n == Len(a) + 1
           at == {0} \cup {k \in DOMAIN t : t[k] = sep}
<1>1. /\ t \in Seq(S) /\ Len(t) = Len(a) + 1 + Len(b)
      /\ \A i \in 1 .. Len(a) : t[i] = a[i]
      /\ t[n] = sep
      /\ \A i \in 1 .. Len(b) : t[n + i] = b[i]
  BY JoinedTexts
<1> HIDE DEF t
<1>2. Len(a) \in Nat /\ Len(b) \in Nat /\ DOMAIN t = 1 .. Len(t) /\ DOMAIN b = 1 .. Len(b)
  BY <1>1, LenProperties
<1>3. n \in Nat /\ n # 0 /\ n \in 1 .. Len(t) /\ n - 1 = Len(a) /\ Len(t) = n + Len(b)
  BY <1>1, <1>2
<1> HIDE DEF n
<1>4. \A k \in 1 .. Len(t) : n < k => t[k] # sep
  <2> SUFFICES ASSUME NEW k \in 1 .. Len(t), n < k PROVE t[k] # sep
    OBVIOUS
  <2>1. k - n \in 1 .. Len(b) /\ n + (k - n) = k
    BY <1>2, <1>3
  <2>2. t[k] = b[k - n]
    BY <1>1, <2>1
  <2> QED
    BY <1>2, <2>1, <2>2 DEF Holds
<1>5. at \in SUBSET Int /\ n \in at
  BY <1>1, <1>2, <1>3
<1>6. \A k \in at : k <= n
  <2>1. 0 <= n
    BY <1>3
  <2>2. ASSUME NEW k \in DOMAIN t, t[k] = sep PROVE k <= n
    <3>1. k \in 1 .. Len(t) /\ ~(n < k)
      BY <1>2, <1>4, <2>2
    <3> QED
      BY <1>3, <3>1
  <2> QED
    BY <2>1, <2>2
<1>7. Max(at) = n
  BY <1>5, <1>6, GreatestIsMax
<1>8. cutLast(t, sep) = [before |-> SubSeq(t, 1, n - 1), after |-> SubSeq(t, n + 1, Len(t)), found |-> TRUE]
  <2>1. cutLast(t, sep) = [before |-> IF Max(at) = 0 THEN t ELSE SubSeq(t, 1, Max(at) - 1),
                           after |-> IF Max(at) = 0 THEN <<>> ELSE SubSeq(t, Max(at) + 1, Len(t)),
                           found |-> Max(at) # 0]
    BY DEF cutLast
  <2> HIDE DEF at
  <2> QED
    BY <1>3, <1>7, <2>1
<1>9. \A i \in 1 .. Len(t) : t[i] \in S
  BY <1>1, <1>2, Indices
<1>10. SubSeq(t, 1, n - 1) = a
  <2> DEFINE u == SubSeq(t, 1, n - 1)
  <2>1. n - 1 \in Int /\ 1 \in Int /\ \A i \in 1 .. n - 1 : t[i] \in S
    BY <1>3, <1>9
  <2>2. /\ u \in Seq(S) /\ Len(u) = IF 1 <= n - 1 THEN n - 1 - 1 + 1 ELSE 0
        /\ \A i \in 1 .. n - 1 - 1 + 1 : u[i] = t[1 + i - 1]
    BY <2>1, SubSeqProperties
  <2>3. n - 1 - 1 + 1 = Len(a) /\ (\A i \in Int : 1 + i - 1 = i) /\ (~(1 <= n - 1) => Len(a) = 0)
    BY <1>2, <1>3
  <2> HIDE DEF u
  <2>4. Len(u) = Len(a) /\ \A i \in 1 .. Len(a) : u[i] = t[i]
    BY <2>2, <2>3
  <2>5. \A i \in 1 .. Len(u) : u[i] = a[i]
    BY <1>1, <2>4
  <2> QED
    BY <2>2, <2>4, <2>5, SeqEqual DEF u
<1>11. SubSeq(t, n + 1, Len(t)) = b
  <2> DEFINE u == SubSeq(t, n + 1, Len(t))
  <2>1. n + 1 \in Int /\ Len(t) \in Int /\ \A i \in n + 1 .. Len(t) : t[i] \in S
    <3>1. \A i \in n + 1 .. Len(t) : i \in 1 .. Len(t)
      BY <1>2, <1>3
    <3> QED
      BY <1>2, <1>3, <1>9, <3>1
  <2>2. /\ u \in Seq(S) /\ Len(u) = IF n + 1 <= Len(t) THEN Len(t) - (n + 1) + 1 ELSE 0
        /\ \A i \in 1 .. Len(t) - (n + 1) + 1 : u[i] = t[n + 1 + i - 1]
    BY <2>1, SubSeqProperties
  <2>3. /\ Len(t) - (n + 1) + 1 = Len(b) /\ (\A i \in Int : n + 1 + i - 1 = n + i)
        /\ (~(n + 1 <= Len(t)) => Len(b) = 0)
    BY <1>2, <1>3
  <2> HIDE DEF u
  <2>4. Len(u) = Len(b) /\ \A i \in 1 .. Len(b) : u[i] = t[n + i]
    <3>1. \A i \in 1 .. Len(b) : u[i] = t[n + 1 + i - 1] /\ n + 1 + i - 1 = n + i
      BY <2>2, <2>3
    <3>2. Len(u) = Len(b)
      BY <2>2, <2>3
    <3> QED
      BY <3>1, <3>2
  <2>5. \A i \in 1 .. Len(u) : u[i] = b[i]
    BY <1>1, <2>4
  <2> QED
    BY <2>2, <2>4, <2>5, SeqEqual DEF u
<1> QED
  BY <1>8, <1>10, <1>11 DEF t

\* A text without the separator is not cut.
LEMMA CutNowhere ==
  ASSUME NEW t, NEW sep, ~Holds(t, sep)
  PROVE  cutLast(t, sep) = [before |-> t, after |-> <<>>, found |-> FALSE]
<1>1. {0} \cup {k \in DOMAIN t : t[k] = sep} = {0}
  BY DEF Holds
<1>2. Max({0}) = 0
  BY GreatestIsMax
<1> QED
  BY <1>1, <1>2 DEF cutLast

\* Any text that has the separator is two that are joined by it.
LEMMA CutSomewhere ==
  ASSUME NEW S, NEW t \in Seq(S), NEW sep, Holds(t, sep)
  PROVE  \E a, b \in Seq(S) : t = a \o <<sep>> \o b /\ ~Holds(b, sep)
<1> DEFINE n == Len(t)
           at == {k \in DOMAIN t : t[k] = sep}
<1>1. n \in Nat /\ DOMAIN t = 1 .. n /\ \A i \in DOMAIN t : t[i] \in S
  BY Indices
<1>2. at \in SUBSET (1 .. n) /\ at # {}
  BY <1>1 DEF Holds
<1>3. PICK k \in at : \A i \in at : i <= k
  BY <1>1, <1>2, GreatestExists
<1>4. k \in 1 .. n /\ t[k] = sep /\ sep \in S
  BY <1>1, <1>3
<1> HIDE DEF n
<1> DEFINE a == SubSeq(t, 1, k - 1)
           b == SubSeq(t, k + 1, n)
<1>5. /\ a \in Seq(S) /\ Len(a) = k - 1
      /\ \A i \in 1 .. k - 1 : a[i] = t[i]
  <2>1. 1 \in Int /\ k - 1 \in Int /\ \A i \in 1 .. k - 1 : t[i] \in S
    BY <1>1, <1>4
  <2>2. /\ a \in Seq(S) /\ Len(a) = IF 1 <= k - 1 THEN k - 1 - 1 + 1 ELSE 0
        /\ \A i \in 1 .. k - 1 - 1 + 1 : a[i] = t[1 + i - 1]
    BY <2>1, SubSeqProperties
  <2>3. k - 1 - 1 + 1 = k - 1 /\ (\A i \in Int : 1 + i - 1 = i) /\ (~(1 <= k - 1) => k - 1 = 0)
    BY <1>1, <1>4
  <2> HIDE DEF a
  <2> QED
    BY <2>2, <2>3
<1>6. /\ b \in Seq(S) /\ Len(b) = n - k
      /\ \A i \in 1 .. n - k : b[i] = t[k + i]
  <2>1. k + 1 \in Int /\ n \in Int /\ \A i \in k + 1 .. n : t[i] \in S
    BY <1>1, <1>4
  <2>2. /\ b \in Seq(S) /\ Len(b) = IF k + 1 <= n THEN n - (k + 1) + 1 ELSE 0
        /\ \A i \in 1 .. n - (k + 1) + 1 : b[i] = t[k + 1 + i - 1]
    BY <2>1, SubSeqProperties
  <2>3. n - (k + 1) + 1 = n - k /\ (\A i \in Int : k + 1 + i - 1 = k + i) /\ (~(k + 1 <= n) => n - k = 0)
    BY <1>1, <1>4
  <2> HIDE DEF b
  <2>4. \A i \in 1 .. n - k : b[i] = t[k + 1 + i - 1] /\ k + 1 + i - 1 = k + i
    BY <2>2, <2>3
  <2>5. Len(b) = n - k
    BY <2>2, <2>3
  <2> QED
    BY <2>2, <2>4, <2>5
<1> HIDE DEF a, b
<1> DEFINE u == a \o <<sep>> \o b
<1>7. /\ u \in Seq(S) /\ Len(u) = Len(a) + 1 + Len(b)
      /\ \A i \in 1 .. Len(a) : u[i] = a[i]
      /\ u[Len(a) + 1] = sep
      /\ \A i \in 1 .. Len(b) : u[Len(a) + 1 + i] = b[i]
  <2>1. a \in Seq(S) /\ b \in Seq(S) /\ sep \in S
    BY <1>4, <1>5, <1>6
  <2> QED
    BY <2>1, JoinedTexts
<1> HIDE DEF u
<1>8. k - 1 + 1 = k /\ k - 1 + 1 + (n - k) = n /\ k \in Int
  BY <1>1, <1>4
<1>9. /\ Len(u) = n /\ u[k] = sep
      /\ \A i \in 1 .. k - 1 : u[i] = t[i]
      /\ \A i \in 1 .. n - k : u[k + i] = t[k + i]
  BY <1>5, <1>6, <1>7, <1>8
<1>10. ASSUME NEW i \in 1 .. Len(u) PROVE u[i] = t[i]
  <2>1. i \in 1 .. k - 1 \/ i = k \/ (i - k \in 1 .. n - k /\ k + (i - k) = i)
    BY <1>1, <1>4, <1>9
  <2> QED
    BY <1>4, <1>9, <2>1
<1>11. u = t
  BY <1>1, <1>7, <1>9, <1>10, SeqEqual DEF n
<1>12. ~Holds(b, sep)
  <2> SUFFICES ASSUME NEW i \in DOMAIN b, b[i] = sep PROVE FALSE
    BY DEF Holds
  <2>1. i \in 1 .. n - k
    BY <1>6, LenProperties
  <2>2. t[k + i] = sep /\ k + i \in 1 .. n /\ ~(k + i <= k)
    BY <1>1, <1>4, <1>6, <2>1
  <2> QED
    BY <1>1, <1>3, <2>2
<1> QED
  BY <1>5, <1>6, <1>11, <1>12 DEF u

\* The operations are words of their own, none of them a separator or a star.
LEMMA OperationWords ==
  /\ \A b : isOp(b) <=> \E o \in Operations : b = <<o>>
  /\ \A o \in Operations : isOp(<<o>>) /\ ~Holds(<<o>>, ":") /\ ~Holds(<<o>>, ".") /\ o \notin {":", ".", "*"}
  /\ ~isOp(<<>>) /\ ~isOp(<<"*">>)
<1>1. \A b : isOp(b) <=> \E o \in Operations : b = <<o>>
  BY DEF isOp, Operations
<1>2. \A o \in Operations : o \notin {":", ".", "*"}
  BY DEF Operations
<1>3. \A o \in Operations : ~Holds(<<o>>, ":") /\ ~Holds(<<o>>, ".")
  BY <1>2 DEF Holds
<1>4. \A o : <<o>> # <<>> /\ (<<o>> = <<"*">> => o = "*")
  OBVIOUS
<1> QED
  BY <1>1, <1>2, <1>3, <1>4

\* Texts of a few words.
LEMMA ShortTexts ==
  /\ \A x, y, z : <<x>> \o <<y>> \o <<z>> = <<x, y, z>>
  /\ \A x, w : Holds(<<x>>, w) <=> w = x
  /\ \A x, y, z, w : Holds(<<x, y, z>>, w) <=> w \in {x, y, z}
<1>1. \A x, y, z : <<x>> \o <<y>> \o <<z>> = <<x, y, z>>
  <2> TAKE x, y, z
  <2> DEFINE S == {x, y, z}
             u == <<x>> \o <<y>> \o <<z>>
             t == <<x, y, z>>
  <2>1. /\ <<x>> \in Seq(S) /\ <<z>> \in Seq(S) /\ y \in S
        /\ Len(<<x>>) = 1 /\ Len(<<z>>) = 1 /\ <<x>>[1] = x /\ <<z>>[1] = z
    OBVIOUS
  <2>2. t \in Seq(S) /\ Len(t) = 3 /\ t[1] = x /\ t[2] = y /\ t[3] = z
    OBVIOUS
  <2> HIDE DEF S
  <2>3. /\ u \in Seq(S) /\ Len(u) = 1 + 1 + 1
        /\ \A i \in 1 .. 1 : u[i] = <<x>>[i]
        /\ u[1 + 1] = y
        /\ \A i \in 1 .. 1 : u[1 + 1 + i] = <<z>>[i]
    BY <2>1, JoinedTexts
  <2> HIDE DEF u, t
  <2>4. Len(u) = 3 /\ u[1] = x /\ u[2] = y /\ u[3] = z
    BY <2>1, <2>3
  <2>5. \A i \in 1 .. 3 : u[i] = t[i]
    BY <2>2, <2>4
  <2> QED
    BY <2>2, <2>3, <2>4, <2>5, SeqEqual DEF u, t
<1>2. \A x, w : Holds(<<x>>, w) <=> w = x
  BY DEF Holds
<1>3. \A x, y, z, w : Holds(<<x, y, z>>, w) <=> w \in {x, y, z}
  <2> TAKE x, y, z, w
  <2>1. DOMAIN <<x, y, z>> = {1, 2, 3}
    OBVIOUS
  <2>2. <<x, y, z>>[1] = x /\ <<x, y, z>>[2] = y /\ <<x, y, z>>[3] = z
    OBVIOUS
  <2> QED
    BY <2>1, <2>2 DEF Holds
<1> QED
  BY <1>1, <1>2, <1>3

\* How a token is taken apart.
ByColon(t, a, b) ==
  /\ a \in Seq(STRING) /\ b \in Seq(STRING) /\ t = a \o <<":">> \o b /\ ":" \in STRING
  /\ ~Holds(b, ":") /\ Holds(t, ":")
  /\ splitToken(t) = [before |-> a, after |-> b, found |-> TRUE]

\* t is a, a dot and the operation b.
ByDot(t, a, b) ==
  /\ a \in Seq(STRING) /\ a # <<>> /\ isOp(b) /\ t = a \o <<".">> \o b
  /\ ~Holds(t, ":") /\ Holds(t, ".")
  /\ splitToken(t) = [before |-> a, after |-> b, found |-> TRUE]

\* t is not cut.
Whole(t) ==
  /\ ~Holds(t, ":") /\ splitToken(t) = [before |-> t, after |-> <<>>, found |-> FALSE]
  /\ \A a, b \in Seq(STRING) : isOp(b) /\ a # <<>> => t # a \o <<".">> \o b

\* Every text is cut by its last colon, by a dot before an operation, or not.
LEMMA TokenIsOneOf ==
  ASSUME NEW t \in Seq(STRING)
  PROVE  (\E a, b : ByColon(t, a, b) \/ ByDot(t, a, b)) \/ Whole(t)
<1> DEFINE colon == cutLast(t, ":")
           dot   == cutLast(t, ".")
<1>1. splitToken(t) = IF colon.found THEN colon
                      ELSE IF dot.found /\ isOp(dot.after) /\ dot.before # <<>> THEN dot
                      ELSE [before |-> t, after |-> <<>>, found |-> FALSE]
  BY DEF splitToken
<1> HIDE DEF colon, dot
<1>2. CASE Holds(t, ":")
  <2>1. PICK a, b \in Seq(STRING) : t = a \o <<":">> \o b /\ ~Holds(b, ":")
    BY <1>2, CutSomewhere
  <2>2. ":" \in STRING
    BY <1>2 DEF Holds
  <2>3. colon = [before |-> a, after |-> b, found |-> TRUE]
    BY <2>1, <2>2, CutJoined DEF colon
  <2> QED
    BY <1>1, <1>2, <2>1, <2>2, <2>3 DEF ByColon
<1>3. CASE ~Holds(t, ":")
  <2>1. ~colon.found
    BY <1>3, CutNowhere DEF colon
  <2>2. CASE Holds(t, ".")
    <3>1. PICK a, b \in Seq(STRING) : t = a \o <<".">> \o b /\ ~Holds(b, ".")
      BY <2>2, CutSomewhere
    <3>2. "." \in STRING
      BY <2>2 DEF Holds
    <3>3. dot = [before |-> a, after |-> b, found |-> TRUE]
      BY <3>1, <3>2, CutJoined DEF dot
    <3>4. CASE isOp(b) /\ a # <<>>
      BY <1>1, <1>3, <2>1, <2>2, <3>1, <3>3, <3>4 DEF ByDot
    <3>5. CASE ~(isOp(b) /\ a # <<>>)
      <4>1. splitToken(t) = [before |-> t, after |-> <<>>, found |-> FALSE]
        BY <1>1, <2>1, <3>3, <3>5
      <4>2. ASSUME NEW c \in Seq(STRING), NEW d \in Seq(STRING), isOp(d), c # <<>>, t = c \o <<".">> \o d
            PROVE  FALSE
        <5>1. ~Holds(d, ".")
          BY <4>2, OperationWords
        <5>2. dot = [before |-> c, after |-> d, found |-> TRUE]
          BY <3>2, <4>2, <5>1, CutJoined DEF dot
        <5> QED
          BY <3>3, <3>5, <4>2, <5>2
      <4> QED
        BY <1>3, <4>1, <4>2 DEF Whole
    <3> QED
      BY <3>4, <3>5
  <2>3. CASE ~Holds(t, ".")
    <3>1. ~dot.found
      BY <2>3, CutNowhere DEF dot
    <3>2. splitToken(t) = [before |-> t, after |-> <<>>, found |-> FALSE]
      BY <1>1, <2>1, <3>1
    <3>3. ASSUME NEW c \in Seq(STRING), NEW d \in Seq(STRING), t = c \o <<".">> \o d
          PROVE  FALSE
      <4>1. /\ t \in Seq(STRING \cup {"."}) /\ Len(t) = Len(c) + 1 + Len(d)
            /\ t[Len(c) + 1] = "."
        <5> DEFINE S == STRING \cup {"."}
        <5>1. c \in Seq(S) /\ d \in Seq(S) /\ "." \in S
          BY SeqMonotonic
        <5> HIDE DEF S
        <5> QED
          BY <3>3, <5>1, JoinedTexts DEF S
      <4>2. Len(c) + 1 \in DOMAIN t
        BY <4>1, LenProperties
      <4> QED
        BY <2>3, <4>1, <4>2 DEF Holds
    <3> QED
      BY <1>3, <3>2, <3>3 DEF Whole
  <2> QED
    BY <2>2, <2>3
<1> QED
  BY <1>2, <1>3

\* A text cut by a colon is of these words.
LEMMA WordsByColon ==
  ASSUME NEW t, NEW a, NEW b, ByColon(t, a, b), NEW r
  PROVE  a = <<r>> <=> /\ Len(t) > 1 /\ t[1] = r /\ t[2] = ":"
                       /\ \A i \in 3 .. Len(t) : t[i] # ":"
<1>1. /\ a \in Seq(STRING) /\ b \in Seq(STRING) /\ ":" \in STRING /\ ~Holds(b, ":")
      /\ t = a \o <<":">> \o b
  BY DEF ByColon
<1>2. /\ t \in Seq(STRING) /\ Len(t) = Len(a) + 1 + Len(b)
      /\ \A i \in 1 .. Len(a) : t[i] = a[i]
      /\ t[Len(a) + 1] = ":"
      /\ \A i \in 1 .. Len(b) : t[Len(a) + 1 + i] = b[i]
  BY <1>1, JoinedTexts
<1>3. Len(a) \in Nat /\ Len(b) \in Nat /\ DOMAIN a = 1 .. Len(a) /\ DOMAIN b = 1 .. Len(b)
  BY <1>1, LenProperties
<1>4. ASSUME a = <<r>>
      PROVE  /\ Len(t) > 1 /\ t[1] = r /\ t[2] = ":"
             /\ \A i \in 3 .. Len(t) : t[i] # ":"
  <2>1. Len(a) = 1 /\ a[1] = r
    BY <1>4
  <2>2. Len(t) = 2 + Len(b) /\ t[1] = r /\ t[2] = ":" /\ \A i \in 1 .. Len(b) : t[2 + i] = b[i]
    BY <1>2, <1>3, <2>1
  <2>3. ASSUME NEW i \in 3 .. Len(t) PROVE t[i] # ":"
    <3>1. i - 2 \in 1 .. Len(b) /\ 2 + (i - 2) = i
      BY <1>3, <2>2
    <3>2. b[i - 2] # ":"
      BY <1>1, <1>3, <3>1 DEF Holds
    <3> QED
      BY <2>2, <3>1, <3>2
  <2>4. Len(t) > 1
    BY <1>3, <2>2
  <2> QED
    BY <2>2, <2>3, <2>4
<1>5. ASSUME Len(t) > 1, t[1] = r, t[2] = ":", \A i \in 3 .. Len(t) : t[i] # ":"
      PROVE  a = <<r>>
  <2>1. Len(a) + 1 \in 1 .. Len(t)
    BY <1>2, <1>3
  <2>2. ~(Len(a) + 1 \in 3 .. Len(t))
    BY <1>2, <1>5
  <2>3. Len(a) = 0 \/ Len(a) = 1
    BY <1>3, <2>1, <2>2
  <2>4. CASE Len(a) = 0
    <3>1. Len(t) = 1 + Len(b) /\ \A i \in 1 .. Len(b) : t[1 + i] = b[i]
      BY <1>2, <1>3, <2>4
    <3>2. 1 \in 1 .. Len(b)
      BY <1>3, <1>5, <3>1
    <3>3. t[1 + 1] = b[1]
      BY <3>1, <3>2
    <3>4. b[1] = ":"
      BY <1>5, <3>3
    <3> QED
      BY <1>1, <1>3, <3>2, <3>4 DEF Holds
  <2>5. CASE Len(a) = 1
    <3>1. a[1] = r
      BY <1>2, <1>5, <2>5
    <3>2. a = <<a[1]>>
      BY <1>1, <2>5
    <3> QED
      BY <3>1, <3>2
  <2> QED
    BY <2>3, <2>4, <2>5
<1> QED
  BY <1>4, <1>5

\* The parts of a text that is cut by a separator are its own.
LEMMA PartsByColon ==
  ASSUME NEW t, NEW a, NEW b, ByColon(t, a, b), NEW r, NEW o, ~Holds(<<o>>, ":")
  PROVE  t = <<r, ":", o>> <=> a = <<r>> /\ b = <<o>>
<1>1. ASSUME t = <<r, ":", o>> PROVE a = <<r>> /\ b = <<o>>
  <2> DEFINE S == STRING \cup {r, o}
  <2>1. /\ a \in Seq(S) /\ b \in Seq(S) /\ <<r>> \in Seq(S) /\ <<o>> \in Seq(S) /\ ":" \in S
    <3>1. a \in Seq(S) /\ b \in Seq(S)
      BY SeqMonotonic DEF ByColon
    <3>2. <<r>> \in Seq(S) /\ <<o>> \in Seq(S)
      OBVIOUS
    <3> QED
      BY <3>1, <3>2 DEF ByColon
  <2> HIDE DEF S
  <2>2. t = <<r>> \o <<":">> \o <<o>> /\ ~Holds(<<o>>, ":")
    BY <1>1, ShortTexts
  <2>3. cutLast(t, ":") = [before |-> <<r>>, after |-> <<o>>, found |-> TRUE]
    BY <2>1, <2>2, CutJoined
  <2>4. cutLast(t, ":") = [before |-> a, after |-> b, found |-> TRUE]
    <3>1. t = a \o <<":">> \o b /\ ~Holds(b, ":")
      BY DEF ByColon
    <3> QED
      BY <2>1, <3>1, CutJoined
  <2> QED
    BY <2>3, <2>4
<1>2. ASSUME a = <<r>>, b = <<o>> PROVE t = <<r, ":", o>>
  BY <1>2, ShortTexts DEF ByColon
<1> QED
  BY <1>1, <1>2

\* So does one that ends in a star.
LEMMA StarByColon ==
  ASSUME NEW t, NEW a, NEW b, ByColon(t, a, b), NEW r
  PROVE  t = <<r, ":", "*">> <=> a = <<r>> /\ b = <<"*">>
<1> DEFINE o == "*"
<1>1. ~Holds(<<o>>, ":")
  BY ShortTexts
<1> HIDE DEF o
<1>2. t = <<r, ":", o>> <=> a = <<r>> /\ b = <<o>>
  BY <1>1, PartsByColon
<1> QED
  BY <1>2 DEF o

\* A text cut by its dot states the parts that it was joined of.
LEMMA PartsByDot ==
  ASSUME NEW t, NEW a, NEW b, ByDot(t, a, b), NEW r, NEW o \in Operations
  PROVE  t = <<r, ".", o>> <=> a = <<r>> /\ b = <<o>>
<1>1. ASSUME t = <<r, ".", o>> PROVE a = <<r>> /\ b = <<o>>
  <2> DEFINE S == STRING \cup {r, o, "."} \cup Operations
  <2>1. /\ a \in Seq(S) /\ b \in Seq(S) /\ <<r>> \in Seq(S) /\ <<o>> \in Seq(S) /\ "." \in S
    <3>1. a \in Seq(S)
      BY SeqMonotonic DEF ByDot
    <3>2. <<r>> \in Seq(S) /\ <<o>> \in Seq(S) /\ \A w \in Operations : <<w>> \in Seq(S)
      OBVIOUS
    <3>3. \E w \in Operations : b = <<w>>
      BY OperationWords, Zenon DEF ByDot
    <3>4. b \in Seq(S)
      BY <3>2, <3>3, Zenon
    <3> QED
      BY <3>1, <3>2, <3>4
  <2> HIDE DEF S
  <2>2. t = <<r>> \o <<".">> \o <<o>> /\ ~Holds(<<o>>, ".")
    <3>1. ~Holds(<<o>>, ".")
      BY OperationWords
    <3> QED
      BY <1>1, <3>1, ShortTexts
  <2>3. cutLast(t, ".") = [before |-> <<r>>, after |-> <<o>>, found |-> TRUE]
    BY <2>1, <2>2, CutJoined
  <2>4. cutLast(t, ".") = [before |-> a, after |-> b, found |-> TRUE]
    <3>1. t = a \o <<".">> \o b /\ ~Holds(b, ".")
      BY OperationWords DEF ByDot
    <3> QED
      BY <2>1, <3>1, CutJoined
  <2> QED
    BY <2>3, <2>4
<1>2. ASSUME a = <<r>>, b = <<o>> PROVE t = <<r, ".", o>>
  BY <1>2, ShortTexts DEF ByDot
<1> QED
  BY <1>1, <1>2

\* What a token for operations grants is what the table says: asked for any.
LEMMA AnyOperationGranted ==
  ASSUME NEW t \in Seq(STRING), NEW r, r \notin {":", "."}
  PROVE  splitToken(t).before = <<r>> <=> GrantsOperation(t, <<r>>)
<1>1. GrantsOperation(t, <<r>>) <=>
        \/ t = <<r>>
        \/ \E o \in Operations : t = <<r, ".", o>>
        \/ /\ Len(t) > 1 /\ t[1] = r /\ t[2] = ":"
           /\ \A i \in 3 .. Len(t) : t[i] # ":"
  <2>1. Len(<<r>>) = 1 /\ <<r>>[1] = r
    OBVIOUS
  <2> DEFINE w == <<r>>
  <2>2. Len(w) = 1 /\ w[1] = r /\ w = <<r>>
    BY <2>1
  <2> HIDE DEF w
  <2>3. GrantsOperation(t, w) <=>
        \/ t = <<r>>
        \/ \E o \in Operations : t = <<r, ".", o>>
        \/ /\ Len(t) > 1 /\ t[1] = r /\ t[2] = ":"
           /\ \A i \in 3 .. Len(t) : t[i] # ":"
    <3>1. ~(Len(w) = 3)
      BY <2>2
    <3> QED
      BY <2>2, <3>1 DEF GrantsOperation
  <2> QED
    BY <2>3 DEF w
<1>2. ASSUME NEW a, NEW b, ByColon(t, a, b)
      PROVE  splitToken(t).before = <<r>> <=> GrantsOperation(t, <<r>>)
  <2>1. splitToken(t).before = a /\ Holds(t, ":")
    BY <1>2 DEF ByColon
  <2>2. t # <<r>> /\ \A o \in Operations : t # <<r, ".", o>>
    <3>1. ~Holds(<<r>>, ":")
      BY ShortTexts
    <3>2. \A o \in Operations : ~Holds(<<r, ".", o>>, ":")
      <4>1. \A o \in Operations : ":" \notin {r, ".", o}
        BY OperationWords
      <4> QED
        BY <4>1, ShortTexts
    <3> QED
      BY <2>1, <3>1, <3>2
  <2>3. a = <<r>> <=> /\ Len(t) > 1 /\ t[1] = r /\ t[2] = ":"
                      /\ \A i \in 3 .. Len(t) : t[i] # ":"
    BY <1>2, WordsByColon
  <2> QED
    BY <1>1, <2>1, <2>2, <2>3
<1>3. ASSUME ~Holds(t, ":")
      PROVE  ~(/\ Len(t) > 1 /\ t[1] = r /\ t[2] = ":"
               /\ \A i \in 3 .. Len(t) : t[i] # ":")
  <2>1. Len(t) > 1 => 2 \in DOMAIN t
    BY LenProperties
  <2> QED
    BY <1>3, <2>1 DEF Holds
<1>4. ASSUME NEW a, NEW b, ByDot(t, a, b)
      PROVE  splitToken(t).before = <<r>> <=> GrantsOperation(t, <<r>>)
  <2>1. splitToken(t).before = a /\ Holds(t, ".") /\ ~Holds(t, ":") /\ isOp(b)
    BY <1>4 DEF ByDot
  <2>2. t # <<r>>
    BY <2>1, ShortTexts
  <2>3. \A o \in Operations : t = <<r, ".", o>> <=> a = <<r>> /\ b = <<o>>
    BY <1>4, PartsByDot
  <2>4. \E o \in Operations : b = <<o>>
    BY <2>1, OperationWords
  <2> QED
    BY <1>1, <1>3, <2>1, <2>2, <2>3, <2>4
<1>5. ASSUME Whole(t)
      PROVE  splitToken(t).before = <<r>> <=> GrantsOperation(t, <<r>>)
  <2>1. splitToken(t).before = t /\ ~Holds(t, ":")
    BY <1>5 DEF Whole
  <2>2. ASSUME NEW o \in Operations, t = <<r, ".", o>> PROVE FALSE
    <3>1. t = <<r>> \o <<".">> \o <<o>> /\ isOp(<<o>>) /\ <<r>> # <<>>
      <4>1. isOp(<<o>>)
        BY OperationWords
      <4> QED
        BY <2>2, <4>1, ShortTexts
    <3>2. <<r>> \in Seq(STRING) /\ <<o>> \in Seq(STRING)
      <4>1. t[1] = r /\ t[3] = o /\ 1 \in 1 .. Len(t) /\ 3 \in 1 .. Len(t)
        BY <2>2
      <4>2. r \in STRING /\ o \in STRING
        BY <4>1, ElementOfSeq
      <4> QED
        BY <4>2
    <3> QED
      BY <1>5, <3>1, <3>2 DEF Whole
  <2> QED
    BY <1>1, <1>3, <2>1, <2>2
<1> QED
  BY <1>2, <1>4, <1>5, TokenIsOneOf

\* Asked for one of them.
LEMMA OneOperationGranted ==
  ASSUME NEW t \in Seq(STRING), NEW r, r \notin {":", "."}, NEW sep, NEW o \in Operations
  PROVE  LET cut == splitToken(t)
         IN  cut.before = <<r>> /\ (~cut.found \/ cut.after = <<o>>)
               <=> GrantsOperation(t, <<r, sep, o>>)
<1> DEFINE Term == /\ splitToken(t).before = <<r>>
                   /\ ~splitToken(t).found \/ splitToken(t).after = <<o>>
<1>1. GrantsOperation(t, <<r, sep, o>>) <=> t \in {<<r>>, <<r, ":", o>>, <<r, ".", o>>}
  <2>1. /\ Len(<<r, sep, o>>) = 3 /\ <<r, sep, o>>[1] = r /\ <<r, sep, o>>[3] = o
    OBVIOUS
  <2> DEFINE w == <<r, sep, o>>
  <2>2. Len(w) = 3 /\ w[1] = r /\ w[3] = o
    BY <2>1
  <2> HIDE DEF w
  <2>3. ~(Len(w) = 1)
    BY <2>2
  <2>4. GrantsOperation(t, w) <=> t \in {<<r>>, <<r, ":", o>>, <<r, ".", o>>}
    BY <2>2, <2>3 DEF GrantsOperation
  <2> QED
    BY <2>4 DEF w
<1>2. ASSUME NEW a, NEW b, ByColon(t, a, b)
      PROVE  Term <=> t \in {<<r>>, <<r, ":", o>>, <<r, ".", o>>}
  <2>1. splitToken(t) = [before |-> a, after |-> b, found |-> TRUE] /\ Holds(t, ":")
    BY <1>2 DEF ByColon
  <2>2. o # ":" /\ ~Holds(<<o>>, ":")
    BY OperationWords
  <2>3. t # <<r>> /\ t # <<r, ".", o>>
    BY <2>1, <2>2, ShortTexts
  <2>4. t = <<r, ":", o>> <=> a = <<r>> /\ b = <<o>>
    BY <1>2, <2>2, PartsByColon
  <2> QED
    BY <2>1, <2>3, <2>4
<1>3. ASSUME NEW a, NEW b, ByDot(t, a, b)
      PROVE  Term <=> t \in {<<r>>, <<r, ":", o>>, <<r, ".", o>>}
  <2>1. splitToken(t) = [before |-> a, after |-> b, found |-> TRUE] /\ Holds(t, ".") /\ ~Holds(t, ":")
    BY <1>3 DEF ByDot
  <2>2. t # <<r>> /\ t # <<r, ":", o>>
    BY <2>1, ShortTexts
  <2>3. t = <<r, ".", o>> <=> a = <<r>> /\ b = <<o>>
    BY <1>3, PartsByDot
  <2> QED
    BY <2>1, <2>2, <2>3
<1>4. ASSUME Whole(t)
      PROVE  Term <=> t \in {<<r>>, <<r, ":", o>>, <<r, ".", o>>}
  <2>1. splitToken(t) = [before |-> t, after |-> <<>>, found |-> FALSE] /\ ~Holds(t, ":")
    BY <1>4 DEF Whole
  <2>2. t # <<r, ":", o>>
    BY <2>1, ShortTexts
  <2>3. t # <<r, ".", o>>
    <3>1. t = <<r, ".", o>> => GrantsOperation(t, <<r>>)
      <4>1. Len(<<r>>) = 1 /\ <<r>>[1] = r
        OBVIOUS
      <4> DEFINE w == <<r>>
      <4>2. Len(w) = 1 /\ w[1] = r
        BY <4>1
      <4> HIDE DEF w
      <4>3. t = <<r, ".", o>> => GrantsOperation(t, w)
        BY <4>2 DEF GrantsOperation
      <4> QED
        BY <4>3 DEF w
    <3>2. t = <<r, ".", o>> => t = <<r>>
      <4>1. splitToken(t).before = <<r>> <=> GrantsOperation(t, <<r>>)
        BY AnyOperationGranted
      <4>2. splitToken(t).before = t
        BY <2>1
      <4> QED
        BY <3>1, <4>1, <4>2
    <3>3. <<r, ".", o>> # <<r>>
      OBVIOUS
    <3> QED
      BY <3>2, <3>3
  <2> QED
    BY <2>1, <2>2, <2>3
<1>5. Term <=> t \in {<<r>>, <<r, ":", o>>, <<r, ".", o>>}
  BY <1>2, <1>3, <1>4, TokenIsOneOf
<1> QED
  BY <1>1, <1>5

\* A word of a joined text is the separator or a word of one of the parts.
LEMMA JoinedTextHolds ==
  ASSUME NEW S, NEW a \in Seq(S), NEW b \in Seq(S), NEW sep \in S, NEW w
  PROVE  Holds(a \o <<sep>> \o b, w) <=> Holds(a, w) \/ w = sep \/ Holds(b, w)
<1> DEFINE t == a \o <<sep>> \o b
           n == Len(a) + 1
<1>1. /\ t \in Seq(S) /\ Len(t) = Len(a) + 1 + Len(b)
      /\ \A i \in 1 .. Len(a) : t[i] = a[i]
      /\ t[n] = sep
      /\ \A i \in 1 .. Len(b) : t[n + i] = b[i]
  BY JoinedTexts
<1> HIDE DEF t
<1>2. /\ Len(a) \in Nat /\ Len(b) \in Nat /\ DOMAIN t = 1 .. Len(t)
      /\ DOMAIN a = 1 .. Len(a) /\ DOMAIN b = 1 .. Len(b)
  BY <1>1, LenProperties
<1>3. n \in Nat /\ n - 1 = Len(a) /\ Len(t) = n + Len(b)
  BY <1>1, <1>2
<1> HIDE DEF n
<1>4. \A i \in 1 .. Len(t) : i \in 1 .. Len(a) \/ i = n \/ (i - n \in 1 .. Len(b) /\ n + (i - n) = i)
  BY <1>2, <1>3
<1>5. /\ \A i \in 1 .. Len(a) : i \in 1 .. Len(t)
      /\ n \in 1 .. Len(t)
      /\ \A i \in 1 .. Len(b) : n + i \in 1 .. Len(t)
  BY <1>2, <1>3
<1>6. ASSUME NEW i \in DOMAIN t, t[i] = w PROVE Holds(a, w) \/ w = sep \/ Holds(b, w)
  <2>1. i \in 1 .. Len(a) \/ i = n \/ (i - n \in 1 .. Len(b) /\ n + (i - n) = i)
    BY <1>2, <1>4
  <2> QED
    BY <1>1, <1>2, <1>6, <2>1 DEF Holds
<1>7. Holds(a, w) \/ w = sep \/ Holds(b, w) => Holds(t, w)
  BY <1>1, <1>2, <1>5 DEF Holds
<1> QED
  BY <1>6, <1>7 DEF Holds, t

\* A text of two words is one word joined to another.
LEMMA TwoWords ==
  ASSUME NEW x, NEW y
  PROVE  <<x, y>> = <<x>> \o <<y>>
<1> DEFINE S == {x, y}
           u == <<x>> \o <<y>>
           t == <<x, y>>
<1>1. /\ <<x>> \in Seq(S) /\ <<y>> \in Seq(S)
      /\ Len(<<x>>) = 1 /\ Len(<<y>>) = 1 /\ <<x>>[1] = x /\ <<y>>[1] = y
  OBVIOUS
<1>2. t \in Seq(S) /\ Len(t) = 2 /\ t[1] = x /\ t[2] = y
  OBVIOUS
<1> HIDE DEF S
<1>3. /\ u \in Seq(S) /\ Len(u) = 1 + 1
      /\ \A i \in 1 .. 1 + 1 : u[i] = IF i <= 1 THEN <<x>>[i] ELSE <<y>>[i - 1]
  BY <1>1, ConcatProperties
<1> HIDE DEF u, t
<1>4. u[1] = x /\ u[2] = y /\ Len(u) = 2
  BY <1>1, <1>3
<1>5. \A i \in 1 .. 2 : u[i] = t[i]
  BY <1>2, <1>4
<1> QED
  BY <1>2, <1>3, <1>4, <1>5, SeqEqual DEF u, t

\* The words of texts that are joined.
Words(r) == STRING \cup {r, ":", ".", "*"} \cup Operations

\* The texts of scopes, and the parts of requirements, are of these words.
LEMMA TextsOfWords ==
  ASSUME NEW r
  PROVE  /\ \A t \in Seq(STRING) : t \in Seq(Words(r))
         /\ <<r>> \in Seq(Words(r)) /\ <<":">> \in Seq(Words(r)) /\ <<".">> \in Seq(Words(r))
         /\ \A op : isOp(op) => op \in Seq(Words(r))
         /\ ":" \in Words(r) /\ "." \in Words(r)
<1> DEFINE S == Words(r)
<1>1. /\ STRING \subseteq S /\ r \in S /\ ":" \in S /\ "." \in S /\ \A o \in Operations : o \in S
  BY DEF Words
<1> HIDE DEF S
<1>2. \A t \in Seq(STRING) : t \in Seq(S)
  BY <1>1, SeqMonotonic
<1>3. <<r>> \in Seq(S) /\ <<":">> \in Seq(S) /\ <<".">> \in Seq(S) /\ \A o \in Operations : <<o>> \in Seq(S)
  BY <1>1
<1>4. \A op : isOp(op) => op \in Seq(S)
  BY <1>3, OperationWords
<1> QED
  BY <1>1, <1>2, <1>3, <1>4 DEF S

\* A token that names an instance is cut between the resource and the name.
LEMMA NamedByColon ==
  ASSUME NEW t, NEW a, NEW b, ByColon(t, a, b), NEW r, NEW y \in Seq(Words(r))
  PROVE  t = <<r, ":">> \o y /\ ~Holds(y, ":") <=> a = <<r>> /\ b = y
<1> DEFINE S == Words(r)
<1>1. /\ a \in Seq(S) /\ b \in Seq(S) /\ <<r>> \in Seq(S) /\ ":" \in S
  BY TextsOfWords DEF ByColon
<1>2. t = a \o <<":">> \o b /\ ~Holds(b, ":")
  BY DEF ByColon
<1>3. <<r, ":">> \o y = <<r>> \o <<":">> \o y
  BY TwoWords
<1> HIDE DEF S
<1>4. ASSUME t = <<r, ":">> \o y, ~Holds(y, ":") PROVE a = <<r>> /\ b = y
  <2>1. cutLast(t, ":") = [before |-> <<r>>, after |-> y, found |-> TRUE]
    BY <1>1, <1>3, <1>4, CutJoined DEF S
  <2>2. cutLast(t, ":") = [before |-> a, after |-> b, found |-> TRUE]
    BY <1>1, <1>2, CutJoined
  <2> QED
    BY <2>1, <2>2
<1> QED
  BY <1>2, <1>3, <1>4

\* A token without a colon names no instance.
LEMMA NamedWithColon ==
  ASSUME NEW r, NEW y \in Seq(Words(r))
  PROVE  Holds(<<r, ":">> \o y, ":")
<1>1. <<r, ":">> \o y = <<r>> \o <<":">> \o y
  BY TwoWords
<1> DEFINE S == Words(r)
           a == <<r>>
           c == ":"
<1>2. a \in Seq(S) /\ y \in Seq(S) /\ c \in S
  BY TextsOfWords
<1> HIDE DEF S, a
<1>3. Holds(a \o <<c>> \o y, c)
  BY <1>2, JoinedTextHolds
<1> QED
  BY <1>1, <1>3 DEF a

\* A name that ends in a known operation, behind a dot.
LEMMA EndsInOperation ==
  ASSUME NEW x \in Seq(STRING)
  PROVE  cutLast(x, ".").found /\ isOp(cutLast(x, ".").after)
           <=> Len(x) > 1 /\ x[Len(x) - 1] = "." /\ x[Len(x)] \in Operations
<1>1. Len(x) \in Nat /\ DOMAIN x = 1 .. Len(x)
  BY LenProperties
<1>2. CASE ~Holds(x, ".")
  <2>1. ~cutLast(x, ".").found
    BY <1>2, CutNowhere
  <2>2. Len(x) > 1 => Len(x) - 1 \in DOMAIN x
    BY <1>1
  <2> QED
    BY <1>2, <2>1, <2>2 DEF Holds
<1>3. CASE Holds(x, ".")
  <2>1. PICK c, d \in Seq(STRING) : x = c \o <<".">> \o d /\ ~Holds(d, ".")
    BY <1>3, CutSomewhere
  <2>2. "." \in STRING
    BY <1>3 DEF Holds
  <2>3. cutLast(x, ".") = [before |-> c, after |-> d, found |-> TRUE]
    BY <2>1, <2>2, CutJoined
  <2>4. /\ Len(x) = Len(c) + 1 + Len(d) /\ x[Len(c) + 1] = "."
        /\ \A i \in 1 .. Len(d) : x[Len(c) + 1 + i] = d[i]
    BY <2>1, <2>2, JoinedTexts
  <2>5. Len(c) \in Nat /\ Len(d) \in Nat /\ DOMAIN d = 1 .. Len(d)
    BY <2>1, LenProperties
  <2>6. ASSUME isOp(d) PROVE Len(x) > 1 /\ x[Len(x) - 1] = "." /\ x[Len(x)] \in Operations
    <3>1. PICK o \in Operations : d = <<o>>
      BY <2>6, OperationWords
    <3>2. Len(d) = 1 /\ d[1] = o
      BY <3>1
    <3>3. x[Len(c) + 1 + 1] = o
      BY <2>4, <3>2
    <3>4. Len(x) > 1 /\ Len(x) - 1 = Len(c) + 1 /\ Len(x) = Len(c) + 1 + 1
      BY <2>4, <2>5, <3>2
    <3> QED
      BY <2>4, <3>3, <3>4
  <2>7. ASSUME Len(x) > 1, x[Len(x) - 1] = ".", x[Len(x)] \in Operations PROVE isOp(d)
    <3>1. Len(d) # 0
      <4>1. Len(d) = 0 => Len(x) = Len(c) + 1
        BY <2>4, <2>5
      <4>2. "." \notin Operations
        BY OperationWords
      <4> QED
        BY <2>4, <2>7, <4>1, <4>2
    <3>2. ASSUME Len(d) > 1 PROVE FALSE
      <4>1. Len(d) - 1 \in 1 .. Len(d) /\ Len(c) + 1 + (Len(d) - 1) = Len(x) - 1
        BY <2>4, <2>5, <3>2
      <4>2. d[Len(d) - 1] = "."
        BY <2>4, <2>7, <4>1
      <4> QED
        BY <2>1, <2>5, <4>1, <4>2 DEF Holds
    <3>3. Len(d) = 1
      BY <2>5, <3>1, <3>2
    <3>4. Len(x) = Len(c) + 1 + 1 /\ 1 \in 1 .. Len(d)
      BY <2>4, <2>5, <3>3
    <3>5. d[1] = x[Len(x)]
      BY <2>4, <3>4
    <3>6. d = <<d[1]>>
      BY <2>1, <3>3
    <3> QED
      BY <2>7, <3>5, <3>6, OperationWords
  <2> QED
    BY <2>3, <2>6, <2>7
<1> QED
  BY <1>2, <1>3

\* The name of an instance and an operation make the name of a direction.
LEMMA NamedDirection ==
  ASSUME NEW x \in Seq(STRING), NEW id \in Seq(STRING), NEW op, isOp(op)
  PROVE  LET dir == cutLast(x, ".")
         IN  dir.found /\ dir.before = id /\ dir.after = op <=> x = id \o <<".">> \o op
<1> DEFINE S == Words("")
<1>1. x \in Seq(S) /\ id \in Seq(S) /\ op \in Seq(S) /\ "." \in S
  BY TextsOfWords
<1> HIDE DEF S
<1>2. ~Holds(op, ".")
  BY OperationWords
<1>3. ASSUME x = id \o <<".">> \o op
      PROVE  cutLast(x, ".") = [before |-> id, after |-> op, found |-> TRUE]
  BY <1>1, <1>2, <1>3, CutJoined
<1>4. ASSUME cutLast(x, ".").found
      PROVE  x = cutLast(x, ".").before \o <<".">> \o cutLast(x, ".").after
  <2>1. Holds(x, ".")
    BY <1>4, CutNowhere
  <2>2. PICK c, d \in Seq(S) : x = c \o <<".">> \o d /\ ~Holds(d, ".")
    BY <1>1, <2>1, CutSomewhere
  <2>3. cutLast(x, ".") = [before |-> c, after |-> d, found |-> TRUE]
    BY <1>1, <2>2, CutJoined
  <2>4. cutLast(x, ".").before = c /\ cutLast(x, ".").after = d
    BY <2>3
  <2> QED
    BY <2>2, <2>4
<1>5. ASSUME x = id \o <<".">> \o op
      PROVE  cutLast(x, ".").found /\ cutLast(x, ".").before = id /\ cutLast(x, ".").after = op
  BY <1>3, <1>5
<1> DEFINE dir == cutLast(x, ".")
<1>6. x = id \o <<".">> \o op => dir.found /\ dir.before = id /\ dir.after = op
  BY <1>5
<1>7. dir.found => x = dir.before \o <<".">> \o dir.after
  BY <1>4
<1> HIDE DEF dir
<1>8. dir.found /\ dir.before = id /\ dir.after = op <=> x = id \o <<".">> \o op
  BY <1>6, <1>7, Zenon
<1> QED
  BY <1>8 DEF dir

\* The instance a name ends in, and what a token for instances names.
Ends(x) == Len(x) > 1 /\ x[Len(x) - 1] = "." /\ x[Len(x)] \in Operations

Names(t, r, op, id) ==
  \/ t \in {<<r>>, <<r, ":", "*">>}
  \/ /\ ~Holds(id, ":")
     /\ \/ t = <<r, ":">> \o id /\ ~isOp(id) /\ ~(op # <<>> /\ Ends(id))
        \/ op # <<>> /\ t = <<r, ":">> \o id \o <<".">> \o op

\* The values of requirements: a resource, and one of its operations.
Wants(want, r, sep, op) ==
  \/ want = <<r>> /\ op = <<>>
  \/ \E o \in Operations : want = <<r, sep, o>> /\ op = <<o>>

\* A token grants an instance of what is wanted exactly if it names it.
LEMMA AskedInstances ==
  ASSUME NEW t, NEW r, NEW sep, NEW op, NEW want, Wants(want, r, sep, op), NEW id \in Seq(STRING)
  PROVE  GrantsInstance(t, want, id) <=> Names(t, r, op, id)
<1>1. want[1] = r /\ (IF Len(want) = 3 THEN <<want[3]>> ELSE <<>>) = op
  <2>1. CASE want = <<r>> /\ op = <<>>
    <3>1. Len(<<r>>) = 1 /\ <<r>>[1] = r
      OBVIOUS
    <3>2. Len(want) = 1 /\ want[1] = r
      BY <2>1, <3>1
    <3>3. ~(Len(want) = 3)
      BY <3>2
    <3> QED
      BY <2>1, <3>2, <3>3
  <2>2. ASSUME NEW o \in Operations, want = <<r, sep, o>>, op = <<o>>
        PROVE  want[1] = r /\ (IF Len(want) = 3 THEN <<want[3]>> ELSE <<>>) = op
    <3>1. Len(<<r, sep, o>>) = 3 /\ <<r, sep, o>>[1] = r /\ <<r, sep, o>>[3] = o
      OBVIOUS
    <3>2. Len(want) = 3 /\ want[1] = r /\ want[3] = o
      BY <2>2, <3>1
    <3> QED
      BY <2>2, <3>2
  <2> QED
    BY <2>1, <2>2 DEF Wants
<1>2. isOp(id) <=> Len(id) = 1 /\ id[1] \in Operations
  <2>1. ASSUME NEW o \in Operations, id = <<o>> PROVE Len(id) = 1 /\ id[1] \in Operations
    BY <2>1
  <2>2. Len(id) = 1 => id = <<id[1]>>
    OBVIOUS
  <2> QED
    BY <2>1, <2>2, OperationWords
<1>3. GrantsInstance(t, want, id) <=>
        \/ t \in {<<r>>, <<r, ":", "*">>}
        \/ /\ ~Holds(id, ":")
           /\ \/ t = <<r, ":">> \o id /\ ~(Len(id) = 1 /\ id[1] \in Operations) /\ ~(op # <<>> /\ Ends(id))
              \/ op # <<>> /\ t = <<r, ":">> \o id \o <<".">> \o op
  BY <1>1, Zenon DEF GrantsInstance, Ends
<1> QED
  BY <1>2, <1>3, Zenon DEF Names

\* It does not matter in which order texts are joined.
Reassociates(x, y, z) == (x \o y) \o z = x \o (y \o z)

\* Joining is associative, of three texts.
LEMMA JoinedInAnyOrder ==
  ASSUME NEW S, NEW x \in Seq(S), NEW y \in Seq(S), NEW z \in Seq(S)
  PROVE  Reassociates(x, y, z)
BY ConcatAssociative DEF Reassociates

\* Four texts, joined from the left and around the middle.
JoinsAround(e, a, p, b) == e \o a \o p \o b = e \o (a \o p \o b)

\* Joining is associative, of four texts.
LEMMA JoinedAround ==
  ASSUME NEW S, NEW e \in Seq(S), NEW a \in Seq(S), NEW p \in Seq(S), NEW b \in Seq(S)
  PROVE  JoinsAround(e, a, p, b)
<1>1. Reassociates(e, a, p)
  BY JoinedInAnyOrder
<1> DEFINE q == a \o p
<1>2. q \in Seq(S)
  BY ConcatProperties
<1> HIDE DEF q
<1>3. Reassociates(e, q, b)
  BY <1>2, JoinedInAnyOrder
<1> QED
  BY <1>1, <1>3 DEF Reassociates, JoinsAround, q

\* The tokens that the instance gate looks for.
TokenNames(t, r, op, id) ==
  LET cut == splitToken(t)
      dir == cutLast(cut.after, ".")
  IN  /\ cut.before = <<r>>
      /\ \/ ~cut.found \/ cut.after = <<"*">>
         \/ /\ ~isOp(cut.after)
            /\ IF op # <<>> /\ dir.found /\ isOp(dir.after)
               THEN dir.before = id /\ dir.after = op
               ELSE cut.after = id

\* What a token for instances grants is what the table says.
LEMMA InstanceGranted ==
  ASSUME NEW t \in Seq(STRING), NEW r, r \notin {":", "."}, NEW sep, NEW op, NEW want,
         Wants(want, r, sep, op), NEW id \in Seq(STRING)
  PROVE  TokenNames(t, r, op, id) <=> GrantsInstance(t, want, id)
<1> DEFINE cut == splitToken(t)
           dir == cutLast(cut.after, ".")
           Term == /\ cut.before = <<r>>
                   /\ \/ ~cut.found \/ cut.after = <<"*">>
                      \/ /\ ~isOp(cut.after)
                         /\ IF op # <<>> /\ dir.found /\ isOp(dir.after)
                            THEN dir.before = id /\ dir.after = op
                            ELSE cut.after = id
<1>1. op # <<>> => isOp(op)
  BY OperationWords DEF Wants
<1>2. ASSUME NEW a, NEW b, ByColon(t, a, b) PROVE Term <=> Names(t, r, op, id)
  <2> DEFINE d == cutLast(b, ".")
             y == id \o <<".">> \o op
  <2>1. cut = [before |-> a, after |-> b, found |-> TRUE] /\ b \in Seq(STRING) /\ Holds(t, ":")
    BY <1>2 DEF ByColon
  <2>2. cut.before = a /\ cut.after = b /\ cut.found
    BY <2>1
  <2>3. Term <=> /\ a = <<r>>
                 /\ \/ b = <<"*">>
                    \/ /\ ~isOp(b)
                       /\ IF op # <<>> /\ d.found /\ isOp(d.after)
                          THEN d.before = id /\ d.after = op
                          ELSE b = id
    BY <2>2
  <2>4. t # <<r>>
    BY <2>1, ShortTexts
  <2>5. t = <<r, ":", "*">> <=> a = <<r>> /\ b = <<"*">>
    BY <1>2, StarByColon
  <2>6. t = <<r, ":">> \o id /\ ~Holds(id, ":") <=> a = <<r>> /\ b = id
    <3>1. id \in Seq(Words(r))
      BY TextsOfWords
    <3> QED
      BY <1>2, <3>1, NamedByColon
  <2>7. d.found /\ isOp(d.after) <=> Ends(b)
    BY <2>1, EndsInOperation DEF Ends
  <2>8. d.found => ~isOp(b)
    <3>1. isOp(b) => ~Holds(b, ".")
      BY OperationWords
    <3>2. ~Holds(b, ".") => ~d.found
      BY CutNowhere
    <3> QED
      BY <3>1, <3>2
  <2>9. ASSUME op # <<>>
        PROVE  /\ d.found /\ d.before = id /\ d.after = op <=> b = y
               /\ t = <<r, ":">> \o id \o <<".">> \o op /\ ~Holds(id, ":") <=> a = <<r>> /\ b = y
    <3>1. isOp(op)
      BY <1>1, <2>9
    <3>2. d.found /\ d.before = id /\ d.after = op <=> b = y
      BY <2>1, <3>1, NamedDirection
    <3> DEFINE S == Words(r)
    <3>3. id \in Seq(S) /\ op \in Seq(S) /\ "." \in S /\ <<r>> \in Seq(S) /\ <<":">> \in Seq(S) /\ <<".">> \in Seq(S)
      BY <3>1, TextsOfWords
    <3> DEFINE e == <<r, ":">>
               p == <<".">>
    <3>4. e \in Seq(S)
      <4>1. e = <<r>> \o <<":">>
        BY TwoWords
      <4> QED
        BY <3>3, <4>1, ConcatProperties
    <3>5. y \in Seq(S)
      BY <3>3, JoinedTexts
    <3>6. e \o id \o p \o op = e \o y
      <4>1. p \in Seq(S) /\ id \in Seq(S) /\ op \in Seq(S)
        BY <3>3
      <4> HIDE DEF S, e, p, y
      <4>2. JoinsAround(e, id, p, op)
        BY <3>4, <4>1, JoinedAround
      <4> QED
        BY <4>2 DEF JoinsAround, p, y
    <3>7. Holds(y, ":") <=> Holds(id, ":")
      <4>1. Holds(y, ":") <=> Holds(id, ":") \/ ":" = "." \/ Holds(op, ":")
        <5> DEFINE c == "."
        <5>1. c \in S
          BY <3>3
        <5> HIDE DEF S, c
        <5>2. Holds(id \o <<c>> \o op, ":") <=> Holds(id, ":") \/ ":" = c \/ Holds(op, ":")
          BY <3>3, <5>1, JoinedTextHolds
        <5> QED
          BY <5>2 DEF c
      <4>2. ~Holds(op, ":")
        BY <3>1, OperationWords
      <4> QED
        BY <4>1, <4>2
    <3>8. t = e \o y /\ ~Holds(y, ":") <=> a = <<r>> /\ b = y
      <4>1. y \in Seq(Words(r))
        BY <3>5
      <4> HIDE DEF y
      <4> QED
        BY <1>2, <4>1, NamedByColon
    <3> HIDE DEF y
    <3>9. t = <<r, ":">> \o id \o <<".">> \o op /\ ~Holds(id, ":") <=> a = <<r>> /\ b = y
      BY <3>6, <3>7, <3>8
    <3> QED
      BY <3>2, <3>9
  <2>10. b = id => Ends(b) = Ends(id) /\ isOp(b) = isOp(id)
    OBVIOUS
  <2> DEFINE Long == t = <<r, ":">> \o id \o <<".">> \o op
  <2>11. Names(t, r, op, id) <=>
           \/ a = <<r>> /\ b = <<"*">>
           \/ a = <<r>> /\ b = id /\ ~isOp(id) /\ ~(op # <<>> /\ Ends(id))
           \/ op # <<>> /\ Long /\ ~Holds(id, ":")
    BY <2>4, <2>5, <2>6, Zenon DEF Names
  <2>12. CASE op = <<>>
    <3>1. Term <=> a = <<r>> /\ (b = <<"*">> \/ (~isOp(b) /\ b = id))
      BY <2>3, <2>12
    <3>2. Names(t, r, op, id) <=> (a = <<r>> /\ b = <<"*">>) \/ (a = <<r>> /\ b = id /\ ~isOp(id))
      BY <2>11, <2>12
    <3> HIDE DEF Term
    <3> QED
      BY <3>1, <3>2
  <2>13. CASE op # <<>>
    <3>1. Long /\ ~Holds(id, ":") <=> a = <<r>> /\ b = y
      BY <2>9, <2>13
    <3>2. d.found /\ d.before = id /\ d.after = op <=> b = y
      BY <2>9, <2>13
    <3>3. isOp(op)
      BY <1>1, <2>13
    <3>4. Names(t, r, op, id) <=>
           \/ a = <<r>> /\ b = <<"*">>
           \/ a = <<r>> /\ b = id /\ ~isOp(id) /\ ~Ends(id)
           \/ a = <<r>> /\ b = y
      BY <2>11, <2>13, <3>1
    <3>5. Term <=> /\ a = <<r>>
                   /\ \/ b = <<"*">>
                      \/ ~isOp(b) /\ (IF Ends(b) THEN d.before = id /\ d.after = op ELSE b = id)
      BY <2>3, <2>7, <2>13
    <3>6. b = y => Ends(b) /\ ~isOp(b) /\ d.before = id /\ d.after = op
      BY <2>7, <2>8, <3>2, <3>3
    <3>7. Ends(b) /\ d.before = id /\ d.after = op => b = y
      BY <2>7, <3>2
    <3> HIDE DEF Term, d, y
    <3> QED
      BY <2>10, <3>4, <3>5, <3>6, <3>7, Zenon
  <2> QED
    BY <2>12, <2>13
<1>3. ASSUME ~Holds(t, ":") PROVE Names(t, r, op, id) <=> t = <<r>>
  <2>1. t # <<r, ":", "*">>
    BY <1>3, ShortTexts
  <2>2. t # <<r, ":">> \o id
    <3>1. id \in Seq(Words(r))
      BY TextsOfWords
    <3> QED
      BY <1>3, <3>1, NamedWithColon
  <2>3. ASSUME op # <<>>, t = <<r, ":">> \o id \o <<".">> \o op PROVE FALSE
    <3>1. isOp(op)
      BY <1>1, <2>3
    <3> DEFINE S == Words(r)
               c == "."
               e == <<r, ":">> \o id
    <3>2. op \in Seq(S) /\ c \in S /\ id \in Seq(S)
      BY <3>1, TextsOfWords
    <3>3. Holds(e, ":")
      BY <3>2, NamedWithColon
    <3>4. e \in Seq(S)
      <4>1. <<r, ":">> = <<r>> \o <<":">>
        BY TwoWords
      <4>2. <<r, ":">> \in Seq(S)
        BY <4>1, TextsOfWords, ConcatProperties
      <4> QED
        BY <3>2, <4>2, ConcatProperties
    <3> HIDE DEF S, c, e
    <3>5. Holds(e \o <<c>> \o op, ":")
      BY <3>2, <3>3, <3>4, JoinedTextHolds
    <3> QED
      BY <1>3, <2>3, <3>5 DEF e, c
  <2> QED
    BY <2>1, <2>2, <2>3, Zenon DEF Names
<1>4. ASSUME NEW a, NEW b, ByDot(t, a, b) PROVE Term <=> Names(t, r, op, id)
  <2>1. cut = [before |-> a, after |-> b, found |-> TRUE] /\ ~Holds(t, ":") /\ Holds(t, ".") /\ isOp(b)
    BY <1>4 DEF ByDot
  <2>2. t # <<r>>
    BY <2>1, ShortTexts
  <2>3. b # <<"*">>
    BY <2>1, OperationWords
  <2>4. cut.found /\ cut.after = b
    BY <2>1
  <2>5. ~Term
    BY <2>1, <2>3, <2>4
  <2> QED
    BY <1>3, <2>1, <2>2, <2>5
<1>5. ASSUME Whole(t) PROVE Term <=> Names(t, r, op, id)
  <2>1. cut = [before |-> t, after |-> <<>>, found |-> FALSE] /\ ~Holds(t, ":")
    BY <1>5 DEF Whole
  <2>2. cut.before = t /\ ~cut.found
    BY <2>1
  <2>3. Term <=> t = <<r>>
    BY <2>2
  <2> QED
    BY <1>3, <2>1, <2>3
<1> HIDE DEF Term
<1>6. Term <=> Names(t, r, op, id)
  BY <1>2, <1>4, <1>5, TokenIsOneOf
<1>7. Term <=> GrantsInstance(t, want, id)
  BY <1>6, AskedInstances
<1> QED
  BY <1>7 DEF Term, TokenNames

\* The tokens that the operation gate looks for.
TokenGrants(t, r, op) ==
  LET cut == splitToken(t)
  IN  cut.before = <<r>> /\ (~cut.found \/ op = <<>> \/ cut.after = op)

\* What a token for operations grants is what the table says.
LEMMA OperationGranted ==
  ASSUME NEW t \in Seq(STRING), NEW r, r \notin {":", "."}, NEW sep, NEW op, NEW want,
         Wants(want, r, sep, op)
  PROVE  TokenGrants(t, r, op) <=> GrantsOperation(t, want)
<1>1. CASE want = <<r>> /\ op = <<>>
  <2>1. splitToken(t).before = <<r>> <=> GrantsOperation(t, <<r>>)
    BY AnyOperationGranted
  <2> QED
    BY <1>1, <2>1 DEF TokenGrants
<1>2. ASSUME NEW o \in Operations, want = <<r, sep, o>>, op = <<o>>
      PROVE  TokenGrants(t, r, op) <=> GrantsOperation(t, want)
  <2> DEFINE cut == splitToken(t)
  <2>1. cut.before = <<r>> /\ (~cut.found \/ cut.after = <<o>>) <=> GrantsOperation(t, <<r, sep, o>>)
    BY OneOperationGranted
  <2>2. op # <<>>
    BY <1>2
  <2> HIDE DEF cut
  <2>3. cut.before = <<r>> /\ (~cut.found \/ op = <<>> \/ cut.after = op) <=> GrantsOperation(t, want)
    BY <1>2, <2>1, <2>2
  <2> QED
    BY <2>3 DEF cut, TokenGrants
<1> QED
  BY <1>1, <1>2 DEF Wants

\* A resource of one word is a text of that word.
LEMMA OneWord ==
  ASSUME NEW a \in Seq(STRING), Word(a)
  PROVE  \E r : a = <<r>> /\ r \notin {":", "."}
<1>1. Len(a) = 1 /\ a[1] \notin {":", "."}
  BY DEF Word
<1>2. a = <<a[1]>>
  BY <1>1
<1> QED
  BY <1>1, <1>2

\* The values of an operation gate that are on one resource.
LEMMA AsksOperation ==
  ASSUME NEW v \in Seq(STRING), v \notin Everything, Parses(v), Word(splitToken(v).before)
  PROVE  \E r, sep, op :
           /\ r \notin {":", "."} /\ Wants(v, r, sep, op)
           /\ splitToken(v).before = <<r>> /\ splitToken(v).after = op
<1>1. splitToken(v).found => isOp(splitToken(v).after)
  BY DEF Parses
<1>2. ASSUME NEW a, NEW b, ByColon(v, a, b)
      PROVE  \E r, sep, op :
               /\ r \notin {":", "."} /\ Wants(v, r, sep, op)
               /\ splitToken(v).before = <<r>> /\ splitToken(v).after = op
  <2>1. splitToken(v) = [before |-> a, after |-> b, found |-> TRUE] /\ a \in Seq(STRING)
    BY <1>2 DEF ByColon
  <2>2. splitToken(v).before = a /\ splitToken(v).after = b /\ isOp(b)
    BY <1>1, <2>1
  <2>3. PICK r : a = <<r>> /\ r \notin {":", "."}
    BY <2>1, <2>2, OneWord
  <2>4. PICK o \in Operations : b = <<o>>
    BY <2>2, OperationWords
  <2>5. v = <<r, ":", o>>
    <3>1. ~Holds(<<o>>, ":")
      BY OperationWords
    <3> QED
      BY <1>2, <2>3, <2>4, <3>1, PartsByColon
  <2> QED
    BY <2>2, <2>3, <2>4, <2>5 DEF Wants
<1>3. ASSUME NEW a, NEW b, ByDot(v, a, b)
      PROVE  \E r, sep, op :
               /\ r \notin {":", "."} /\ Wants(v, r, sep, op)
               /\ splitToken(v).before = <<r>> /\ splitToken(v).after = op
  <2>1. splitToken(v) = [before |-> a, after |-> b, found |-> TRUE] /\ a \in Seq(STRING)
    BY <1>3 DEF ByDot
  <2>2. splitToken(v).before = a /\ splitToken(v).after = b /\ isOp(b)
    BY <1>1, <2>1
  <2>3. PICK r : a = <<r>> /\ r \notin {":", "."}
    BY <2>1, <2>2, OneWord
  <2>4. PICK o \in Operations : b = <<o>>
    BY <2>2, OperationWords
  <2>5. v = <<r, ".", o>>
    BY <1>3, <2>3, <2>4, PartsByDot
  <2> QED
    BY <2>2, <2>3, <2>4, <2>5 DEF Wants
<1>4. ASSUME Whole(v)
      PROVE  \E r, sep, op :
               /\ r \notin {":", "."} /\ Wants(v, r, sep, op)
               /\ splitToken(v).before = <<r>> /\ splitToken(v).after = op
  <2>1. splitToken(v).before = v /\ splitToken(v).after = <<>>
    BY <1>4 DEF Whole
  <2>2. PICK r : v = <<r>> /\ r \notin {":", "."}
    BY <2>1, OneWord
  <2> QED
    BY <2>1, <2>2 DEF Wants
<1> QED
  BY <1>2, <1>3, <1>4, TokenIsOneOf

\* The values of an instance gate.
LEMMA AsksInstance ==
  ASSUME NEW v \in Seq(STRING), ParsesResourceValue(v), Word(cutLast(v, ":").before)
  PROVE  \E r, op :
           /\ r \notin {":", "."} /\ Wants(v, r, ":", op)
           /\ cutLast(v, ":").before = <<r>> /\ cutLast(v, ":").after = op
<1>1. CASE ~Holds(v, ":")
  <2>1. cutLast(v, ":").before = v /\ cutLast(v, ":").after = <<>>
    BY <1>1, CutNowhere
  <2>2. PICK r : v = <<r>> /\ r \notin {":", "."}
    BY <2>1, OneWord
  <2> QED
    BY <2>1, <2>2 DEF Wants
<1>2. CASE Holds(v, ":")
  <2>1. PICK a, b \in Seq(STRING) : v = a \o <<":">> \o b /\ ~Holds(b, ":")
    BY <1>2, CutSomewhere
  <2>2. ":" \in STRING
    BY <1>2 DEF Holds
  <2>3. cutLast(v, ":") = [before |-> a, after |-> b, found |-> TRUE]
    BY <2>1, <2>2, CutJoined
  <2>4. cutLast(v, ":").before = a /\ cutLast(v, ":").after = b /\ isOp(b)
    BY <2>3 DEF ParsesResourceValue
  <2>5. PICK r : a = <<r>> /\ r \notin {":", "."}
    BY <2>1, <2>4, OneWord
  <2>6. PICK o \in Operations : b = <<o>>
    BY <2>4, OperationWords
  <2>7. v = <<r, ":", o>>
    BY <2>1, <2>5, <2>6, ShortTexts
  <2> QED
    BY <2>4, <2>5, <2>6, <2>7 DEF Wants
<1> QED
  BY <1>1, <1>2

\* What the gates find in the scopes of a principal.
Wild(gate, scopes) == ~gate.disallowWildcard /\ scopes \cap Everything # {}

\* The scopes grant this value.
GrantsValue(gate, scopes, want) ==
  \/ Wild(gate, scopes)
  \/ want \notin Everything /\ \E t \in scopes \ Everything : GrantsOperation(t, want)

\* The operation gate finds a value among the scopes exactly if one grants it.
LEMMA WantedIsGranted ==
  ASSUME NEW gate, NEW scopes \in SUBSET Seq(STRING), NEW v \in Seq(STRING), Parses(v),
         v \in Everything \/ Word(splitToken(v).before)
  PROVE  Wanted(gate, scopes, v) <=> GrantsValue(gate, scopes, v)
<1>1. CASE v \in Everything
  BY <1>1, Zenon DEF Wanted, GrantsValue, Wild, hasWildcard
<1>2. CASE v \notin Everything
  <2>1. PICK r, sep, op :
           /\ r \notin {":", "."} /\ Wants(v, r, sep, op)
           /\ splitToken(v).before = <<r>> /\ splitToken(v).after = op
    BY <1>2, AsksOperation
  <2>2. \A t \in scopes \ Everything : TokenGrants(t, r, op) <=> GrantsOperation(t, v)
    BY <2>1, OperationGranted
  <2>3. Wanted(gate, scopes, v) <=> satisfies(scopes, <<r>>, op, ~gate.disallowWildcard)
    BY <1>2, <2>1 DEF Wanted
  <2>4. satisfies(scopes, <<r>>, op, ~gate.disallowWildcard) <=>
          Wild(gate, scopes) \/ \E t \in scopes \ Everything : TokenGrants(t, r, op)
    BY Zenon DEF satisfies, hasWildcard, Wild, TokenGrants
  <2>5. Wanted(gate, scopes, v) <=>
          Wild(gate, scopes) \/ \E t \in scopes \ Everything : GrantsOperation(t, v)
    BY <2>2, <2>3, <2>4, Zenon
  <2> QED
    BY <1>2, <2>5, Zenon DEF GrantsValue
<1> QED
  BY <1>1, <1>2

\* The instance gate finds an instance among the scopes exactly if one grants it.
LEMMA InstanceIsGranted ==
  ASSUME NEW gate, NEW scopes \in SUBSET Seq(STRING), NEW v \in Seq(STRING),
         ParsesResourceValue(v), Word(cutLast(v, ":").before), NEW id \in Seq(STRING)
  PROVE  LET cut == cutLast(v, ":")
         IN  GrantsInstanceFor(scopes, cut.before, id, cut.after, ~gate.disallowWildcard)
               <=> \/ Wild(gate, scopes)
                   \/ \E t \in scopes \ Everything : GrantsInstance(t, v, id)
<1>1. PICK r, op :
        /\ r \notin {":", "."} /\ Wants(v, r, ":", op)
        /\ cutLast(v, ":").before = <<r>> /\ cutLast(v, ":").after = op
  BY AsksInstance
<1>2. \A t \in scopes \ Everything : TokenNames(t, r, op, id) <=> GrantsInstance(t, v, id)
  <2> TAKE t \in scopes \ Everything
  <2>1. t \in Seq(STRING)
    OBVIOUS
  <2> DEFINE sep == ":"
  <2>2. Wants(v, r, sep, op)
    BY <1>1
  <2> HIDE DEF sep
  <2> QED
    BY <1>1, <2>1, <2>2, InstanceGranted
<1>3. GrantsInstanceFor(scopes, <<r>>, id, op, ~gate.disallowWildcard) <=>
        Wild(gate, scopes) \/ \E t \in scopes \ Everything : TokenNames(t, r, op, id)
  BY Zenon DEF GrantsInstanceFor, hasWildcard, Wild, TokenNames
<1>4. GrantsInstanceFor(scopes, <<r>>, id, op, ~gate.disallowWildcard) <=>
        Wild(gate, scopes) \/ \E t \in scopes \ Everything : GrantsInstance(t, v, id)
  BY <1>2, <1>3, Zenon
<1> QED
  BY <1>1, <1>4

(***************************************************************************)
(* Requirements                                                            *)
(***************************************************************************)

\* The Min of a set of naturals is one of them.
LEMMA LeastIsMin ==
  ASSUME NEW S \in SUBSET Nat, S # {}
  PROVE  Min(S) \in S
<1>1. \E k \in S : \A i \in S : k <= i
  BY LeastExists
<1> QED
  BY <1>1 DEF Min

\* The scopes grant all, or any, of the values of a requirement.
GrantsValues(gate, scopes, r) ==
  IF r.match = "all" THEN \A i \in DOMAIN r.values : GrantsValue(gate, scopes, r.values[i])
  ELSE \E i \in DOMAIN r.values : GrantsValue(gate, scopes, r.values[i])

\* The operation gate matches what is granted, and misses the rest.
LEMMA ScopeAnswers ==
  ASSUME NEW gate, NEW scopes \in SUBSET Seq(STRING), NEW r, r.values \in Seq(Seq(STRING)),
         \A i \in DOMAIN r.values :
           /\ Parses(r.values[i])
           /\ r.values[i] \in Everything \/ Word(splitToken(r.values[i]).before)
  PROVE  /\ GrantsValues(gate, scopes, r) => ScopeEvaluate(gate, scopes, r) = "match"
         /\ ~GrantsValues(gate, scopes, r) => ScopeEvaluate(gate, scopes, r) = "miss"
<1> DEFINE Granting(i) == GrantsValue(gate, scopes, r.values[i])
           settles(i) == \/ ~Parses(r.values[i])
                         \/ Wanted(gate, scopes, r.values[i]) = (r.match # "all")
           at == {i \in DOMAIN r.values : settles(i)}
<1>1. ASSUME NEW i \in DOMAIN r.values
      PROVE  settles(i) <=> (Granting(i) <=> r.match # "all")
  <2>1. r.values[i] \in Seq(STRING)
    BY ElementOfSeq, LenProperties
  <2>2. Wanted(gate, scopes, r.values[i]) <=> Granting(i)
    BY <2>1, WantedIsGranted
  <2>3. Wanted(gate, scopes, r.values[i]) \in BOOLEAN
    BY DEF Wanted, satisfies, hasWildcard
  <2>4. Wanted(gate, scopes, r.values[i]) = (r.match # "all")
          <=> (Wanted(gate, scopes, r.values[i]) <=> r.match # "all")
    BY <2>3
  <2> HIDE DEF Granting
  <2> QED
    BY <2>2, <2>4
<1> DEFINE given == IF at = {} THEN (IF r.match = "all" THEN "match" ELSE "miss")
                     ELSE IF ~Parses(r.values[Min(at)]) THEN "error"
                     ELSE IF r.match = "all" THEN "miss" ELSE "match"
<1>2. ScopeEvaluate(gate, scopes, r) = given
  BY DEF ScopeEvaluate
<1> HIDE DEF settles
<1>3. at # {} => Parses(r.values[Min(at)])
  <2>1. at \in SUBSET Nat
    BY LenProperties
  <2> QED
    BY <2>1, LeastIsMin
<1>4. given = IF at = {} THEN (IF r.match = "all" THEN "match" ELSE "miss")
               ELSE IF r.match = "all" THEN "miss" ELSE "match"
  BY <1>3
<1>5. at = {} <=> \A i \in DOMAIN r.values : ~settles(i)
  OBVIOUS
<1> HIDE DEF given, at, Granting
<1>6. CASE r.match = "all"
  <2>1. at = {} <=> \A i \in DOMAIN r.values : Granting(i)
    BY <1>1, <1>5, <1>6
  <2>2. GrantsValues(gate, scopes, r) <=> at = {}
    BY <1>6, <2>1 DEF GrantsValues, Granting
  <2> QED
    BY <1>2, <1>4, <1>6, <2>2
<1>7. CASE r.match # "all"
  <2>1. at = {} <=> \A i \in DOMAIN r.values : ~Granting(i)
    BY <1>1, <1>5, <1>7
  <2>2. GrantsValues(gate, scopes, r) <=> at # {}
    BY <1>7, <2>1 DEF GrantsValues, Granting
  <2> QED
    BY <1>2, <1>4, <1>7, <2>2
<1> QED
  BY <1>6, <1>7

\* What the table grants a requirement, gate and client as they are.
LEMMA GrantedMeans ==
  ASSUME NEW scopes, NEW r
  PROVE  /\ r.kind = "scope" => (Granted(scopes, r) <=> GrantsValues(conf.gate, scopes, r))
         /\ r.kind = "resource" =>
              (Granted(scopes, r) <=>
                 /\ client.id # <<>>
                 /\ \/ Wild(conf.gate, scopes)
                    \/ \E t \in scopes \ Everything : GrantsInstance(t, r.values[1], client.id))
         /\ r.kind \notin {"scope", "resource"} => Granted(scopes, r)
<1> DEFINE wild == ~conf.gate.disallowWildcard /\ scopes \cap Everything # {}
           granted(want) == \/ wild
                            \/ /\ want \notin Everything
                               /\ \E t \in scopes \ Everything : GrantsOperation(t, want)
<1>1. \A want : granted(want) <=> GrantsValue(conf.gate, scopes, want)
  BY Zenon DEF GrantsValue, Wild
<1>2. Granted(scopes, r) <=>
        CASE r.kind = "scope" /\ r.match = "all" -> \A want \in Range(r.values) : granted(want)
          [] r.kind = "scope" /\ r.match # "all" -> \E want \in Range(r.values) : granted(want)
          [] r.kind = "resource" ->
               /\ client.id # <<>>
               /\ wild \/ \E t \in scopes \ Everything : GrantsInstance(t, r.values[1], client.id)
          [] OTHER -> TRUE
  BY DEF Granted
<1>3. wild <=> Wild(conf.gate, scopes)
  BY DEF Wild
<1> HIDE DEF wild, granted
<1>4. CASE r.kind = "scope"
  <2>1. r.match = "all" => (Granted(scopes, r) <=> \A want \in Range(r.values) : granted(want))
    BY <1>2, <1>4
  <2>2. r.match # "all" => (Granted(scopes, r) <=> \E want \in Range(r.values) : granted(want))
    BY <1>2, <1>4
  <2> QED
    BY <1>1, <1>4, <2>1, <2>2 DEF GrantsValues, Range
<1>5. CASE r.kind = "resource"
  BY <1>2, <1>3, <1>5
<1>6. CASE r.kind \notin {"scope", "resource"}
  BY <1>2, <1>6
<1> QED
  BY <1>4, <1>5, <1>6

\* What evaluating a requirement answers is what the table says of it.
LEMMA JudgedIsGranted ==
  ASSUME PageInv, NEW f, NEW r \in requirementsOf(conf.policy),
         Caller(f) # Nobody, Caller(f).scopes \in SUBSET Seq(STRING)
  PROVE  /\ Judged(f, r) = "match" <=> Granted(Caller(f).scopes, r)
         /\ Judged(f, r) \in {"match", "miss", "error"}
         /\ client.id # <<>> => Judged(f, r) \in {"match", "miss"}
<1>1. PICK x \in Case : Accepts(x.conf) /\ conf = x.conf /\ client = x.client
  BY DEF PageInv
<1>2. KindAccepts(conf, r)
  BY <1>1 DEF Accepts
<1> DEFINE S == Caller(f).scopes
<1>3. CASE r.kind = "scope"
  <2>1. Judged(f, r) = ScopeEvaluate(conf.gate, S, r)
    BY <1>3 DEF Judged
  <2>2. /\ r.values \in Seq(Seq(STRING))
        /\ \A v \in Range(r.values) : v \in Everything \/ Word(splitToken(v).before)
    BY <1>1, <1>3, CaseAssumption
  <2>3. ScopeValid(conf.gate, Vocabulary, r)
    BY <1>2, <1>3 DEF KindAccepts
  <2>4. \A v \in Range(r.values) : Parses(v)
    BY <2>3 DEF ScopeValid, Parses
  <2>5. \A i \in DOMAIN r.values :
          /\ Parses(r.values[i])
          /\ r.values[i] \in Everything \/ Word(splitToken(r.values[i]).before)
    BY <2>2, <2>4 DEF Range
  <2>6. /\ GrantsValues(conf.gate, S, r) => ScopeEvaluate(conf.gate, S, r) = "match"
        /\ ~GrantsValues(conf.gate, S, r) => ScopeEvaluate(conf.gate, S, r) = "miss"
    BY <2>2, <2>5, ScopeAnswers
  <2>7. Granted(S, r) <=> GrantsValues(conf.gate, S, r)
    BY <1>3, GrantedMeans
  <2> HIDE DEF S
  <2>8. Judged(f, r) \in {"match", "miss"} /\ (Judged(f, r) = "match" <=> Granted(S, r))
    BY <2>1, <2>6, <2>7
  <2> QED
    BY <2>8 DEF S
<1>4. CASE r.kind = "resource"
  <2>1. Judged(f, r) = ResourceEvaluate(conf.gate, S, r, client.id)
    BY <1>4 DEF Judged
  <2>2. ResourceValid(conf.gate, Vocabulary, r)
    BY <1>2, <1>4 DEF KindAccepts
  <2> DEFINE v == r.values[1]
             cut == cutLast(v, ":")
             grants == GrantsInstanceFor(S, cut.before, client.id, cut.after, ~conf.gate.disallowWildcard)
  <2>3. r.values \in Seq(Seq(STRING)) /\ Len(r.values) = 1 /\ Word(cut.before) /\ ParsesResourceValue(v)
    BY <1>1, <1>4, <2>2, CaseAssumption DEF ResourceValid
  <2>4. v \in Seq(STRING)
    BY <2>3, ElementOfSeq
  <2>5. client.id \in Seq(STRING)
    BY <1>1, FrontAssumption
  <2>6. ResourceEvaluate(conf.gate, S, r, client.id)
          = IF client.id = <<>> THEN "error" ELSE IF grants THEN "match" ELSE "miss"
    BY <2>3 DEF ResourceEvaluate
  <2>7. grants <=> \/ Wild(conf.gate, S)
                   \/ \E t \in S \ Everything : GrantsInstance(t, v, client.id)
    <3> HIDE DEF v
    <3> QED
      BY <2>3, <2>4, <2>5, InstanceIsGranted
  <2>8. Granted(S, r) <=> client.id # <<>> /\ grants
    BY <1>4, <2>7, GrantedMeans
  <2> HIDE DEF S, grants
  <2>9. /\ Judged(f, r) = "match" <=> Granted(S, r)
        /\ Judged(f, r) \in {"match", "miss", "error"}
        /\ client.id # <<>> => Judged(f, r) \in {"match", "miss"}
    BY <2>1, <2>6, <2>8
  <2> QED
    BY <1>4, <2>9 DEF S
<1>5. CASE r.kind \notin {"scope", "resource"}
  BY <1>5, GrantedMeans DEF Judged
<1> QED
  BY <1>3, <1>4, <1>5

\* Of requirements in turn the first that does not answer skip.
FirstOtherAt(reqs, ev, skip, i) ==
  /\ i \in DOMAIN reqs /\ ev[reqs[i]] # skip
  /\ \A j \in 1 .. (i - 1) : j \in DOMAIN reqs /\ ev[reqs[j]] = skip

\* If a requirement was not skipped then there is a first such one.
LEMMA FirstOther ==
  ASSUME NEW T, NEW reqs \in Seq(T), NEW ev, NEW skip, NEW k \in DOMAIN reqs, ev[reqs[k]] # skip
  PROVE  \E i : FirstOtherAt(reqs, ev, skip, i)
<1> DEFINE others == {i \in DOMAIN reqs : ev[reqs[i]] # skip}
<1>1. DOMAIN reqs = 1 .. Len(reqs) /\ Len(reqs) \in Nat
  BY LenProperties
<1>2. others \in SUBSET Nat /\ others # {}
  BY <1>1
<1>3. PICK m \in others : \A i \in others : m <= i
  BY <1>2, LeastExists
<1>4. ASSUME NEW j \in 1 .. (m - 1) PROVE j \in DOMAIN reqs /\ ev[reqs[j]] = skip
  <2>1. m \in 1 .. Len(reqs)
    BY <1>1, <1>3
  <2>2. j \in 1 .. Len(reqs) /\ ~(m <= j)
    BY <1>1, <2>1
  <2> QED
    BY <1>1, <1>3, <2>2
<1> QED
  BY <1>3, <1>4 DEF FirstOtherAt

\* Where a requirement answers one of two, a first that answers the second.
LEMMA FirstOfTwoAnswers ==
  ASSUME NEW T, NEW reqs \in Seq(T), NEW ev, NEW skip, NEW v, v # skip,
         \A i \in DOMAIN reqs : ev[reqs[i]] \in {skip, v}
  PROVE  FirstIs(reqs, ev, skip, v) <=> \E i \in DOMAIN reqs : ev[reqs[i]] # skip
<1>1. FirstIs(reqs, ev, skip, v) => \E i \in DOMAIN reqs : ev[reqs[i]] # skip
  BY DEF FirstIs
<1>2. ASSUME \E i \in DOMAIN reqs : ev[reqs[i]] # skip PROVE FirstIs(reqs, ev, skip, v)
  <2>1. PICK k \in DOMAIN reqs : ev[reqs[k]] # skip
    BY <1>2
  <2>2. PICK i : FirstOtherAt(reqs, ev, skip, i)
    BY <2>1, FirstOther
  <2> QED
    BY <2>2 DEF FirstIs, FirstOtherAt
<1> QED
  BY <1>1, <1>2

\* The policy is met where the requirements of G are granted.
MetBy(p, G) ==
  /\ \A r \in Range(p.require) : r \in G
  /\ \A r \in Range(p.forbid) : r \notin G
  /\ p.anyOf # <<>> => \E g \in Range(p.anyOf) : \A r \in Range(g) : r \in G

\* The decision on a principal is whether the policy is met.
LEMMA AllowedIsMet ==
  ASSUME NEW p \in Policies, ~Misconfigured(p), ~p.anonymous, NEW ev, NEW G,
         \A r \in requirementsOf(p) :
           (ev[r] = "match" <=> r \in G) /\ ev[r] \in {"match", "miss", "error"},
         \A r \in Range(p.forbid) \cup UNION {Range(g) : g \in Range(p.anyOf)} :
           ev[r] \in {"match", "miss"}
  PROVE  decidePolicy(p, TRUE, ev) = "allow" <=> MetBy(p, G)
<1> DEFINE Groups == UNION {Range(g) : g \in Range(p.anyOf)}
<1>1. p.require \in Seq(Req) /\ p.forbid \in Seq(Req) /\ p.anyOf \in Seq(Seq(Req))
  BY DEF Policies
<1>2. /\ Range(p.require) \subseteq requirementsOf(p) /\ Range(p.forbid) \subseteq requirementsOf(p)
      /\ \A g \in Range(p.anyOf) : Range(g) \subseteq Groups /\ Range(g) \subseteq requirementsOf(p)
  BY DEF requirementsOf
<1>3. ~FirstIs(p.forbid, ev, "miss", "error")
  <2>1. \A i \in DOMAIN p.forbid : ev[p.forbid[i]] # "error"
    BY DEF Range
  <2> QED
    BY <2>1 DEF FirstIs
<1>4. FirstIs(p.forbid, ev, "miss", "match") <=> \E r \in Range(p.forbid) : r \in G
  <2>1. \A i \in DOMAIN p.forbid : ev[p.forbid[i]] \in {"miss", "match"}
    BY DEF Range
  <2>2. FirstIs(p.forbid, ev, "miss", "match") <=> \E i \in DOMAIN p.forbid : ev[p.forbid[i]] # "miss"
    <3> DEFINE reqs == p.forbid
               skip == "miss"
               v    == "match"
    <3>1. reqs \in Seq(Req) /\ v # skip /\ \A i \in DOMAIN reqs : ev[reqs[i]] \in {skip, v}
      BY <1>1, <2>1
    <3> HIDE DEF reqs, skip, v
    <3>2. FirstIs(reqs, ev, skip, v) <=> \E i \in DOMAIN reqs : ev[reqs[i]] # skip
      BY <3>1, FirstOfTwoAnswers
    <3> QED
      BY <3>2 DEF reqs, skip, v
  <2>3. \A i \in DOMAIN p.forbid : ev[p.forbid[i]] # "miss" <=> p.forbid[i] \in G
    BY <1>2, <2>1 DEF Range
  <2> QED
    BY <2>2, <2>3 DEF Range
<1>5. FirstIs(p.require, ev, "match", "error") \/ FirstIs(p.require, ev, "match", "miss")
        <=> \E r \in Range(p.require) : r \notin G
  <2>1. \A i \in DOMAIN p.require : /\ ev[p.require[i]] = "match" <=> p.require[i] \in G
                                    /\ ev[p.require[i]] \in {"match", "miss", "error"}
    BY <1>2 DEF Range
  <2>2. ASSUME \E i \in DOMAIN p.require : ev[p.require[i]] # "match"
        PROVE  FirstIs(p.require, ev, "match", "error") \/ FirstIs(p.require, ev, "match", "miss")
    <3>1. PICK k \in DOMAIN p.require : ev[p.require[k]] # "match"
      BY <2>2
    <3> DEFINE reqs == p.require
               skip == "match"
    <3>2. reqs \in Seq(Req) /\ k \in DOMAIN reqs /\ ev[reqs[k]] # skip
      BY <1>1, <3>1
    <3> HIDE DEF reqs, skip
    <3>3. PICK i : FirstOtherAt(reqs, ev, skip, i)
      BY <3>2, FirstOther
    <3> QED
      BY <2>1, <3>3 DEF FirstIs, FirstOtherAt, reqs, skip
  <2>3. ASSUME FirstIs(p.require, ev, "match", "error") \/ FirstIs(p.require, ev, "match", "miss")
        PROVE  \E i \in DOMAIN p.require : ev[p.require[i]] # "match"
    BY <2>3 DEF FirstIs
  <2> QED
    BY <2>1, <2>2, <2>3 DEF Range
<1>6. ~AnyOfError(p.anyOf, ev)
  <2>1. ASSUME NEW i \in DOMAIN p.anyOf PROVE ~FirstIs(p.anyOf[i], ev, "match", "error")
    <3>1. \A j \in DOMAIN p.anyOf[i] : ev[p.anyOf[i][j]] # "error"
      BY DEF Range
    <3> QED
      BY <3>1 DEF FirstIs
  <2> QED
    BY <2>1 DEF AnyOfError
<1>7. AnyOfMatch(p.anyOf, ev) <=> \E g \in Range(p.anyOf) : \A r \in Range(g) : r \in G
  <2>1. ASSUME NEW i \in DOMAIN p.anyOf
        PROVE  /\ p.anyOf[i] \in Seq(Req)
               /\ MatchesAll(p.anyOf[i], ev) <=> \A r \in Range(p.anyOf[i]) : r \in G
               /\ ~MatchesAll(p.anyOf[i], ev) => FirstIs(p.anyOf[i], ev, "match", "miss")
    <3> DEFINE g == p.anyOf[i]
    <3>1. g \in Seq(Req) /\ g \in Range(p.anyOf)
      BY <1>1, ElementOfSeq, LenProperties DEF Range
    <3>2. \A j \in DOMAIN g : ev[g[j]] \in {"match", "miss"} /\ (ev[g[j]] = "match" <=> g[j] \in G)
      <4>1. \A j \in DOMAIN g : g[j] \in Groups /\ g[j] \in requirementsOf(p)
        BY <1>2, <3>1 DEF Range
      <4> QED
        BY <4>1
    <3> HIDE DEF g
    <3>3. MatchesAll(g, ev) <=> \A r \in Range(g) : r \in G
      BY <3>2 DEF MatchesAll, Range
    <3>4. FirstIs(g, ev, "match", "miss") <=> \E j \in DOMAIN g : ev[g[j]] # "match"
      BY <3>1, <3>2, FirstOfTwoAnswers
    <3>5. ~MatchesAll(g, ev) => FirstIs(g, ev, "match", "miss")
      BY <3>4 DEF MatchesAll
    <3> QED
      BY <3>1, <3>3, <3>5 DEF g
  <2>2. ASSUME NEW i \in DOMAIN p.anyOf, MatchesAll(p.anyOf[i], ev) PROVE AnyOfMatch(p.anyOf, ev)
    <3> DEFINE matching == {k \in DOMAIN p.anyOf : MatchesAll(p.anyOf[k], ev)}
    <3>1. DOMAIN p.anyOf = 1 .. Len(p.anyOf) /\ Len(p.anyOf) \in Nat
      BY <1>1, LenProperties
    <3>2. matching \in SUBSET Nat /\ matching # {}
      BY <2>2, <3>1
    <3>3. PICK k \in matching : \A m \in matching : k <= m
      BY <3>2, LeastExists
    <3>4. ASSUME NEW j \in 1 .. (k - 1) PROVE FirstIs(p.anyOf[j], ev, "match", "miss")
      <4>1. k \in 1 .. Len(p.anyOf)
        BY <3>1, <3>3
      <4>2. j \in 1 .. Len(p.anyOf) /\ ~(k <= j)
        BY <3>1, <4>1
      <4> QED
        BY <2>1, <3>1, <3>3, <4>2
    <3> QED
      BY <3>3, <3>4 DEF AnyOfMatch
  <2>3. AnyOfMatch(p.anyOf, ev) => \E i \in DOMAIN p.anyOf : MatchesAll(p.anyOf[i], ev)
    BY DEF AnyOfMatch
  <2> QED
    BY <2>1, <2>2, <2>3 DEF Range
<1> HIDE DEF Groups
<1> DEFINE A == FirstIs(p.forbid, ev, "miss", "match")
           B == FirstIs(p.require, ev, "match", "error")
           C == FirstIs(p.require, ev, "match", "miss")
           D == p.anyOf = <<>> \/ AnyOfMatch(p.anyOf, ev)
<1>8. decidePolicy(p, TRUE, ev) = IF A THEN "denied" ELSE IF B THEN "error" ELSE IF C THEN "denied"
                                  ELSE IF D THEN "allow" ELSE "denied"
  BY <1>3, <1>6 DEF decidePolicy
<1> HIDE DEF A, B, C, D
<1>9. decidePolicy(p, TRUE, ev) = "allow" <=> ~A /\ ~B /\ ~C /\ D
  BY <1>8
<1> QED
  BY <1>4, <1>5, <1>7, <1>9 DEF A, B, C, D, MetBy

\* A policy that asks for a principal is met, or the request is refused.
LEMMA DecisionIsMet ==
  ASSUME PageInv, NEW f, ~conf.policy.anonymous, Caller(f).scopes \in SUBSET Seq(STRING),
         client.id = <<>> => conf.policy.forbid = <<>> /\ conf.policy.anyOf = <<>>
  PROVE  Decision(f) = "allow" <=> Caller(f) # Nobody /\ Meets(Caller(f).scopes, conf.policy)
<1> DEFINE p == conf.policy
           S == Caller(f).scopes
           ev == [r \in requirementsOf(p) |-> Judged(f, r)]
           G == {r \in requirementsOf(p) : Granted(S, r)}
<1>1. p \in Policies /\ ~Misconfigured(p) /\ ~p.anonymous
  BY CaseAssumption DEF PageInv
<1>2. CASE Caller(f) = Nobody
  <2>1. Decision(f) = decidePolicy(p, FALSE, ev)
    BY <1>2 DEF Decision
  <2> HIDE DEF ev, p
  <2>2. decidePolicy(p, FALSE, ev) = "unauthenticated"
    BY <1>1 DEF decidePolicy
  <2> QED
    BY <1>2, <2>1, <2>2
<1>3. CASE Caller(f) # Nobody
  <2>1. Decision(f) = decidePolicy(p, TRUE, ev)
    BY <1>3 DEF Decision
  <2>2. ASSUME NEW r \in requirementsOf(p)
        PROVE  /\ ev[r] = "match" <=> r \in G
               /\ ev[r] \in {"match", "miss", "error"}
               /\ client.id # <<>> => ev[r] \in {"match", "miss"}
    <3>1. ev[r] = Judged(f, r)
      OBVIOUS
    <3> HIDE DEF ev
    <3> QED
      BY <1>3, <3>1, JudgedIsGranted
  <2>3. ASSUME NEW r \in Range(p.forbid) \cup UNION {Range(g) : g \in Range(p.anyOf)}
        PROVE  ev[r] \in {"match", "miss"}
    <3>1. r \in requirementsOf(p)
      BY DEF requirementsOf
    <3>2. client.id # <<>>
      <4>1. Range(<<>>) = {}
        BY DEF Range
      <4> QED
        BY <4>1
    <3> QED
      BY <2>2, <3>1, <3>2
  <2>4. \A r : r \in requirementsOf(p) => (r \in G <=> Granted(S, r))
    OBVIOUS
  <2> HIDE DEF ev, G, S
  <2>5. decidePolicy(p, TRUE, ev) = "allow" <=> MetBy(p, G)
    <3> HIDE DEF p
    <3>1. \A r \in requirementsOf(p) :
            (ev[r] = "match" <=> r \in G) /\ ev[r] \in {"match", "miss", "error"}
      BY <2>2
    <3>2. \A r \in Range(p.forbid) \cup UNION {Range(g) : g \in Range(p.anyOf)} :
            ev[r] \in {"match", "miss"}
      BY <2>3
    <3> QED
      BY <1>1, <3>1, <3>2, AllowedIsMet
  <2>6. /\ \A r \in Range(p.require) : r \in requirementsOf(p)
        /\ \A r \in Range(p.forbid) : r \in requirementsOf(p)
        /\ \A g \in Range(p.anyOf) : \A r \in Range(g) : r \in requirementsOf(p)
    BY DEF requirementsOf
  <2>7. Meets(S, p) <=> MetBy(p, G)
    BY <2>4, <2>6, Zenon DEF Meets, MetBy
  <2> QED
    BY <1>3, <2>1, <2>5, <2>7 DEF S
<1> QED
  BY <1>2, <1>3

(***************************************************************************)
(* Credentials                                                             *)
(***************************************************************************)

\* The first of three values that is not none, in their order.
LEMMA FirstInTurn ==
  ASSUME NEW none, NEW a, NEW b, NEW c
  PROVE  FirstBut(none, <<a, b, c>>) = IF a # none THEN a ELSE IF b # none THEN b ELSE c
<1> DEFINE values == <<a, b, c>>
           others == {i \in DOMAIN values : values[i] # none}
           least == CHOOSE i \in others : \A j \in others : i <= j
<1>1. DOMAIN values = {1, 2, 3} /\ values[1] = a /\ values[2] = b /\ values[3] = c
  OBVIOUS
<1>2. FirstBut(none, values) = IF others = {} THEN none ELSE values[least]
  BY DEF FirstBut
<1> HIDE DEF values
<1>3. \A k \in others : (\A j \in others : k <= j) => least = k
  <2> SUFFICES ASSUME NEW k \in others, \A j \in others : k <= j PROVE least = k
    OBVIOUS
  <2>1. least \in others /\ \A j \in others : least <= j
    OBVIOUS
  <2>2. least \in {1, 2, 3} /\ k \in {1, 2, 3} /\ least <= k /\ k <= least
    BY <1>1, <2>1
  <2> HIDE DEF least
  <2> QED
    BY <2>2
<1> HIDE DEF least
<1>4. CASE a # none
  <2>1. 1 \in others /\ \A j \in others : 1 <= j
    BY <1>1, <1>4
  <2> QED
    BY <1>1, <1>2, <1>3, <1>4, <2>1 DEF values
<1>5. CASE a = none /\ b # none
  <2>1. 2 \in others /\ \A j \in others : 2 <= j
    BY <1>1, <1>5
  <2> QED
    BY <1>1, <1>2, <1>3, <1>5, <2>1 DEF values
<1>6. CASE a = none /\ b = none /\ c # none
  <2>1. 3 \in others /\ \A j \in others : 3 <= j
    BY <1>1, <1>6
  <2> QED
    BY <1>1, <1>2, <1>3, <1>6, <2>1 DEF values
<1>7. CASE a = none /\ b = none /\ c = none
  <2>1. others = {}
    BY <1>1, <1>7
  <2> QED
    BY <1>2, <1>7, <2>1 DEF values
<1> QED
  BY <1>4, <1>5, <1>6, <1>7

\* The empty string.
Blank == ""

\* The tokens of Authorization values; of one value, its own.
LEMMA BearersFound ==
  ASSUME NEW values, IsSequence(values), NEW T, \A v \in Range(values) : v.token \in T \cup {Blank}
  PROVE  LET bearers == bearerTokens(values)
         IN  /\ Len(bearers) \in Nat /\ DOMAIN bearers = 1 .. Len(bearers)
             /\ bearers = <<>> <=> Len(bearers) = 0
             /\ Len(bearers) = 1 => bearers[1] \in T
<1> DEFINE bearer == {i \in DOMAIN values : /\ values[i].scheme \in {"Bearer", "bearer"}
                                            /\ values[i].token # Blank}
           nth(n) == CHOOSE i \in bearer : Cardinality({j \in bearer : j < i}) = n - 1
           N == Cardinality(bearer)
           S == {values[nth(n)].token : n \in 1 .. N}
           bearers == [n \in 1 .. N |-> values[nth(n)].token]
<1>1. bearerTokens(values) = bearers
  BY Zenon DEF bearerTokens, Blank
<1>2. IsFiniteSet(bearer) /\ N \in Nat
  <2>1. DOMAIN values = 1 .. Len(values) /\ Len(values) \in Nat
    BY LenProperties DEF IsSequence
  <2> DEFINE n == Len(values)
  <2>2. IsFiniteSet(1 .. n)
    <3>1. n \in Int /\ 1 \in Int
      BY <2>1
    <3> HIDE DEF n
    <3> QED
      BY <3>1, FS_Interval
  <2>3. bearer \in SUBSET (1 .. Len(values))
    BY <2>1
  <2>4. IsFiniteSet(bearer)
    BY <2>2, <2>3, FS_Subset
  <2> QED
    BY <2>4, FS_CardinalityType
<1>3. ASSUME N = 1 PROVE values[nth(1)].token \in T
  <2>1. PICK m : bearer = {m}
    BY <1>2, <1>3, FS_Singleton
  <2>2. m \in 1 .. Len(values)
    <3>1. m \in DOMAIN values
      BY <2>1
    <3>2. DOMAIN values = 1 .. Len(values)
      BY LenProperties DEF IsSequence
    <3> QED
      BY <3>1, <3>2
  <2>3. \A j \in bearer : ~(j < m)
    <3> HIDE DEF bearer
    <3>1. ~(m < m)
      BY <2>2
    <3> QED
      BY <2>1, <3>1
  <2>4. {j \in bearer : j < m} = {}
    BY <2>3, Zenon
  <2>5. Cardinality({j \in bearer : j < m}) = 1 - 1
    <3>1. Cardinality({}) = 0
      BY FS_EmptySet
    <3>2. Cardinality({j \in bearer : j < m}) = 0
      BY <2>4, <3>1, Zenon
    <3>3. 1 - 1 = 0
      OBVIOUS
    <3> QED
      BY <3>2, <3>3, Zenon
  <2>6. nth(1) \in bearer
    <3>1. m \in bearer
      BY <2>1
    <3> QED
      BY <2>5, <3>1, Zenon
  <2>7. nth(1) \in DOMAIN values /\ values[nth(1)].token # Blank
    BY <2>6
  <2> HIDE DEF nth
  <2>8. values[nth(1)] \in Range(values)
    BY <2>7 DEF Range
  <2> QED
    BY <2>7, <2>8
<1> HIDE DEF nth, N
<1>4. bearers \in [1 .. N -> S]
  OBVIOUS
<1> HIDE DEF S
<1>5. bearers \in Seq(S)
  BY <1>2, <1>4, SeqDef
<1>6. DOMAIN bearers = 1 .. N
  OBVIOUS
<1> HIDE DEF bearers
<1>7. Len(bearers) \in Nat /\ DOMAIN bearers = 1 .. Len(bearers)
  BY <1>5, LenProperties
<1>8. Len(bearers) = N
  BY <1>2, <1>6, <1>7
<1>9. bearers = <<>> <=> Len(bearers) = 0
  BY <1>5, EmptySeq
<1>10. ASSUME Len(bearers) = 1 PROVE bearers[1] \in T
  <2>1. N = 1
    BY <1>8, <1>10
  <2>2. bearers[1] = values[nth(1)].token
    BY <2>1 DEF bearers
  <2> QED
    BY <1>3, <2>1, <2>2
<1> QED
  BY <1>1, <1>7, <1>9, <1>10

\* The kinds of credentials there are.
Held(creds) == {k \in DOMAIN creds : creds[k] # <<>>}
Several(creds) == AuthKinds(creds) > 1

\* Several kinds of credentials are held exactly if they are not none and not one.
LEMMA KindsOfCredentials ==
  ASSUME NEW creds, DOMAIN creds = {"bearer", "apiKeys", "cookies", "tickets", "certs"}
  PROVE  /\ AuthKinds(creds) = 0 <=> Held(creds) = {}
         /\ Several(creds) <=> Held(creds) # {} /\ \A k : Held(creds) # {k}
<1> DEFINE held == {k \in DOMAIN creds : creds[k] # <<>>}
<1>1. IsFiniteSet({"bearer"} \cup {"apiKeys"} \cup {"cookies"} \cup {"tickets"} \cup {"certs"})
  BY FS_Singleton, FS_Union
<1>2. held \in SUBSET ({"bearer"} \cup {"apiKeys"} \cup {"cookies"} \cup {"tickets"} \cup {"certs"})
  OBVIOUS
<1>3. IsFiniteSet(held)
  BY <1>1, <1>2, FS_Subset
<1>4. AuthKinds(creds) = Cardinality(held)
  BY DEF AuthKinds
<1> HIDE DEF held
<1>5. Cardinality(held) \in Nat
  BY <1>3, FS_CardinalityType
<1>6. Cardinality(held) = 0 <=> held = {}
  BY <1>3, FS_EmptySet
<1>7. Cardinality(held) = 1 <=> \E k : held = {k}
  BY <1>3, FS_Singleton
<1>8. Cardinality(held) > 1 <=> Cardinality(held) # 0 /\ Cardinality(held) # 1
  BY <1>5
<1> QED
  BY <1>4, <1>6, <1>7, <1>8 DEF held, Held, Several

\* A token names no subject exactly if both of its claims are empty.
LEMMA SubjectIsNamed ==
  ASSUME NEW t
  PROVE  Subject(t) = Blank <=> <<t.sub, t.uid>> = <<Blank, Blank>>
<1>1. Subject(t) = FirstBut(Blank, <<t.sub, t.uid>>)
  BY Zenon DEF Subject, Blank
<1>2. Subject(t) = IF t.sub # Blank THEN t.sub ELSE t.uid
  BY <1>1, FirstOfTwo
<1> QED
  BY <1>2

\* A token that is good makes a principal with the scopes it states.
LEMMA TokenStands ==
  ASSUME NEW creds, creds.bearer # <<>>, creds.bearer[1] \in DOMAIN Token,
         NEW c, c.kind = "bearer", c.value = creds.bearer[1]
  PROVE  /\ Good(c) => AuthenticateJWT(creds) = Principal("user", States(c))
         /\ ~Good(c) => AuthenticateJWT(creds).code # "ok"
         /\ States(c) \in SUBSET Seq(STRING)
<1> DEFINE t == Token[creds.bearer[1]]
           says == IF t.scopes.type = "string" THEN {t.scopes.value}
                   ELSE IF t.scopes.type = "list" THEN t.scopes.value \ {<<"number">>} ELSE {}
<1>1. t.keys \in {"up", "down"} /\ t.scopes \in ScopeClaims
  <2>1. \A u \in DOMAIN Token : Token[u].keys \in {"up", "down"} /\ Token[u].scopes \in ScopeClaims
    BY CredentialAssumption, Zenon
  <2> QED
    BY <2>1
<1>2. States(c) = says
  BY DEF States
<1>3. Strings(t.scopes) = says
  BY DEF Strings
<1>4. says \in SUBSET Seq(STRING)
  BY <1>1 DEF ScopeClaims
<1>5. Good(c) <=> /\ t.signed /\ t.exp = "future" /\ t.keys = "up"
                  /\ Expected.issuer # Blank => t.iss = Expected.issuer
                  /\ Expected.audience # Blank => t.aud = Expected.audience
                  /\ <<t.sub, t.uid>> # <<Blank, Blank>>
  BY DEF Good, Blank
<1>6. Verify(t) <=> /\ t.signed /\ t.exp = "future"
                    /\ Expected.issuer # Blank => t.iss = Expected.issuer
                    /\ Expected.audience # Blank => t.aud = Expected.audience
  BY DEF Verify, Blank
<1>7. AuthenticateJWT(creds) =
        IF t.keys = "down" THEN Refused("unavailable")
        ELSE IF ~Verify(t) \/ Subject(t) = Blank THEN Refused("unauthenticated")
        ELSE Principal("user", Strings(t.scopes))
  BY DEF AuthenticateJWT, Blank
<1>8. Good(c) <=> t.keys # "down" /\ Verify(t) /\ Subject(t) # Blank
  <2>1. t.keys = "up" <=> t.keys # "down"
    BY <1>1
  <2> HIDE DEF t
  <2> QED
    BY <1>5, <1>6, <2>1, SubjectIsNamed
<1>9. Refused("unavailable").code # "ok" /\ Refused("unauthenticated").code # "ok"
  BY DEF Refused
<1> HIDE DEF t, says
<1>10. ~Good(c) => AuthenticateJWT(creds).code # "ok"
  BY <1>7, <1>8, <1>9
<1>11. Good(c) => AuthenticateJWT(creds) = Principal("user", says)
  BY <1>3, <1>7, <1>8
<1> QED
  BY <1>2, <1>4, <1>10, <1>11

\* A key that is good makes a principal with the scopes of its record.
LEMMA KeyStands ==
  ASSUME NEW creds, creds.apiKeys # <<>>, creds.apiKeys[1] \in DOMAIN Key,
         NEW c, c.kind = "key", c.value = creds.apiKeys[1]
  PROVE  /\ Good(c) => AuthenticateKey(creds) = Principal("api_key", States(c))
         /\ ~Good(c) => AuthenticateKey(creds) = Unknown \/ AuthenticateKey(creds).code # "ok"
         /\ States(c) \in SUBSET Seq(STRING)
<1> DEFINE raw == creds.apiKeys[1]
           k   == Key[raw]
<1>1. /\ raw # Blank /\ k.store \in {"up", "down", "missing"}
      /\ k.expires \in {"never", "future", "past"} /\ k.scopes \cup k.claim \subseteq Seq(STRING)
  <2>1. /\ Blank \notin DOMAIN Key
        /\ \A u \in DOMAIN Key : /\ Key[u].store \in {"up", "down", "missing"}
                                 /\ Key[u].expires \in {"never", "future", "past"}
                                 /\ Key[u].scopes \cup Key[u].claim \subseteq Seq(STRING)
    BY CredentialAssumption, Zenon DEF Blank
  <2> QED
    BY <2>1
<1>2. States(c) = IF k.scopes # {} THEN k.scopes ELSE k.claim
  BY DEF States
<1>3. KeyScopes(k) = IF k.scopes # {} THEN k.scopes ELSE k.claim
  BY DEF KeyScopes
<1>4. Good(c) <=> k.prefixed /\ k.store = "up" /\ ~k.revoked /\ k.expires # "past"
  BY DEF Good
<1>5. First(creds.apiKeys, "") = raw
  BY DEF First
<1>6. AuthenticateKey(creds) =
        IF raw = Blank \/ ~k.prefixed THEN Unknown
        ELSE IF k.store = "down" THEN Refused("unavailable")
        ELSE IF k.store = "missing" \/ ~Active(k) THEN Refused("unauthenticated")
        ELSE Principal("api_key", KeyScopes(k))
  BY <1>5 DEF AuthenticateKey, Blank
<1>7. Refused("unavailable").code # "ok" /\ Refused("unauthenticated").code # "ok"
  BY DEF Refused
<1>8. Active(k) <=> ~k.revoked /\ k.expires # "past"
  BY <1>1 DEF Active
<1> HIDE DEF raw, k
<1>9. ~Good(c) => AuthenticateKey(creds) = Unknown \/ AuthenticateKey(creds).code # "ok"
  BY <1>1, <1>4, <1>6, <1>7, <1>8
<1>10. Good(c) => AuthenticateKey(creds) = Principal("api_key", KeyScopes(k))
  BY <1>1, <1>4, <1>6, <1>8
<1> QED
  BY <1>1, <1>2, <1>3, <1>9, <1>10

\* A cookie of a live session makes a principal without scopes.
LEMMA SessionStands ==
  ASSUME NEW creds, NEW c, c.kind = "cookie", c.value = Cookie(creds, "session")
  PROVE  /\ Good(c) => AuthenticateSession(creds) = Principal("user", States(c))
         /\ ~Good(c) => AuthenticateSession(creds) = Unknown \/ AuthenticateSession(creds).code # "ok"
         /\ States(c) \in SUBSET Seq(STRING)
<1> DEFINE value == Cookie(creds, "session")
<1>1. Blank \notin Sessions
  BY CredentialAssumption, Zenon DEF Blank
<1>2. States(c) = {} /\ (Good(c) <=> value \in Sessions)
  BY DEF States, Good
<1>3. AuthenticateSession(creds) =
        IF value = Blank THEN Unknown
        ELSE IF value \in Sessions THEN Principal("user", {}) ELSE Refused("unauthenticated")
  BY DEF AuthenticateSession, Blank
<1>4. Refused("unauthenticated").code # "ok"
  BY DEF Refused
<1> HIDE DEF value
<1> QED
  BY <1>1, <1>2, <1>3, <1>4

\* What the chain makes of an authenticator's answer.
Settled(a) == IF a = Unknown THEN Refused("unauthenticated") ELSE a

\* An authenticator does not know what is not there.
LEMMA UnknownWithout ==
  ASSUME NEW creds
  PROVE  /\ creds.bearer = <<>> => AuthenticateJWT(creds) = Unknown
         /\ creds.apiKeys = <<>> => AuthenticateKey(creds) = Unknown
         /\ creds.cookies = <<>> => AuthenticateSession(creds) = Unknown
<1>1. creds.bearer = <<>> => AuthenticateJWT(creds) = Unknown
  BY DEF AuthenticateJWT
<1>2. creds.apiKeys = <<>> => AuthenticateKey(creds) = Unknown
  <2>1. creds.apiKeys = <<>> => First(creds.apiKeys, "") = ""
    BY Zenon DEF First
  <2> QED
    BY <2>1, Zenon DEF AuthenticateKey
<1>3. ASSUME creds.cookies = <<>> PROVE AuthenticateSession(creds) = Unknown
  <2> DEFINE values == [i \in DOMAIN creds.cookies |-> creds.cookies[i]["session"]]
             others == {i \in DOMAIN values : values[i] # Blank}
  <2>1. DOMAIN values = {}
    <3>1. DOMAIN <<>> = {}
      OBVIOUS
    <3> QED
      BY <1>3, <3>1
  <2>2. others = {}
    <3> HIDE DEF values
    <3> QED
      BY <2>1
  <2>3. FirstBut(Blank, values) = Blank
    <3> HIDE DEF values
    <3> QED
      BY <2>2 DEF FirstBut
  <2>4. Cookie(creds, "session") = Blank
    BY <2>3, Zenon DEF Cookie, Blank
  <2> QED
    BY <2>4, Zenon DEF AuthenticateSession, Blank
<1> QED
  BY <1>1, <1>2, <1>3

\* One credential of one kind is asked its authenticator; none is nobody's, and
\* several are refused, and so are a ticket, a certificate and what no
\* authenticator knows.
AskedForOne(creds, p) ==
  LET B == creds.bearer
      K == creds.apiKeys
      C == creds.cookies
      T == creds.tickets
      D == creds.certs
  IN  /\ T # <<>> \/ D # <<>> => p.code # "ok"
      /\ \/ B # <<>> /\ K # <<>>
         \/ B # <<>> /\ C # <<>>
         \/ K # <<>> /\ C # <<>>
         \/ B # <<>> /\ Len(B) > 1
         \/ K # <<>> /\ Len(K) > 1
         => p.code # "ok"
      /\ T = <<>> /\ D = <<>> =>
           /\ B = <<>> /\ K = <<>> /\ C = <<>> => p = Nobody
           /\ B # <<>> /\ K = <<>> /\ C = <<>> /\ ~(Len(B) > 1)
                => p = Settled(AuthenticateJWT(creds))
           /\ B = <<>> /\ K # <<>> /\ C = <<>> /\ ~(Len(K) > 1)
                => p = Settled(AuthenticateKey(creds))
           /\ B = <<>> /\ K = <<>> /\ C # <<>>
                => p = Settled(AuthenticateSession(creds))

\* That is how the interceptor answers to credentials of every kind.
LEMMA OneIsAsked ==
  ASSUME NEW B, NEW K, NEW C, NEW T, NEW D, NEW creds,
         creds = [bearer |-> B, apiKeys |-> K, cookies |-> C, tickets |-> T, certs |-> D]
  PROVE  AskedForOne(creds, authenticate(creds, FALSE))
<1> DEFINE a == AuthenticateJWT(creds)
           b == AuthenticateKey(creds)
           c == AuthenticateSession(creds)
           hasB == B # <<>>
           hasK == K # <<>>
           hasC == C # <<>>
           hasT == T # <<>>
           hasD == D # <<>>
           held == Held(creds)
<1>1. /\ DOMAIN creds = {"bearer", "apiKeys", "cookies", "tickets", "certs"}
      /\ creds.bearer = B /\ creds.apiKeys = K /\ creds.cookies = C /\ creds.tickets = T
      /\ creds.certs = D
  OBVIOUS
<1>2. /\ creds["bearer"] = B /\ creds["apiKeys"] = K /\ creds["cookies"] = C /\ creds["tickets"] = T
      /\ creds["certs"] = D
  BY <1>1
<1>3. /\ held \subseteq {"bearer", "apiKeys", "cookies", "tickets", "certs"}
      /\ "bearer" \in held <=> hasB
      /\ "apiKeys" \in held <=> hasK
      /\ "cookies" \in held <=> hasC
      /\ "tickets" \in held <=> hasT
      /\ "certs" \in held <=> hasD
  <2>1. \A k : k \in held <=>
          k \in {"bearer", "apiKeys", "cookies", "tickets", "certs"} /\ creds[k] # <<>>
    BY <1>1 DEF Held
  <2> HIDE DEF held, hasB, hasK, hasC, hasT, hasD
  <2>2. \A k \in held : k \in {"bearer", "apiKeys", "cookies", "tickets", "certs"}
    BY <2>1
  <2> QED
    BY <1>2, <2>1, <2>2 DEF hasB, hasK, hasC, hasT, hasD
<1>4. /\ AuthKinds(creds) = 0 <=> held = {}
      /\ Several(creds) <=> held # {} /\ \A k : held # {k}
  BY <1>1, KindsOfCredentials
<1>5. ChainAuthenticate(creds) = IF a # Unknown THEN a ELSE IF b # Unknown THEN b ELSE c
  BY FirstInTurn DEF ChainAuthenticate
<1>6. /\ ~hasB => a = Unknown
      /\ ~hasK => b = Unknown
      /\ ~hasC => c = Unknown
  BY <1>1, UnknownWithout
<1> DEFINE none == AuthKinds(creds) = 0
           more == Several(creds)
           x == ChainAuthenticate(creds)
<1>7. authenticate(creds, FALSE) = IF none THEN Nobody
                                   ELSE IF Repeated(creds) \/ more THEN Refused("unauthenticated")
                                   ELSE Settled(x)
  BY DEF authenticate, Settled, Several
<1>8. Repeated(creds) <=> Len(B) > 1 \/ Len(K) > 1 \/ Len(T) > 1
  BY <1>1, <1>2 DEF Repeated
<1> HIDE DEF held, hasB, hasK, hasC, hasT, hasD, none, more
<1>9. none <=> ~hasB /\ ~hasK /\ ~hasC /\ ~hasT /\ ~hasD
  BY <1>3, <1>4 DEF none
<1>10. /\ (hasB /\ hasK) \/ (hasB /\ hasC) \/ (hasK /\ hasC) => more
       /\ (hasB \/ hasK \/ hasC) /\ (hasT \/ hasD) => more
       /\ ~hasT /\ ~hasD => (more <=> (hasB /\ hasK) \/ (hasB /\ hasC) \/ (hasK /\ hasC))
  <2>1. more <=> held # {} /\ \A k : held # {k}
    BY <1>4 DEF more
  <2>2. hasB /\ ~hasK /\ ~hasC /\ ~hasT /\ ~hasD => held = {"bearer"}
    BY <1>3
  <2>3. ~hasB /\ hasK /\ ~hasC /\ ~hasT /\ ~hasD => held = {"apiKeys"}
    BY <1>3
  <2>4. ~hasB /\ ~hasK /\ hasC /\ ~hasT /\ ~hasD => held = {"cookies"}
    BY <1>3
  <2>5. ~hasB /\ ~hasK /\ ~hasC /\ ~hasT /\ ~hasD => held = {}
    BY <1>3
  <2>6. (hasB /\ hasK) \/ (hasB /\ hasC) \/ (hasK /\ hasC) => held # {} /\ \A k : held # {k}
    BY <1>3
  <2>7. (hasB \/ hasK \/ hasC) /\ (hasT \/ hasD) => held # {} /\ \A k : held # {k}
    BY <1>3
  <2> QED
    BY <2>1, <2>2, <2>3, <2>4, <2>5, <2>6, <2>7
<1> HIDE DEF a, b, c, x
<1>11. Refused("unauthenticated").code # "ok" /\ Settled(Unknown).code # "ok"
  BY DEF Refused, Settled
<1>12. ~(Len(<<>>) > 1)
  OBVIOUS
<1> DEFINE manyB == Len(B) > 1
           manyK == Len(K) > 1
           manyT == Len(T) > 1
<1>13. (~hasB => ~manyB) /\ (~hasK => ~manyK) /\ (~hasT => ~manyT)
  BY <1>12, Zenon DEF hasB, hasK, hasT
<1>14. Repeated(creds) <=> manyB \/ manyK \/ manyT
  BY <1>8
<1> HIDE DEF manyB, manyK, manyT
<1>15. x = IF a # Unknown THEN a ELSE IF b # Unknown THEN b ELSE c
  BY <1>5 DEF x
<1>16. ~hasT /\ ~hasD /\ ~hasB /\ ~hasK /\ ~hasC => authenticate(creds, FALSE) = Nobody
  BY <1>7, <1>9
<1>17. \/ (hasB /\ hasK) \/ (hasB /\ hasC) \/ (hasK /\ hasC)
       \/ hasB /\ manyB
       \/ hasK /\ manyK
       => authenticate(creds, FALSE) = Refused("unauthenticated")
  BY <1>7, <1>9, <1>10, <1>14
<1>18. ~hasT /\ ~hasD /\ hasB /\ ~hasK /\ ~hasC /\ ~manyB => authenticate(creds, FALSE) = Settled(a)
  <2>1. b = Unknown /\ c = Unknown => x = a
    BY <1>15
  <2> QED
    BY <1>6, <1>7, <1>9, <1>10, <1>13, <1>14, <2>1
<1>19. ~hasT /\ ~hasD /\ ~hasB /\ hasK /\ ~hasC /\ ~manyK => authenticate(creds, FALSE) = Settled(b)
  <2>1. a = Unknown /\ c = Unknown => x = b
    BY <1>15
  <2> QED
    BY <1>6, <1>7, <1>9, <1>10, <1>13, <1>14, <2>1
<1>20. ~hasT /\ ~hasD /\ ~hasB /\ ~hasK /\ hasC => authenticate(creds, FALSE) = Settled(c)
  <2>1. a = Unknown /\ b = Unknown => x = c
    BY <1>15
  <2> QED
    BY <1>6, <1>7, <1>9, <1>10, <1>13, <1>14, <2>1
<1>21. hasT \/ hasD => authenticate(creds, FALSE) \in {Refused("unauthenticated"), Settled(Unknown)}
  <2>1. a = Unknown /\ b = Unknown /\ c = Unknown => x = Unknown
    BY <1>15
  <2> QED
    BY <1>6, <1>7, <1>9, <1>10, <2>1
<1> DEFINE p == authenticate(creds, FALSE)
<1>22. /\ hasT \/ hasD => p.code # "ok"
       /\ \/ hasB /\ hasK
          \/ hasB /\ hasC
          \/ hasK /\ hasC
          \/ hasB /\ manyB
          \/ hasK /\ manyK
          => p.code # "ok"
       /\ ~hasT /\ ~hasD =>
            /\ ~hasB /\ ~hasK /\ ~hasC => p = Nobody
            /\ hasB /\ ~hasK /\ ~hasC /\ ~manyB => p = Settled(a)
            /\ ~hasB /\ hasK /\ ~hasC /\ ~manyK => p = Settled(b)
            /\ ~hasB /\ ~hasK /\ hasC => p = Settled(c)
  BY <1>11, <1>16, <1>17, <1>18, <1>19, <1>20, <1>21
<1> HIDE DEF p
<1>23. AskedForOne(creds, p)
  BY <1>1, <1>22, Zenon DEF AskedForOne, a, b, c, manyB, manyK, hasB, hasK, hasC, hasT, hasD
<1> QED
  BY <1>23 DEF p

(***************************************************************************)
(* Authority                                                               *)
(***************************************************************************)

\* What a program states of itself to face f.
Bearers(f) == bearerTokens(Stated(f, "authorization"))
Keys(f) == Stated(f, "x-api-key")
Cookies(f) == Stated(f, "cookie")
Tickets(f) == IF f = "extra" THEN <<>> ELSE Stated(f, "x-ticket")
SessionOf(f) == Cookie([cookies |-> Cookies(f)], "session")

\* The headers that may state credentials, and what a request has under them.
Statements == {"authorization", "x-api-key", "cookie", "x-ticket"}

LEMMA StatementsAreKept ==
  ASSUME PageInv, client.kind = "program", NEW k \in Statements
  PROVE  /\ k \in MetadataRead /\ k # ForwardedForKey
         /\ Get(Request.headers, k) = Get(client.headers, k)
         /\ OtherOf(k) = IF Renamed(k) THEN client.headers[MetadataHeader(k)] ELSE <<>>
         /\ IsSequence(Get(client.headers, k)) /\ IsSequence(OtherOf(k))
         /\ Range(OtherOf(k)) \subseteq Range(Get(client.headers, MetadataHeader(k)))
<1>1. k \in MetadataRead /\ k \notin {RealIPKey, ForwardedForKey}
  BY DEF Statements, MetadataRead, RealIPKey, ForwardedForKey
<1>2. k \notin AddedNames
  <2>1. Added(k) = PathHeader(k) \o <<>>
    BY DEF Added
  <2>2. PathHeader(k) = <<>>
    BY <1>1 DEF PathHeader, RealIPKey, ForwardedForKey
  <2>3. <<>> \o <<>> = <<>>
    OBVIOUS
  <2> QED
    BY <2>1, <2>2, <2>3 DEF AddedNames
<1>3. /\ DOMAIN Request.headers = AddedNames \cup DOMAIN client.headers
      /\ \A name \in DOMAIN Request.headers :
           Request.headers[name] = IF name \in AddedNames THEN Added(name) ELSE client.headers[name]
  BY DEF Request
<1>4. Get(Request.headers, k) = Get(client.headers, k)
  BY <1>2, <1>3 DEF Get
<1>5. OtherOf(k) = IF Renamed(k) THEN client.headers[MetadataHeader(k)] ELSE <<>>
  BY <1>1, AddedAreKnown DEF OtherOf
<1>6. \A name : IsSequence(Get(client.headers, name))
  BY ProgramIsGiven, ShortSequences DEF Get
<1>7. OtherOf(k) = <<>> \/ OtherOf(k) = Get(client.headers, MetadataHeader(k))
  BY <1>5 DEF Renamed, Get
<1>8. Range(<<>>) = {} /\ IsSequence(<<>>)
  BY ShortSequences DEF Range
<1> QED
  BY <1>1, <1>4, <1>5, <1>6, <1>7, <1>8

\* What is stated to the gateway is what gets through.
LEMMA StatedGetsThrough ==
  ASSUME PageInv, client.kind = "program", NEW k \in Statements
  PROVE  Stated("gateway", k) = GotThrough(k)
<1> DEFINE value == Get(client.headers, k)
           own == (IF k = "authorization" THEN value ELSE <<>>)
                    \o (IF k \in Lists.allow \ Lists.deny THEN value ELSE <<>>)
           other == IF Renamed(k) THEN client.headers[MetadataHeader(k)] ELSE <<>>
<1>1. Stated("gateway", k) = IF k \in client.late THEN other \o own ELSE own \o other
  BY DEF Stated, Lists
<1>2. OwnOf(k) = own
  BY StatementsAreKept DEF OwnOf
<1>3. OtherOf(k) = other
  BY StatementsAreKept
<1>4. Request.late = client.late
  BY DEF Request
<1> HIDE DEF own, other
<1> QED
  BY <1>1, <1>2, <1>3, <1>4 DEF GotThrough

\* Two sequences joined have no other values.
LEMMA JoinedValues ==
  ASSUME NEW s, NEW t, IsSequence(s), IsSequence(t)
  PROVE  Range(s \o t) \subseteq Range(s) \cup Range(t)
<1> DEFINE u == s \o t
           m == Len(s)
           n == Len(t)
<1>1. /\ IsSequence(u) /\ Len(u) = m + n
      /\ \A i \in 1 .. m : u[i] = s[i]
      /\ \A i \in 1 .. n : u[m + i] = t[i]
  BY SequencesJoin
<1>2. m \in Nat /\ DOMAIN s = 1 .. m /\ n \in Nat /\ DOMAIN t = 1 .. n
  BY DEF IsSequence
<1>3. DOMAIN u = 1 .. m + n
  BY <1>1 DEF IsSequence
<1> HIDE DEF u, m, n
<1>4. ASSUME NEW i \in DOMAIN u PROVE u[i] \in Range(s) \cup Range(t)
  <2>1. CASE i \in 1 .. m
    BY <1>1, <1>2, <2>1 DEF Range
  <2>2. CASE i \notin 1 .. m
    <3>1. i - m \in 1 .. n /\ m + (i - m) = i
      BY <1>2, <1>3, <2>2
    <3>2. u[i] = t[i - m]
      BY <1>1, <3>1
    <3> QED
      BY <1>2, <3>1, <3>2 DEF Range
  <2> QED
    BY <2>1, <2>2
<1>5. Range(u) \subseteq Range(s) \cup Range(t)
  BY <1>4 DEF Range
<1> QED
  BY <1>5 DEF u

\* What is stated is a sequence of what the headers that say it hold.
LEMMA StatedIsSaid ==
  ASSUME PageInv, client.kind = "program", NEW f, NEW k \in Statements
  PROVE  /\ IsSequence(Stated(f, k))
         /\ Range(Stated(f, k)) \subseteq Range(Get(client.headers, k))
                                           \cup Range(Get(client.headers, MetadataHeader(k)))
<1> DEFINE value == Get(client.headers, k)
           V == Range(value) \cup Range(Get(client.headers, MetadataHeader(k)))
<1>1. IsSequence(value) /\ IsSequence(OtherOf(k)) /\ Range(OtherOf(k)) \subseteq V
  BY StatementsAreKept
<1>2. Range(<<>>) = {} /\ IsSequence(<<>>)
  BY ShortSequences DEF Range
<1>3. CASE f # "gateway"
  BY <1>1, <1>3 DEF Stated
<1>4. CASE f = "gateway"
  <2> DEFINE a == IF k = "authorization" THEN value ELSE <<>>
             b == IF k \in Lists.allow \ Lists.deny THEN value ELSE <<>>
  <2>1. OwnOf(k) = a \o b
    BY StatementsAreKept DEF OwnOf
  <2>2. Range(value) \subseteq V
    OBVIOUS
  <2> HIDE DEF V, value
  <2>3. IsSequence(a) /\ IsSequence(b) /\ Range(a) \subseteq V /\ Range(b) \subseteq V
    BY <1>1, <1>2, <2>2
  <2> HIDE DEF a, b
  <2>4. IsSequence(OwnOf(k)) /\ Range(OwnOf(k)) \subseteq V
    <3>1. IsSequence(a \o b) /\ Range(a \o b) \subseteq Range(a) \cup Range(b)
      BY <2>3, SequencesJoin, JoinedValues
    <3> QED
      BY <2>1, <2>3, <3>1
  <2> DEFINE own == OwnOf(k)
             other == OtherOf(k)
  <2>5. IsSequence(own) /\ Range(own) \subseteq V /\ IsSequence(other) /\ Range(other) \subseteq V
    BY <1>1, <2>4
  <2>6. Stated(f, k) = own \o other \/ Stated(f, k) = other \o own
    BY <1>4, StatedGetsThrough DEF GotThrough
  <2> HIDE DEF own, other
  <2>7. /\ IsSequence(own \o other) /\ Range(own \o other) \subseteq Range(own) \cup Range(other)
        /\ IsSequence(other \o own) /\ Range(other \o own) \subseteq Range(own) \cup Range(other)
    <3>1. IsSequence(own \o other) /\ IsSequence(other \o own)
      BY <2>5, SequencesJoin
    <3>2. Range(own \o other) \subseteq Range(own) \cup Range(other)
      BY <2>5, JoinedValues
    <3>3. Range(other \o own) \subseteq Range(other) \cup Range(own)
      BY <2>5, JoinedValues
    <3> QED
      BY <3>1, <3>2, <3>3
  <2>8. IsSequence(Stated(f, k)) /\ Range(Stated(f, k)) \subseteq V
    BY <2>5, <2>6, <2>7
  <2> QED
    BY <2>8 DEF V, value
<1> QED
  BY <1>3, <1>4

\* Nothing else on the way touches the headers with credentials.
LEMMA StatedHeaders ==
  ASSUME PageInv, client.kind = "program", NEW f \in Faces
  PROVE  Creds(f) = [bearer |-> Bearers(f), apiKeys |-> Keys(f), cookies |-> Cookies(f),
                     tickets |-> Tickets(f), certs |-> Certs(f)]
<1>1. {"authorization", "x-api-key", "cookie", "x-ticket"} \subseteq Statements
  BY DEF Statements
<1>2. \A k \in Statements : f # "gateway" => Get(Request.headers, k) = Stated(f, k)
  BY StatementsAreKept DEF Stated
<1>3. CASE f = "extra"
  BY <1>1, <1>2, <1>3 DEF Creds, ExtractHTTP, Bearers, Keys, Cookies, Tickets
<1>4. CASE f = "grpc"
  BY <1>1, <1>2, <1>4 DEF Creds, MdOf, Extract, Bearers, Keys, Cookies, Tickets
<1>5. CASE f = "gateway"
  <2> DEFINE added == clientIPAnnotator(ParseTrustedProxies(Trust), Request)
  <2>1. DOMAIN added = {ClientIPKey, ForwardedForKey}
    BY DEF clientIPAnnotator
  <2>2. \A k \in Statements : k \notin DOMAIN added
    BY <2>1 DEF Statements, ClientIPKey, ForwardedForKey
  <2> HIDE DEF added
  <2>3. MdOf(f) = annotateContext(conf.headers, Request, added)
    BY <1>5 DEF MdOf, added
  <2>4. ASSUME NEW k \in Statements PROVE Get(MdOf(f), k) = Stated(f, k)
    <3>1. k \in MetadataRead /\ k # ForwardedForKey /\ Get(added, k) = <<>>
      BY <2>2, StatementsAreKept DEF Get
    <3>2. Get(MdOf(f), k) = GotThrough(k) \o <<>> \o <<>>
      BY <2>3, <3>1, GatewayPasses
    <3>3. GotThrough(k) = Stated(f, k)
      BY <1>5, StatedGetsThrough
    <3>4. IsSequence(Stated(f, k))
      BY StatedIsSaid
    <3> QED
      BY <3>2, <3>3, <3>4, NothingJoins
  <2> QED
    BY <1>1, <1>5, <2>4 DEF Creds, Extract, Bearers, Keys, Cookies, Tickets
<1> QED
  BY <1>3, <1>4, <1>5 DEF Faces

\* Credentials are sequences, and those of one are of the tokens and keys.
LEMMA StatedCredentials ==
  ASSUME PageInv, client.kind = "program", NEW f
  PROVE  /\ Len(Bearers(f)) \in Nat /\ DOMAIN Bearers(f) = 1 .. Len(Bearers(f))
         /\ Bearers(f) = <<>> <=> Len(Bearers(f)) = 0
         /\ Len(Bearers(f)) = 1 => Bearers(f)[1] \in DOMAIN Token
         /\ Len(Keys(f)) \in Nat /\ DOMAIN Keys(f) = 1 .. Len(Keys(f))
         /\ Keys(f) = <<>> <=> Len(Keys(f)) = 0
         /\ Len(Keys(f)) = 1 => Keys(f)[1] \in DOMAIN Key
<1>1. PICK x \in Case : client = x.client
  BY DEF PageInv
<1>2. "authorization" \in Statements /\ "x-api-key" \in Statements
  BY DEF Statements
<1>3. /\ \A name \in Saying("authorization") :
           \A v \in Range(Get(client.headers, name)) : v.token \in DOMAIN Token \cup {Blank}
      /\ \A name \in Saying("x-api-key") : Range(Get(client.headers, name)) \subseteq DOMAIN Key
  <2>1. \A y \in Case :
          y.client.kind = "program" =>
            /\ \A name \in Saying("authorization") :
                 \A v \in Range(Get(y.client.headers, name)) : v.token \in DOMAIN Token \cup {Blank}
            /\ \A name \in Saying("x-api-key") : Range(Get(y.client.headers, name)) \subseteq DOMAIN Key
    BY CaseAssumption, Zenon DEF Blank
  <2> QED
    BY <1>1, <2>1, Zenon
<1>4. \A name : name \in Saying(name) /\ MetadataHeader(name) \in Saying(name)
  BY DEF Saying
<1>5. /\ Len(Bearers(f)) \in Nat /\ DOMAIN Bearers(f) = 1 .. Len(Bearers(f))
      /\ Bearers(f) = <<>> <=> Len(Bearers(f)) = 0
      /\ Len(Bearers(f)) = 1 => Bearers(f)[1] \in DOMAIN Token
  <2> DEFINE values == Stated(f, "authorization")
             T == DOMAIN Token
  <2>1. IsSequence(values)
    BY <1>2, StatedIsSaid
  <2>2. \A v \in Range(values) : v.token \in T \cup {Blank}
    <3> DEFINE name == "authorization"
    <3>1. name \in Statements
      BY <1>2
    <3>2. \A h \in Saying(name) : \A v \in Range(Get(client.headers, h)) : v.token \in T \cup {Blank}
      BY <1>3
    <3>3. values = Stated(f, name)
      OBVIOUS
    <3> HIDE DEF name, values, T
    <3>4. Range(values) \subseteq Range(Get(client.headers, name))
                                    \cup Range(Get(client.headers, MetadataHeader(name)))
      BY <3>1, <3>3, StatedIsSaid
    <3> QED
      BY <1>4, <3>2, <3>4
  <2>3. Bearers(f) = bearerTokens(values)
    BY DEF Bearers
  <2> HIDE DEF values, T
  <2>4. LET bearers == bearerTokens(values)
        IN  /\ Len(bearers) \in Nat /\ DOMAIN bearers = 1 .. Len(bearers)
            /\ bearers = <<>> <=> Len(bearers) = 0
            /\ Len(bearers) = 1 => bearers[1] \in T
    BY <2>1, <2>2, BearersFound
  <2> QED
    BY <2>3, <2>4 DEF T
<1>6. IsSequence(Keys(f)) /\ Range(Keys(f)) \subseteq DOMAIN Key
  <2> DEFINE name == "x-api-key"
  <2>1. name \in Statements /\ Keys(f) = Stated(f, name)
    BY <1>2 DEF Keys
  <2>2. \A h \in Saying(name) : Range(Get(client.headers, h)) \subseteq DOMAIN Key
    BY <1>3
  <2> HIDE DEF name
  <2>3. /\ IsSequence(Stated(f, name))
        /\ Range(Stated(f, name)) \subseteq Range(Get(client.headers, name))
                                             \cup Range(Get(client.headers, MetadataHeader(name)))
    BY <2>1, StatedIsSaid
  <2> QED
    BY <1>4, <2>1, <2>2, <2>3
<1>7. Len(Keys(f)) \in Nat /\ DOMAIN Keys(f) = 1 .. Len(Keys(f)) /\ (Keys(f) = <<>> <=> Len(Keys(f)) = 0)
  BY <1>6, LenProperties, EmptySeq DEF IsSequence
<1>8. Len(Keys(f)) = 1 => Keys(f)[1] \in DOMAIN Key
  <2>1. Len(Keys(f)) = 1 => 1 \in DOMAIN Keys(f)
    BY <1>7
  <2> QED
    BY <1>6, <2>1 DEF Range
<1> QED
  BY <1>5, <1>7, <1>8

\* A claim of each kind.
BearerClaim(f, i) == [kind |-> "bearer", value |-> Bearers(f)[i], at |-> i]
KeyClaim(f, i)    == [kind |-> "key", value |-> Keys(f)[i], at |-> i]
CookieClaim(f)    == [kind |-> "cookie", value |-> SessionOf(f), at |-> 1]
TicketClaim       == [kind |-> "ticket", value |-> "", at |-> 1]
CertificateClaim  == [kind |-> "certificate", value |-> "", at |-> 1]

\* The claims of a program, one for each of its credentials.
LEMMA ClaimsAre ==
  ASSUME NEW f
  PROVE  /\ Claimed(f) = {BearerClaim(f, i) : i \in DOMAIN Bearers(f)}
                           \cup {KeyClaim(f, i) : i \in DOMAIN Keys(f)}
                           \cup (IF Cookies(f) = <<>> THEN {} ELSE {CookieClaim(f)})
                           \cup (IF Tickets(f) = <<>> THEN {} ELSE {TicketClaim})
                           \cup (IF Certs(f) = <<>> THEN {} ELSE {CertificateClaim})
         /\ \A i : /\ BearerClaim(f, i).kind = "bearer" /\ BearerClaim(f, i).value = Bearers(f)[i]
                   /\ BearerClaim(f, i).at = i
         /\ \A i : /\ KeyClaim(f, i).kind = "key" /\ KeyClaim(f, i).value = Keys(f)[i]
                   /\ KeyClaim(f, i).at = i
         /\ CookieClaim(f).kind = "cookie" /\ CookieClaim(f).value = SessionOf(f)
         /\ ~Good(TicketClaim) /\ ~Good(CertificateClaim)
<1>1. Claimed(f) = {BearerClaim(f, i) : i \in DOMAIN Bearers(f)}
                     \cup {KeyClaim(f, i) : i \in DOMAIN Keys(f)}
                     \cup (IF Cookies(f) = <<>> THEN {} ELSE {CookieClaim(f)})
                     \cup (IF Tickets(f) = <<>> THEN {} ELSE {TicketClaim})
                     \cup (IF Certs(f) = <<>> THEN {} ELSE {CertificateClaim})
  <2> DEFINE told == f = "extra" \/ Stated(f, "x-ticket") = <<>>
  <2>1. told <=> Tickets(f) = <<>>
    BY DEF Tickets
  <2>2. Claimed(f) = {BearerClaim(f, i) : i \in DOMAIN Bearers(f)}
                       \cup {KeyClaim(f, i) : i \in DOMAIN Keys(f)}
                       \cup (IF Cookies(f) = <<>> THEN {} ELSE {CookieClaim(f)})
                       \cup (IF told THEN {} ELSE {TicketClaim})
                       \cup (IF Certs(f) = <<>> THEN {} ELSE {CertificateClaim})
    BY Zenon DEF Claimed, BearerClaim, KeyClaim, CookieClaim, TicketClaim, CertificateClaim, Bearers,
                 Keys, Cookies, SessionOf
  <2> HIDE DEF told
  <2>3. CASE told
    BY <2>1, <2>2, <2>3, Zenon
  <2>4. CASE ~told
    BY <2>1, <2>2, <2>4, Zenon
  <2> QED
    BY <2>3, <2>4
<1>2. \A i : /\ BearerClaim(f, i).kind = "bearer" /\ BearerClaim(f, i).value = Bearers(f)[i]
             /\ BearerClaim(f, i).at = i
  BY DEF BearerClaim
<1>3. \A i : /\ KeyClaim(f, i).kind = "key" /\ KeyClaim(f, i).value = Keys(f)[i]
             /\ KeyClaim(f, i).at = i
  BY DEF KeyClaim
<1>4. CookieClaim(f).kind = "cookie" /\ CookieClaim(f).value = SessionOf(f)
  BY DEF CookieClaim
<1>5. ~Good(TicketClaim) /\ ~Good(CertificateClaim)
  <2>1. TicketClaim.kind = "ticket" /\ CertificateClaim.kind = "certificate"
    BY DEF TicketClaim, CertificateClaim
  <2>2. \A c : c.kind \in {"ticket", "certificate"} => ~Good(c)
    BY DEF Good
  <2> QED
    BY <2>1, <2>2
<1> QED
  BY <1>1, <1>2, <1>3, <1>4, <1>5

\* What a claim makes of the caller.
Stands(f, c) ==
  /\ Good(c) => Caller(f).code = "ok" /\ Caller(f) # Nobody /\ Caller(f).scopes = States(c)
  /\ ~Good(c) => Caller(f).code # "ok"
  /\ States(c) \in SUBSET Seq(STRING)

\* An authenticator's answer settles what a claim makes of the caller.
LEMMA SettledStands ==
  ASSUME NEW f, NEW c, NEW a, NEW kind \in {"user", "api_key"}, Caller(f) = Settled(a),
         Good(c) => a = Principal(kind, States(c)),
         ~Good(c) => a = Unknown \/ a.code # "ok", States(c) \in SUBSET Seq(STRING)
  PROVE  Stands(f, c)
<1>1. \A code : Refused(code).kind = "none" /\ Refused(code).code = code
  BY DEF Refused
<1>2. Unknown.kind = "none"
  BY <1>1, Zenon DEF Unknown
<1>3. \A s : /\ Principal(kind, s).kind = kind /\ Principal(kind, s).code = "ok"
             /\ Principal(kind, s).scopes = s
  BY DEF Principal
<1>4. Nobody.kind = "none"
  BY DEF Nobody
<1>5. kind # "none"
  OBVIOUS
<1>6. ASSUME Good(c) PROVE Caller(f).code = "ok" /\ Caller(f) # Nobody /\ Caller(f).scopes = States(c)
  <2>1. a = Principal(kind, States(c))
    BY <1>6
  <2>2. a # Unknown /\ a # Nobody
    BY <1>2, <1>3, <1>4, <1>5, <2>1
  <2>3. Caller(f) = a
    BY <2>2 DEF Settled
  <2> QED
    BY <1>3, <2>1, <2>2, <2>3
<1>7. ASSUME ~Good(c) PROVE Caller(f).code # "ok"
  <2>1. a = Unknown \/ a.code # "ok"
    BY <1>7
  <2> QED
    BY <1>1, <2>1 DEF Settled
<1> QED
  BY <1>6, <1>7, Zenon DEF Stands

\* A set with two members is no set of one.
LEMMA TwoAreNotOne ==
  ASSUME NEW S, NEW x \in S, NEW y \in S, x # y
  PROVE  \A c : S # {c}
OBVIOUS

\* Without a claim the caller is nobody, with one that an authenticator knows it
\* is whom that makes it, and otherwise it is refused.
LEMMA ClaimSettles ==
  ASSUME PageInv, client.kind = "program", ~conf.policy.anonymous, NEW f \in Faces
  PROVE  \/ Claimed(f) = {} /\ Caller(f) = Nobody
         \/ (\A c : Claimed(f) = {c} => ~Good(c)) /\ Caller(f).code # "ok"
         \/ \E c : Claimed(f) = {c} /\ Stands(f, c)
<1> DEFINE B == Bearers(f)
           K == Keys(f)
           C == Cookies(f)
           T == Tickets(f)
           D == Certs(f)
<1>1. Creds(f) = [bearer |-> B, apiKeys |-> K, cookies |-> C, tickets |-> T, certs |-> D]
  BY StatedHeaders
<1>2. /\ Len(B) \in Nat /\ DOMAIN B = 1 .. Len(B) /\ (B = <<>> <=> Len(B) = 0)
      /\ Len(B) = 1 => B[1] \in DOMAIN Token
      /\ Len(K) \in Nat /\ DOMAIN K = 1 .. Len(K) /\ (K = <<>> <=> Len(K) = 0)
      /\ Len(K) = 1 => K[1] \in DOMAIN Key
  BY StatedCredentials
<1>3. /\ T # <<>> \/ D # <<>> => Caller(f).code # "ok"
      /\ \/ B # <<>> /\ K # <<>>
         \/ B # <<>> /\ C # <<>>
         \/ K # <<>> /\ C # <<>>
         \/ B # <<>> /\ Len(B) > 1
         \/ K # <<>> /\ Len(K) > 1
         => Caller(f).code # "ok"
      /\ T = <<>> /\ D = <<>> =>
           /\ B = <<>> /\ K = <<>> /\ C = <<>> => Caller(f) = Nobody
           /\ B # <<>> /\ K = <<>> /\ C = <<>> /\ ~(Len(B) > 1)
                => Caller(f) = Settled(AuthenticateJWT(Creds(f)))
           /\ B = <<>> /\ K # <<>> /\ C = <<>> /\ ~(Len(K) > 1)
                => Caller(f) = Settled(AuthenticateKey(Creds(f)))
           /\ B = <<>> /\ K = <<>> /\ C # <<>>
                => Caller(f) = Settled(AuthenticateSession(Creds(f)))
  <2>1. Caller(f) = authenticate(Creds(f), FALSE)
    <3>1. (conf.lenient /\ conf.policy.anonymous) = FALSE
      OBVIOUS
    <3> QED
      BY <3>1 DEF Caller
  <2>2. AskedForOne(Creds(f), Caller(f))
    BY <1>1, <2>1, OneIsAsked
  <2>3. /\ Creds(f).bearer = B /\ Creds(f).apiKeys = K /\ Creds(f).cookies = C
        /\ Creds(f).tickets = T /\ Creds(f).certs = D
    BY <1>1
  <2> HIDE DEF B, K, C, T, D
  <2> QED
    BY <2>2, <2>3 DEF AskedForOne
<1>4. /\ Creds(f).bearer = B /\ Creds(f).apiKeys = K /\ Creds(f).cookies = C
  BY <1>1
<1>5. /\ Claimed(f) = {BearerClaim(f, i) : i \in DOMAIN B} \cup {KeyClaim(f, i) : i \in DOMAIN K}
                       \cup (IF C = <<>> THEN {} ELSE {CookieClaim(f)})
                       \cup (IF T = <<>> THEN {} ELSE {TicketClaim})
                       \cup (IF D = <<>> THEN {} ELSE {CertificateClaim})
      /\ \A i : BearerClaim(f, i).kind = "bearer" /\ BearerClaim(f, i).value = B[i] /\ BearerClaim(f, i).at = i
      /\ \A i : KeyClaim(f, i).kind = "key" /\ KeyClaim(f, i).value = K[i] /\ KeyClaim(f, i).at = i
      /\ CookieClaim(f).kind = "cookie" /\ CookieClaim(f).value = SessionOf(f)
      /\ ~Good(TicketClaim) /\ ~Good(CertificateClaim)
  BY ClaimsAre
<1> HIDE DEF B, K, C, T, D
<1>6. /\ DOMAIN B = {} <=> B = <<>>
      /\ DOMAIN K = {} <=> K = <<>>
      /\ Len(B) = 1 => DOMAIN B = {1}
      /\ Len(K) = 1 => DOMAIN K = {1}
      /\ B # <<>> => 1 \in DOMAIN B
      /\ K # <<>> => 1 \in DOMAIN K
      /\ Len(B) > 1 => 2 \in DOMAIN B
      /\ Len(K) > 1 => 2 \in DOMAIN K
      /\ B # <<>> /\ ~(Len(B) > 1) => Len(B) = 1
      /\ K # <<>> /\ ~(Len(K) > 1) => Len(K) = 1
  BY <1>2
<1>7. CASE T # <<>> \/ D # <<>>
  <2>1. TicketClaim \in Claimed(f) \/ CertificateClaim \in Claimed(f)
    BY <1>5, <1>7
  <2>2. \A c : Claimed(f) = {c} => ~Good(c)
    BY <1>5, <2>1
  <2>3. Caller(f).code # "ok"
    BY <1>3, <1>7
  <2> QED
    BY <2>2, <2>3
<1> DEFINE alone == T = <<>> /\ D = <<>>
<1>8. CASE alone /\ B = <<>> /\ K = <<>> /\ C = <<>>
  BY <1>3, <1>5, <1>6, <1>8
<1>9. ASSUME B # <<>> /\ K # <<>> PROVE \A c : Claimed(f) # {c}
  <2>1. BearerClaim(f, 1) \in Claimed(f) /\ KeyClaim(f, 1) \in Claimed(f)
    BY <1>5, <1>6, <1>9
  <2>2. BearerClaim(f, 1) # KeyClaim(f, 1)
    BY <1>5
  <2> QED
    BY <2>1, <2>2, TwoAreNotOne
<1>10. ASSUME B # <<>> /\ C # <<>> PROVE \A c : Claimed(f) # {c}
  <2>1. BearerClaim(f, 1) \in Claimed(f) /\ CookieClaim(f) \in Claimed(f)
    BY <1>5, <1>6, <1>10
  <2>2. BearerClaim(f, 1) # CookieClaim(f)
    BY <1>5
  <2> QED
    BY <2>1, <2>2, TwoAreNotOne
<1>11. ASSUME K # <<>> /\ C # <<>> PROVE \A c : Claimed(f) # {c}
  <2>1. KeyClaim(f, 1) \in Claimed(f) /\ CookieClaim(f) \in Claimed(f)
    BY <1>5, <1>6, <1>11
  <2>2. KeyClaim(f, 1) # CookieClaim(f)
    BY <1>5
  <2> QED
    BY <2>1, <2>2, TwoAreNotOne
<1>12. ASSUME 1 \in DOMAIN B, 2 \in DOMAIN B PROVE \A c : Claimed(f) # {c}
  <2>1. BearerClaim(f, 1) \in Claimed(f) /\ BearerClaim(f, 2) \in Claimed(f)
    BY <1>5, <1>12
  <2>2. BearerClaim(f, 1) # BearerClaim(f, 2)
    <3>1. BearerClaim(f, 1).at = 1 /\ BearerClaim(f, 2).at = 2
      BY <1>5
    <3> QED
      BY <3>1
  <2> QED
    BY <2>1, <2>2, TwoAreNotOne
<1>13. ASSUME 1 \in DOMAIN K, 2 \in DOMAIN K PROVE \A c : Claimed(f) # {c}
  <2>1. KeyClaim(f, 1) \in Claimed(f) /\ KeyClaim(f, 2) \in Claimed(f)
    BY <1>5, <1>13
  <2>2. KeyClaim(f, 1) # KeyClaim(f, 2)
    <3>1. KeyClaim(f, 1).at = 1 /\ KeyClaim(f, 2).at = 2
      BY <1>5
    <3> QED
      BY <3>1
  <2> QED
    BY <2>1, <2>2, TwoAreNotOne
<1>14. CASE \/ B # <<>> /\ K # <<>>
            \/ B # <<>> /\ C # <<>>
            \/ K # <<>> /\ C # <<>>
            \/ B # <<>> /\ Len(B) > 1
            \/ K # <<>> /\ Len(K) > 1
  BY <1>3, <1>6, <1>9, <1>10, <1>11, <1>12, <1>13, <1>14, Zenon
<1>15. CASE alone /\ B # <<>> /\ K = <<>> /\ C = <<>> /\ ~(Len(B) > 1)
  <2>1. Claimed(f) = {BearerClaim(f, 1)}
    BY <1>5, <1>6, <1>15
  <2>2. Caller(f) = Settled(AuthenticateJWT(Creds(f)))
    BY <1>3, <1>15, Zenon
  <2>3. /\ Creds(f).bearer # <<>> /\ Creds(f).bearer[1] \in DOMAIN Token
        /\ BearerClaim(f, 1).kind = "bearer" /\ BearerClaim(f, 1).value = Creds(f).bearer[1]
    BY <1>2, <1>4, <1>5, <1>6, <1>15
  <2>4. /\ Good(BearerClaim(f, 1)) => AuthenticateJWT(Creds(f)) = Principal("user", States(BearerClaim(f, 1)))
        /\ ~Good(BearerClaim(f, 1)) => AuthenticateJWT(Creds(f)).code # "ok"
        /\ States(BearerClaim(f, 1)) \in SUBSET Seq(STRING)
    BY <2>3, TokenStands, Zenon
  <2>5. Stands(f, BearerClaim(f, 1))
    BY <2>2, <2>4, SettledStands
  <2> QED
    BY <2>1, <2>5
<1>16. CASE alone /\ B = <<>> /\ K # <<>> /\ C = <<>> /\ ~(Len(K) > 1)
  <2>1. Claimed(f) = {KeyClaim(f, 1)}
    BY <1>5, <1>6, <1>16
  <2>2. Caller(f) = Settled(AuthenticateKey(Creds(f)))
    BY <1>3, <1>16, Zenon
  <2>3. /\ Creds(f).apiKeys # <<>> /\ Creds(f).apiKeys[1] \in DOMAIN Key
        /\ KeyClaim(f, 1).kind = "key" /\ KeyClaim(f, 1).value = Creds(f).apiKeys[1]
    BY <1>2, <1>4, <1>5, <1>6, <1>16
  <2>4. /\ Good(KeyClaim(f, 1)) => AuthenticateKey(Creds(f)) = Principal("api_key", States(KeyClaim(f, 1)))
        /\ ~Good(KeyClaim(f, 1)) => AuthenticateKey(Creds(f)) = Unknown \/ AuthenticateKey(Creds(f)).code # "ok"
        /\ States(KeyClaim(f, 1)) \in SUBSET Seq(STRING)
    BY <2>3, KeyStands, Zenon
  <2>5. Stands(f, KeyClaim(f, 1))
    BY <2>2, <2>4, SettledStands
  <2> QED
    BY <2>1, <2>5
<1>17. CASE alone /\ B = <<>> /\ K = <<>> /\ C # <<>>
  <2>1. Claimed(f) = {CookieClaim(f)}
    BY <1>5, <1>6, <1>17
  <2>2. Caller(f) = Settled(AuthenticateSession(Creds(f)))
    BY <1>3, <1>17, Zenon
  <2>3. Cookie(Creds(f), "session") = SessionOf(f)
    <3>1. [cookies |-> Cookies(f)].cookies = Cookies(f) /\ Creds(f).cookies = Cookies(f)
      BY <1>4 DEF C
    <3> QED
      BY <3>1, Zenon DEF Cookie, SessionOf
  <2>4. /\ Good(CookieClaim(f)) => AuthenticateSession(Creds(f)) = Principal("user", States(CookieClaim(f)))
        /\ ~Good(CookieClaim(f)) =>
             AuthenticateSession(Creds(f)) = Unknown \/ AuthenticateSession(Creds(f)).code # "ok"
        /\ States(CookieClaim(f)) \in SUBSET Seq(STRING)
    BY <1>5, <2>3, SessionStands, Zenon
  <2>5. Stands(f, CookieClaim(f))
    BY <2>2, <2>4, SettledStands
  <2> QED
    BY <2>1, <2>5
<1> QED
  <2>1. CASE alone
    BY <1>14, <1>15, <1>16, <1>17, <1>8, <2>1, Zenon
  <2>2. CASE ~alone
    BY <1>7, <2>2
  <2> QED
    BY <2>1, <2>2

\* Whether a program is served is what its credential states.
LEMMA ServedIsEntitled ==
  ASSUME PageInv, client.kind = "program", Open, ~conf.policy.anonymous, NEW f \in Faces,
         client.id = <<>> => conf.policy.forbid = <<>> /\ conf.policy.anyOf = <<>>
  PROVE  Served(f) <=> Entitled(f)
<1>1. Served(f) <=> Caller(f).code = "ok" /\ Decision(f) = "allow"
  <2>1. LetGo
    BY DEF LetGo
  <2>2. Passed
    BY DEF Open, Passed, CSRFPasses
  <2> QED
    BY <2>1, <2>2 DEF Served
<1>2. CASE Claimed(f) = {} /\ Caller(f) = Nobody
  <2>1. {} \in SUBSET Seq(STRING) /\ Nobody.scopes = {}
    BY DEF Nobody
  <2>2. Caller(f).scopes \in SUBSET Seq(STRING)
    BY <1>2, <2>1
  <2>3. Decision(f) # "allow"
    BY <1>2, <2>2, DecisionIsMet
  <2>4. ~Entitled(f)
    BY <1>2, Zenon DEF Entitled
  <2> QED
    BY <1>1, <2>3, <2>4
<1>3. CASE (\A c : Claimed(f) = {c} => ~Good(c)) /\ Caller(f).code # "ok"
  <2>1. ~Entitled(f)
    BY <1>3, Zenon DEF Entitled
  <2> QED
    BY <1>1, <1>3, <2>1
<1>4. ASSUME NEW c, Claimed(f) = {c}, Stands(f, c)
      PROVE  Served(f) <=> Entitled(f)
  <2>1. Entitled(f) <=> Good(c) /\ Meets(States(c), conf.policy)
    <3>1. \A d : Claimed(f) = {d} <=> d = c
      BY <1>4
    <3>2. c \in Claimed(f)
      BY <1>4
    <3> QED
      BY <3>1, <3>2, Zenon DEF Entitled
  <2>2. CASE Good(c)
    <3>1. /\ Caller(f).code = "ok" /\ Caller(f) # Nobody /\ Caller(f).scopes = States(c)
          /\ Caller(f).scopes \in SUBSET Seq(STRING)
      BY <1>4, <2>2 DEF Stands
    <3>2. Decision(f) = "allow" <=> Caller(f) # Nobody /\ Meets(Caller(f).scopes, conf.policy)
      BY <3>1, DecisionIsMet
    <3> QED
      BY <1>1, <2>1, <2>2, <3>1, <3>2
  <2>3. CASE ~Good(c)
    BY <1>1, <1>4, <2>1, <2>3 DEF Stands
  <2> QED
    BY <2>2, <2>3
<1> QED
  BY <1>2, <1>3, <1>4, ClaimSettles, Zenon

\* For any tokens, keys, cookies, header policy, policy and path: on each face a
\* program's request is handled exactly if it states to that face one credential,
\* renamed headers, tickets and certificates counted, which is good and states
\* what is asked for.
THEOREM AuthorityIsStated == Spec => []AuthorityIsWhatTheCredentialStates
<1>1. JudgedInv => AuthorityIsWhatTheCredentialStates
  <2> SUFFICES ASSUME JudgedInv, client.kind = "program", client.field = "string",
                      ~conf.policy.anonymous, Open,
                      client.id = <<>> => conf.policy.forbid = <<>> /\ conf.policy.anyOf = <<>>,
                      NEW f \in Faces, Done(f)
               PROVE  results[f].handled <=> Entitled(f)
    BY Zenon DEF AuthorityIsWhatTheCredentialStates
  <2>1. PageInv
    BY DEF JudgedInv, ProgramInv
  <2>2. results[f].handled = Served(f)
    BY DEF JudgedInv, JudgedStands, Befits, Plain
  <2>3. Served(f) <=> Entitled(f)
    BY <2>1, ServedIsEntitled
  <2>4. Served(f) \in BOOLEAN
    BY DEF Served
  <2> QED
    BY <2>2, <2>3, <2>4
<1> QED
  BY <1>1, JudgedStarts, JudgedKeeps, PTL DEF Spec
====
