----------------------------- MODULE PageProofs -----------------------------
(***************************************************************************)
(* What the page scripts, the toolbar and the rating nudge keep, proved of *)
(* the behaviours PageRuns explores, for every value of the bounds: each   *)
(* component is an instance there, so its invariant is proved of the       *)
(* instance and carried over by a lemma that every step of the harness is  *)
(* a step of the component or leaves it alone.                             *)
(***************************************************************************)
EXTENDS PageRuns, Integers, FiniteSetTheorems, SequenceTheorems, WellFoundedInduction,
        TLAPS

-----------------------------------------------------------------------------
(* The links of a page.                                                    *)

URLs == [scheme : {"http", "https"}, host : {"other", "page", "dest"},
         junk : Junk, dest : {None, "https"}]

\* The hrefs there are: the page's, and what the rewriters make of them.
Links ==
    {l \in [shape : {"abs", "proto", "rel", "hash"}, scheme : {"https"},
            host : {"other", "page", "dest"}, junk : Junk, dest : {None, "https"}] :
        /\ l.shape \in {"rel", "hash"} => l.host = "page"
        /\ l.shape = "hash" => l.junk = {} /\ l.dest = None}

Typed ==
    /\ pageScheme \in {"http", "https"} /\ href \in Links
    /\ \A flag \in {warm, observing, installed, pending, latch, gate} : flag \in BOOLEAN
    /\ press \in {"up", "down", "clicked", "redecorated", "ignored"}
    /\ storage \in {"empty", "used"}
    /\ writes \in Nat /\ turns \in Nat /\ rewritten \in Nat

\* Nothing the built-in list knows is left where it could have been removed.
Clean(l) == HasCleanForm(l) => "hot" \notin l.junk

\* A link that differs from its clean form has been rewritten at most once for each
\* turn of the context: one rewrite more, and it is in its clean form.
EffortInv == rewritten <= turns \/ (rewritten = 1 + turns /\ ~Differs(href))

\* The link is clean once the observer is done with it, and from the capture of a
\* click on; the latch is set only while the gate is open.
PageInv ==
    /\ observing /\ ~pending => Clean(href)
    /\ press = "clicked" => Clean(href)
    /\ latch => gate

LinksInv == Typed /\ EffortInv /\ PageInv

-----------------------------------------------------------------------------
LEMMA ResolveTyped ==
    ASSUME pageScheme \in {"http", "https"}, NEW l \in Links
    PROVE  Resolve(l) \in URLs
  BY DEF Links, URLs, Resolve, Junk, None

\* Cleaning a URL removes what the list knows, and is done after one go.
LEMMA CleanURL ==
    ASSUME warm \in BOOLEAN, NEW url \in URLs
    PROVE  /\ CleanAbsolute(url) \in URLs
           /\ "hot" \notin CleanAbsolute(url).junk
           /\ CleanAbsolute(CleanAbsolute(url)) = CleanAbsolute(url)
           /\ url.dest = None => /\ CleanAbsolute(url).host = url.host
                                 /\ CleanAbsolute(url).scheme = url.scheme
                                 /\ CleanAbsolute(url).dest = None
<1>1. CASE warm
  BY <1>1 DEF CleanAbsolute, Full, URLs, Junk, None
<1>2. CASE ~warm
  <2>1. CleanAbsolute(url) = [url EXCEPT !.junk = url.junk \ {"hot"}]
    BY <1>2 DEF CleanAbsolute, Inline
  <2>2. CleanAbsolute(url) \in URLs /\ CleanAbsolute(url).junk = url.junk \ {"hot"}
    BY <2>1 DEF URLs, Junk
  <2>3. CleanAbsolute(CleanAbsolute(url)) =
            [CleanAbsolute(url) EXCEPT !.junk = CleanAbsolute(url).junk \ {"hot"}]
    BY <1>2 DEF CleanAbsolute, Inline
  <2>4. CleanAbsolute(url).junk \ {"hot"} = CleanAbsolute(url).junk
    BY <2>2
  <2>5. CleanAbsolute(CleanAbsolute(url)) = CleanAbsolute(url)
    BY <2>2, <2>3, <2>4 DEF URLs
  <2>6. /\ CleanAbsolute(url).host = url.host /\ CleanAbsolute(url).scheme = url.scheme
        /\ CleanAbsolute(url).dest = url.dest
    BY <2>1 DEF URLs
  <2> QED BY <2>2, <2>5, <2>6
<1> QED BY <1>1, <1>2

\* One rewrite: what comes out is a link of the same form that leads where the clean
\* URL leads, shows nothing the list knows, and would not be rewritten again.
LEMMA CleanLink ==
    ASSUME warm \in BOOLEAN, pageScheme \in {"http", "https"}, NEW l \in Links
    PROVE  /\ Cleaned(l) \in Links
           /\ Clean(Cleaned(l))
           /\ Cleaned(Cleaned(l)) = Cleaned(l)
           /\ Differs(l) =>
                /\ l.shape # "hash" /\ Cleaned(l).shape = l.shape
                /\ [Resolve(Cleaned(l)) EXCEPT !.scheme = pageScheme]
                   = [CleanAbsolute(Resolve(l)) EXCEPT !.scheme = pageScheme]
<1> DEFINE url == CleanAbsolute(Resolve(l))
<1>1. /\ Resolve(l) \in URLs /\ url \in URLs /\ "hot" \notin url.junk
      /\ CleanAbsolute(url) = url
  BY ResolveTyped, CleanURL
<1>2. CASE l.shape = "abs"
  <2>1. Cleaned(l) = [l EXCEPT !.scheme = url.scheme, !.host = url.host,
                               !.junk = url.junk, !.dest = url.dest]
    BY <1>2 DEF Cleaned
  <2>2. url.scheme = "https"
    BY <1>2 DEF Links, Resolve, CleanAbsolute, Full, Inline, None
  <2>3. /\ Cleaned(l) \in Links /\ Cleaned(l).shape = "abs"
        /\ Cleaned(l).scheme = url.scheme /\ Cleaned(l).host = url.host
        /\ Cleaned(l).junk = url.junk /\ Cleaned(l).dest = url.dest
    BY <1>1, <1>2, <2>1, <2>2 DEF Links, URLs
  <2>4. Resolve(Cleaned(l)) = url
    BY <1>1, <2>3 DEF Resolve, URLs
  <2>5. Cleaned(Cleaned(l)) = [Cleaned(l) EXCEPT !.scheme = url.scheme,
                !.host = url.host, !.junk = url.junk, !.dest = url.dest]
    BY <1>1, <2>3, <2>4 DEF Cleaned
  <2>6. Cleaned(Cleaned(l)) = Cleaned(l)
    <3>1. \A c \in Links : [c EXCEPT !.scheme = c.scheme, !.host = c.host,
                                    !.junk = c.junk, !.dest = c.dest] = c
      BY DEF Links
    <3> QED BY <2>3, <2>5, <3>1, Zenon
  <2> QED BY <1>1, <1>2, <2>3, <2>4, <2>6 DEF Clean
<1>3. CASE l.shape # "abs" /\ url = Resolve(l)
  <2>1. Cleaned(l) = l
    BY <1>3 DEF Cleaned
  <2>2. l.junk = url.junk
    BY <1>1, <1>3 DEF Resolve, Links
  <2> QED BY <1>1, <1>3, <2>1, <2>2 DEF Clean, Differs
<1>4. CASE l.shape = "proto" /\ url # Resolve(l)
  <2>1. Cleaned(l) = Href("proto", url.host, url.junk, url.dest)
    BY <1>4 DEF Cleaned
  <2>2. /\ Cleaned(l) \in Links /\ Cleaned(l).shape = "proto"
        /\ Cleaned(l).host = url.host
        /\ Cleaned(l).junk = url.junk /\ Cleaned(l).dest = url.dest
    BY <1>1, <2>1 DEF Links, URLs, Href
  <2>3. Resolve(Cleaned(l)) = [url EXCEPT !.scheme = pageScheme]
    BY <1>1, <2>2 DEF Resolve, URLs
  <2>4. CleanAbsolute([url EXCEPT !.scheme = pageScheme])
            = [url EXCEPT !.scheme = pageScheme]
    <3>1. CASE warm
      BY <1>1, <3>1 DEF URLs, CleanAbsolute, Full, Resolve, None
    <3>2. CASE ~warm
      <4>1. url.junk \ {"hot"} = url.junk
        BY <1>1
      <4> QED BY <1>1, <3>2, <4>1 DEF URLs, CleanAbsolute, Inline
    <3> QED BY <3>1, <3>2
  <2>5. Cleaned(Cleaned(l)) = Cleaned(l)
    BY <2>2, <2>3, <2>4 DEF Cleaned
  <2>6. [Resolve(Cleaned(l)) EXCEPT !.scheme = pageScheme]
            = [url EXCEPT !.scheme = pageScheme]
    BY <1>1, <2>3 DEF URLs
  <2> QED BY <1>1, <1>4, <2>2, <2>5, <2>6 DEF Clean
<1>5. CASE l.shape = "rel" /\ url # Resolve(l) /\ SameOrigin(url)
  <2>1. Cleaned(l) = Href("rel", "page", url.junk, url.dest)
    BY <1>5 DEF Cleaned
  <2>2. /\ Cleaned(l) \in Links /\ Cleaned(l).shape = "rel"
        /\ Cleaned(l).host = url.host
        /\ Cleaned(l).junk = url.junk /\ Cleaned(l).dest = url.dest
    BY <1>1, <1>5, <2>1 DEF Links, URLs, Href, SameOrigin
  <2>3. Resolve(Cleaned(l)) = url
    BY <1>1, <1>5, <2>2 DEF Resolve, URLs, SameOrigin
  <2>4. Cleaned(Cleaned(l)) = Cleaned(l)
    BY <1>1, <2>2, <2>3 DEF Cleaned
  <2> QED BY <1>1, <1>5, <2>2, <2>3, <2>4 DEF Clean
<1>6. CASE l.shape = "rel" /\ url # Resolve(l) /\ ~SameOrigin(url)
  <2>1. Cleaned(l) = l
    BY <1>6 DEF Cleaned
  <2>2. l.dest # None
    <3>1. Resolve(l).host = "page" /\ Resolve(l).scheme = pageScheme
          /\ Resolve(l).dest = l.dest
      BY <1>6 DEF Resolve, Links
    <3> QED BY <1>1, <1>6, <3>1, CleanURL DEF SameOrigin
  <2> QED BY <1>6, <2>1, <2>2 DEF Clean, HasCleanForm, Differs
<1>7. CASE l.shape = "hash"
  <2>1. Cleaned(l) = l /\ l.junk = {}
    BY <1>7 DEF Cleaned, Links
  <2> QED BY <1>7, <2>1 DEF Clean, Differs
<1> QED BY <1>2, <1>3, <1>4, <1>5, <1>6, <1>7 DEF Links

-----------------------------------------------------------------------------
\* What the page writes is a link.
LEMMA HrefsAreLinks == Hrefs \subseteq Links
<1> SUFFICES ASSUME NEW l \in Hrefs PROVE l \in Links
  OBVIOUS
<1>1. CASE l = Href("hash", "page", {}, None)
  BY <1>1 DEF Links, Href, Junk, None
<1>2. CASE l # Href("hash", "page", {}, None)
  <2>1. PICK form \in {<<"abs", "other">>, <<"proto", "other">>, <<"rel", "page">>},
             junk \in Junk, dest \in {None, "https"} :
                l = Href(form[1], form[2], junk, dest)
    BY <1>2 DEF Hrefs
  <2>2. /\ form[1] \in {"abs", "proto", "rel"} /\ form[2] \in {"other", "page"}
        /\ form[1] = "rel" => form[2] = "page"
    OBVIOUS
  <2> QED BY <2>1, <2>2 DEF Links, Href
<1> QED BY <1>1, <1>2

LEMMA LinksInit == Init => LinksInv
<1> SUFFICES ASSUME Init PROVE LinksInv
  OBVIOUS
<1>1. href \in Links
  BY HrefsAreLinks DEF Init
<1>2. Typed
  BY <1>1 DEF Init, Typed
<1>3. EffortInv /\ PageInv
  BY DEF Init, EffortInv, PageInv
<1> QED BY <1>2, <1>3 DEF LinksInv

\* What a link is cleaned to depends on the page's scheme and on the warm cleaner only.
LEMMA CleanedSame ==
    ASSUME NEW h, UNCHANGED <<pageScheme, warm>>
    PROVE  Cleaned(h)' = Cleaned(h)
<1>1. warm' = warm /\ pageScheme' = pageScheme
  OBVIOUS
<1> QED
  BY <1>1, SMT DEF Cleaned, CleanAbsolute, Resolve, Full, Inline, SameOrigin, Href

\* A pass over the links leaves this one clean, whether it writes it or not, and
\* writes it only when the context has turned since the last time.
LEMMA RewriteKeeps ==
    ASSUME LinksInv, NEW cleared \in BOOLEAN, Rewrite(cleared),
           observing' \in BOOLEAN, UNCHANGED <<pageScheme, warm>>, turns' = turns
    PROVE  /\ href' \in Links /\ Clean(href') /\ pending' \in BOOLEAN
           /\ rewritten' \in Nat /\ EffortInv'
           /\ href' # href =>
                /\ href.shape # "hash" /\ href'.shape = href.shape
                /\ [Resolve(href') EXCEPT !.scheme = pageScheme]
                   = [CleanAbsolute(Resolve(href)) EXCEPT !.scheme = pageScheme]
<1>1. /\ Cleaned(href) \in Links /\ Clean(Cleaned(href))
      /\ Cleaned(Cleaned(href)) = Cleaned(href)
      /\ Differs(href) =>
            /\ href.shape # "hash" /\ Cleaned(href).shape = href.shape
            /\ [Resolve(Cleaned(href)) EXCEPT !.scheme = pageScheme]
               = [CleanAbsolute(Resolve(href)) EXCEPT !.scheme = pageScheme]
  BY CleanLink DEF LinksInv, Typed
<1>2. CASE Differs(href)
  <2>1. href' = Cleaned(href) /\ pending' = observing' /\ rewritten' = rewritten + 1
    BY <1>2 DEF Rewrite
  <2>2. rewritten <= turns
    BY <1>2 DEF LinksInv, EffortInv
  <2>3. ~Differs(href)'
    <3>1. PICK h : h = href'
      OBVIOUS
    <3>2. Cleaned(h) = h
      BY <1>1, <2>1, <3>1
    <3>3. Cleaned(h)' = Cleaned(h)
      BY CleanedSame
    <3> QED BY <3>1, <3>2, <3>3 DEF Differs
  <2>4. rewritten' \in Nat /\ (rewritten' <= turns' \/ rewritten' = 1 + turns')
    BY <2>1, <2>2 DEF LinksInv, Typed
  <2>5. EffortInv'
    BY <2>3, <2>4, Zenon DEF EffortInv
  <2> QED BY <1>1, <1>2, <2>1, <2>4, <2>5
<1>3. CASE ~Differs(href)
  <2>1. href' = href /\ rewritten' = rewritten /\ pending' \in {FALSE, pending}
    BY <1>3 DEF Rewrite
  <2>2. Clean(href)
    BY <1>1, <1>3 DEF Differs
  <2>3. Differs(href)' <=> Differs(href)
    <3>1. PICK h : h = href
      OBVIOUS
    <3>2. Cleaned(h)' = Cleaned(h)
      BY CleanedSame
    <3> QED BY <2>1, <3>1, <3>2 DEF Differs
  <2>4. EffortInv'
    BY <2>1, <2>3 DEF EffortInv, LinksInv
  <2> QED BY <2>1, <2>2, <2>4 DEF LinksInv, Typed
<1> QED BY <1>2, <1>3

\* Steps that leave the link and what it is cleaned with alone.
LEMMA LinkStays ==
    ASSUME LinksInv, UNCHANGED <<pageScheme, warm, href, rewritten>>, turns' \in {turns, turns + 1}
    PROVE  EffortInv'
<1>1. Differs(href)' <=> Differs(href)
  BY DEF Differs, Cleaned, CleanAbsolute, Resolve, Full, Inline, SameOrigin, Href
<1>2. rewritten <= turns => rewritten' <= turns'
  BY DEF LinksInv, Typed
<1>3. rewritten = 1 + turns => rewritten' <= turns' \/ rewritten' = 1 + turns'
  <2>1. turns \in Nat /\ rewritten' = rewritten
    BY DEF LinksInv, Typed
  <2>2. CASE turns' = turns
    BY <2>1, <2>2
  <2>3. CASE turns' = turns + 1
    BY <2>1, <2>3
  <2> QED BY <2>2, <2>3
<1>4. CASE rewritten <= turns
  BY <1>2, <1>4, Zenon DEF EffortInv
<1>5. CASE rewritten = 1 + turns /\ ~Differs(href)
  <2>1. ~Differs(href)'
    BY <1>1, <1>5, Zenon
  <2>2. rewritten' <= turns' \/ rewritten' = 1 + turns'
    BY <1>3, <1>5
  <2> QED BY <2>1, <2>2, Zenon DEF EffortInv
<1> QED BY <1>4, <1>5, Zenon DEF EffortInv, LinksInv

LEMMA LinksStep ==
    ASSUME LinksInv, [Next]_vars
    PROVE  LinksInv' /\ [LinkStepIsSound]_vars /\ [OpeningIsClean]_vars
<1> DEFINE Sound == LinksInv' /\ LinkStepIsSound /\ OpeningIsClean
<1>1. ASSUME NEW l \in Hrefs, PageWrites(l) PROVE Sound
  <2>1. l \in Links
    BY HrefsAreLinks
  <2>2. Typed' /\ EffortInv' /\ PageInv'
    BY <1>1, <2>1 DEF PageWrites, LinksInv, Typed, EffortInv, PageInv, listeners, bounce
  <2> QED
    BY <1>1, <2>2 DEF PageWrites, LinksInv, Typed, LinkStepIsSound, TargetKept,
                      FollowedIsClean, OpeningIsClean, bounce
<1>2. CASE ObserverFires
  <2>1. /\ Rewrite(TRUE)
        /\ UNCHANGED <<pageScheme, warm, observing, installed, press>>
        /\ UNCHANGED <<storage, onPath, latch, gate, writes, gates, turns>>
    BY <1>2 DEF ObserverFires, listeners, bounce, bounds
  <2>2. /\ href' \in Links /\ Clean(href') /\ pending' \in BOOLEAN
        /\ rewritten' \in Nat /\ EffortInv' /\ TargetKept
    BY <2>1, RewriteKeeps DEF TargetKept, LinksInv, Typed
  <2>3. Typed' /\ PageInv'
    BY <2>1, <2>2 DEF LinksInv, Typed, PageInv
  <2> QED BY <2>1, <2>2, <2>3
             DEF LinksInv, LinkStepIsSound, FollowedIsClean, OpeningIsClean
<1>3. CASE MouseDown \/ Click
  <2>1. /\ Rewrite(FALSE) \/ (~installed /\ UNCHANGED <<href, pending, rewritten>>)
        /\ UNCHANGED <<pageScheme, warm, observing, installed>>
        /\ UNCHANGED <<storage, onPath, latch, gate, writes, gates, turns>>
        /\ press' \in {"down", "clicked", "ignored"}
        /\ press' = "clicked" => installed
    BY <1>3 DEF MouseDown, Click, Captures, listeners, bounce, bounds
  <2>2. CASE Rewrite(FALSE)
    <3>1. /\ href' \in Links /\ Clean(href') /\ pending' \in BOOLEAN
          /\ rewritten' \in Nat /\ EffortInv' /\ TargetKept
      BY <2>1, <2>2, RewriteKeeps DEF TargetKept, LinksInv, Typed
    <3>2. Typed' /\ PageInv'
      BY <2>1, <3>1 DEF LinksInv, Typed, PageInv
    <3> QED BY <2>1, <3>1, <3>2
               DEF LinksInv, LinkStepIsSound, FollowedIsClean, OpeningIsClean
  <2>3. CASE ~installed /\ UNCHANGED <<href, pending, rewritten>>
    <3>1. EffortInv'
      BY <2>1, <2>3, LinkStays
    <3>2. Typed' /\ PageInv'
      BY <2>1, <2>3 DEF LinksInv, Typed, PageInv, Clean, HasCleanForm
    <3> QED BY <2>1, <2>3, <3>1, <3>2
               DEF LinksInv, LinkStepIsSound, TargetKept, FollowedIsClean, OpeningIsClean
  <2> QED BY <2>1, <2>2, <2>3
<1>4. CASE Follow
  <2>1. /\ UNCHANGED <<pageScheme, warm, observing, installed, href, pending, rewritten>>
        /\ UNCHANGED <<storage, onPath, latch, gate, writes, gates, turns>>
        /\ press' = "up"
    BY <1>4 DEF Follow, listeners, bounce, bounds
  <2>2. EffortInv'
    BY <2>1, LinkStays
  <2>3. Typed' /\ PageInv'
    BY <2>1 DEF LinksInv, Typed, PageInv, Clean, HasCleanForm
  <2>4. FollowedIsClean
    BY DEF FollowedIsClean, LinksInv, PageInv, Clean
  <2> QED BY <2>1, <2>2, <2>3, <2>4
             DEF LinksInv, LinkStepIsSound, TargetKept, OpeningIsClean
<1>5. CASE ContextTurns
  <2>1. /\ UNCHANGED <<pageScheme, observing, installed, href, pending, rewritten, press>>
        /\ UNCHANGED <<storage, onPath, latch, gate, writes, gates>>
        /\ turns' = turns + 1 /\ warm' = ~warm
    BY <1>5 DEF ContextTurns, listeners, bounce
  <2>2. EffortInv'
    BY <2>1 DEF EffortInv, LinksInv, Typed
  <2>3. turns' \in Nat /\ warm' \in BOOLEAN
    BY <2>1 DEF LinksInv, Typed
  <2>4. Typed' /\ PageInv'
    BY <2>1, <2>3 DEF LinksInv, Typed, PageInv, Clean, HasCleanForm
  <2> QED BY <2>1, <2>2, <2>4
             DEF LinksInv, LinkStepIsSound, TargetKept, FollowedIsClean, OpeningIsClean
<1>6. ASSUME NEW enabled \in BOOLEAN, Gate(enabled) PROVE Sound
  <2>1. /\ observing' = enabled /\ installed' = enabled /\ gate' = enabled
        /\ UNCHANGED <<pageScheme, warm, press, onPath, writes, turns>>
        /\ \/ Rewrite(TRUE)
           \/ ~enabled /\ UNCHANGED <<href, rewritten>> /\ pending' = FALSE
           \/ observing /\ UNCHANGED <<href, pending, rewritten>>
    BY <1>6 DEF Gate, FirstPass
  <2>2. /\ latch' \in BOOLEAN /\ storage' \in {"empty", "used"}
        /\ latch' => gate'
        /\ OpeningIsClean
    <3>1. StillCleaned(enabled) \in BOOLEAN /\ (StillCleaned(enabled) => enabled /\ gate)
      BY DEF StillCleaned, LinksInv, Typed, PageInv
    <3> QED BY <1>6, <2>1, <3>1 DEF Gate, OpeningIsClean, LinksInv, Typed
  <2>3. CASE Rewrite(TRUE)
    <3>1. /\ href' \in Links /\ Clean(href') /\ pending' \in BOOLEAN
          /\ rewritten' \in Nat /\ EffortInv' /\ TargetKept
      BY <2>1, <2>3, RewriteKeeps DEF TargetKept, LinksInv, Typed
    <3>2. Typed'
      BY <2>1, <2>2, <3>1 DEF LinksInv, Typed
    <3>3. PageInv' /\ FollowedIsClean
      BY <2>1, <2>2, <3>1 DEF PageInv, FollowedIsClean
    <3> QED BY <2>2, <3>1, <3>2, <3>3 DEF LinksInv, LinkStepIsSound
  <2>4. CASE \/ ~enabled /\ UNCHANGED <<href, rewritten>> /\ pending' = FALSE
             \/ observing /\ UNCHANGED <<href, pending, rewritten>>
    <3>1. EffortInv'
      BY <2>1, <2>4, LinkStays
    <3>2. Typed'
      BY <2>1, <2>2, <2>4 DEF LinksInv, Typed
    <3>3. PageInv' /\ FollowedIsClean
      BY <2>1, <2>2, <2>4 DEF LinksInv, PageInv, FollowedIsClean, Clean, HasCleanForm
    <3> QED BY <2>2, <2>4, <3>1, <3>2, <3>3 DEF LinksInv, LinkStepIsSound, TargetKept
  <2> QED BY <2>1, <2>3, <2>4
<1>7. CASE PageStores \/ PageMoves
  <2>1. /\ UNCHANGED <<pageScheme, warm, observing, installed, href, pending, rewritten>>
        /\ UNCHANGED <<press, latch, gate, writes>>
        /\ turns' \in {turns, turns + 1} /\ storage' \in {storage, "used"}
    BY <1>7 DEF PageStores, PageMoves, listeners, bounds
  <2>2. EffortInv'
    BY <2>1, LinkStays
  <2>3. turns' \in Nat
    BY <2>1 DEF LinksInv, Typed
  <2>4. Typed' /\ PageInv'
    BY <2>1, <2>3 DEF LinksInv, Typed, PageInv, Clean, HasCleanForm
  <2> QED BY <2>1, <2>2, <2>4
             DEF LinksInv, LinkStepIsSound, TargetKept, FollowedIsClean, OpeningIsClean
<1>8. CASE UNCHANGED vars
  <2>1. /\ UNCHANGED <<pageScheme, warm, observing, installed, href, pending, rewritten>>
        /\ UNCHANGED <<press, latch, gate, writes, turns, storage>>
    BY <1>8 DEF vars, listeners, bounce, bounds
  <2>2. EffortInv'
    BY <2>1, LinkStays
  <2>3. Typed' /\ PageInv'
    BY <2>1 DEF LinksInv, Typed, PageInv, Clean, HasCleanForm
  <2> QED BY <1>8, <2>2, <2>3 DEF LinksInv
<1> QED BY <1>1, <1>2, <1>3, <1>4, <1>5, <1>6, <1>7, <1>8 DEF Next

LEMMA LinksAlways == Spec => []LinksInv
  BY LinksInit, LinksStep, PTL DEF Spec

\* A step of the harness is one of the page scripts or leaves them alone.
LEMMA LinksOfRun == RunSpec => Spec
<1>1. RunInit => Init
  BY DEF RunInit
<1>2. [RunNext]_allVars => [Next]_vars
  BY DEF RunNext, allVars
<1> QED BY <1>1, <1>2, PTL DEF RunSpec, Spec

\* The attribute, the click and the flags stay of their kind.
THEOREM LinksTypeCorrect == Spec => []TypeOK
<1>1. LinksInv => TypeOK
  BY DEF LinksInv, Typed, TypeOK, Links
<1> QED BY <1>1, LinksAlways, PTL

\* When the observer is at rest no link shows a parameter the built-in list knows,
\* and between two writes of the page a link is written at most once, plus once for
\* each turn of the context.
THEOREM ObserverComesToRest == Spec => []LinksConverge
<1>1. LinksInv => LinksConverge
  BY DEF LinksInv, Typed, EffortInv, PageInv, Clean, LinksConverge
<1> QED BY <1>1, LinksAlways, PTL

\* Every rewrite leads where the clean URL leads, and a captured click follows a
\* clean link unless the page has written it since.
THEOREM RewritesLeadTrue == Spec => RewritesAreSound
  BY LinksAlways, LinksStep, PTL DEF Spec, RewritesAreSound

\* Whatever happened while MUGA was off, or before, opening the gate on the page of
\* an intermediary leaves its storage empty.
THEOREM OpeningAlwaysWipes == Spec => OpeningWipes
  BY LinksAlways, LinksStep, PTL DEF Spec, OpeningWipes

-----------------------------------------------------------------------------
(* The hover preview.                                                     *)


Question ==
    [link : Hover!Link, gen : Nat, pc : {"asked", "fetching", "refused", "answered"}]

\* The delay runs for the current link.  Questions are of this hover or an earlier
\* one, and one of this hover is about its link and was asked after the delay: this
\* is why the generation is enough of a check when the answer comes.
HoverInv ==
    /\ gen \in Nat
    /\ current \in Hover!Link \cup {Hover!None}
    /\ hoverTimer # Hover!None => hoverTimer = current
    /\ requests \subseteq Question
    /\ \A r \in requests :
        /\ r.gen <= gen
        /\ r.gen = gen => r.link = current /\ rested

\* The described link is the one shown, and what it had before was the page's.
DescribedInv ==
    /\ aria \in [Hover!Link -> {"page", "tip"}]
    /\ hoverShown.link \in Hover!Link \cup {Hover!None}
    /\ described.link = hoverShown.link
    /\ described.link # Hover!None => described.was = "page"
    /\ Hover!DescriptionsRestored

PreviewInv == HoverInv /\ Hover!TooltipIsEarned /\ DescribedInv

-----------------------------------------------------------------------------
LEMMA HoverInit == ASSUME Hover!None \notin Hover!Link, Hover!Init PROVE PreviewInv
  BY DEF Hover!Init, PreviewInv, HoverInv, DescribedInv, Hover!TooltipIsEarned, Hover!DescriptionsRestored, Hover!Hidden

\* Taking the tooltip off leaves no link described by it.
LEMMA AllRestored ==
    ASSUME Hover!None \notin Hover!Link, DescribedInv
    PROVE  Hover!Restored = [l \in Hover!Link |-> "page"]
<1> USE DEF DescribedInv, Hover!DescriptionsRestored, Hover!Restored
<1>1. CASE described.link = Hover!None
  <2>1. \A l \in Hover!Link : aria[l] = "page"
    BY <1>1
  <2> QED BY <1>1, <2>1
<1>2. CASE described.link # Hover!None
  <2>1. \A l \in Hover!Link : aria[l] = "tip" <=> l = described.link
    OBVIOUS
  <2>2. \A l \in Hover!Link : [aria EXCEPT ![described.link] = described.was][l] = "page"
    BY <1>2, <2>1
  <2> QED BY <1>2, <2>2
<1> QED BY <1>1, <1>2

LEMMA HideKeeps ==
    ASSUME Hover!None \notin Hover!Link, DescribedInv, Hover!Hide
    PROVE  DescribedInv' /\ Hover!TooltipIsEarned'
<1>1. aria' = [l \in Hover!Link |-> "page"]
  BY AllRestored DEF Hover!Hide
<1> QED
  BY <1>1 DEF Hover!Hide, Hover!Hidden, DescribedInv, Hover!DescriptionsRestored, Hover!TooltipIsEarned

LEMMA ShowKeeps ==
    ASSUME Hover!None \notin Hover!Link, DescribedInv, NEW l \in Hover!Link, NEW text, Hover!Show(l, text)
    PROVE  DescribedInv' /\ hoverShown'.link = l
<1>1. Hover!Was(l) = "page"
  BY AllRestored DEF Hover!Was, DescribedInv
<1>2. aria' = [[k \in Hover!Link |-> "page"] EXCEPT ![l] = "tip"]
  BY AllRestored DEF Hover!Show
<1>3. \A k \in Hover!Link : aria'[k] = "tip" <=> k = l
  BY <1>2
<1> QED
  BY <1>1, <1>2, <1>3 DEF Hover!Show, DescribedInv, Hover!DescriptionsRestored

\* A new hover outdates every question there is.
LEMMA NewHover ==
    ASSUME HoverInv, gen' = Hover!NextGen, requests' = requests,
           current' \in Hover!Link \cup {Hover!None}, hoverTimer' # Hover!None => hoverTimer' = current'
    PROVE  HoverInv'
  BY DEF HoverInv, Hover!NextGen, Question

\* A step that loses questions, at most, leaves the hover as it is.
LEMMA SameHover ==
    ASSUME HoverInv, UNCHANGED Hover!hover,
           requests' \subseteq Question,
           \A q \in requests' : \E r \in requests : q.gen = r.gen /\ q.link = r.link
    PROVE  HoverInv'
  BY DEF HoverInv, Hover!hover

LEMMA SameTooltip ==
    ASSUME Hover!TooltipIsEarned, DescribedInv, UNCHANGED <<Hover!hover, Hover!tooltip>>
    PROVE  Hover!TooltipIsEarned' /\ DescribedInv'
  BY DEF Hover!TooltipIsEarned, DescribedInv, Hover!DescriptionsRestored, Hover!hover, Hover!tooltip

\* Only the delay's end and an answer show anything, and both are of this hover.
LEMMA HoverNext == ASSUME Hover!None \notin Hover!Link, PreviewInv, [Hover!Next]_Hover!vars PROVE PreviewInv'
<1> USE DEF PreviewInv
<1>1. ASSUME NEW l \in Hover!Link, Hover!Enter(l) PROVE PreviewInv'
  <2>1. HoverInv'
    BY <1>1, NewHover DEF Hover!Enter
  <2> QED BY <1>1, <2>1, HideKeeps DEF Hover!Enter
<1>2. CASE Hover!Leave
  <2>1. HoverInv'
    BY <1>2, NewHover DEF Hover!Leave, Hover!Cleared
  <2> QED BY <1>2, <2>1, HideKeeps DEF Hover!Leave, Hover!Cleared
<1>3. CASE Hover!FireHover
  <2>1. hoverTimer \in Hover!Link /\ hoverTimer = current /\ current' = current /\ gen' = gen /\ rested'
    BY <1>3 DEF Hover!FireHover, HoverInv
  <2>2. HoverInv'
    <3>1. \A r \in requests' : r \in requests \/ (r.link = hoverTimer /\ r.gen = gen)
      BY <1>3 DEF Hover!FireHover
    <3>2. requests' \subseteq Question
      BY <1>3, <2>1 DEF Hover!FireHover, HoverInv, Question
    <3>3. hoverTimer' = Hover!None /\ gen' \in Nat /\ current' \in Hover!Link \cup {Hover!None}
      BY <1>3, <2>1 DEF Hover!FireHover, HoverInv
    <3>4. \A r \in requests' : r.gen <= gen'
      BY <2>1, <3>1 DEF HoverInv
    <3>5. \A r \in requests' : r.gen = gen' => r.link = current' /\ rested'
      BY <2>1, <3>1 DEF HoverInv
    <3> QED BY <3>2, <3>3, <3>4, <3>5 DEF HoverInv
  <2>3. CASE Hover!Show(hoverTimer, "clean")
    BY <2>1, <2>2, <2>3, ShowKeeps DEF Hover!TooltipIsEarned
  <2>4. CASE UNCHANGED Hover!tooltip
    BY <2>1, <2>2, <2>4
       DEF Hover!TooltipIsEarned, DescribedInv, Hover!DescriptionsRestored, Hover!tooltip
  <2> QED BY <1>3, <2>3, <2>4 DEF Hover!FireHover
<1>4. ASSUME NEW r \in requests, Hover!WorkerChecks(r) \/ Hover!WorkerAnswers(r) PROVE PreviewInv'
  <2>1. UNCHANGED <<Hover!hover, Hover!tooltip>>
    BY <1>4 DEF Hover!WorkerChecks, Hover!WorkerAnswers
  <2>2. PICK pc \in {"fetching", "refused", "answered"} : Hover!Becomes(r, pc)
    BY <1>4 DEF Hover!WorkerChecks, Hover!WorkerAnswers
  <2>3. /\ requests' \subseteq Question
        /\ \A q \in requests' : q \in requests \/ (q.gen = r.gen /\ q.link = r.link)
    <3>1. r \in Question
      BY DEF HoverInv
    <3>2. [r EXCEPT !.pc = pc] \in Question
          /\ [r EXCEPT !.pc = pc].gen = r.gen /\ [r EXCEPT !.pc = pc].link = r.link
      BY <3>1 DEF Question
    <3> QED BY <2>2, <3>2 DEF Hover!Becomes, HoverInv
  <2> QED BY <2>1, <2>3, SameHover, SameTooltip
<1>5. ASSUME NEW r \in requests, Hover!AnswerArrives(r) PROVE PreviewInv'
  <2>1. UNCHANGED Hover!hover /\ requests' \subseteq requests
    BY <1>5 DEF Hover!AnswerArrives
  <2>2. HoverInv'
    BY <2>1, SameHover DEF HoverInv
  <2>3. CASE Hover!StillWanted(r) /\ Hover!Show(r.link, "destination")
    <3>1. r.link \in Hover!Link /\ r.link = current /\ rested
      BY <2>3 DEF Hover!StillWanted, HoverInv, Question
    <3> QED BY <2>1, <2>2, <2>3, <3>1, ShowKeeps DEF Hover!TooltipIsEarned, Hover!hover
  <2>4. CASE UNCHANGED Hover!tooltip
    BY <2>1, <2>2, <2>4, SameTooltip
  <2> QED BY <1>5, <2>3, <2>4 DEF Hover!AnswerArrives
<1>6. ASSUME NEW r \in requests, Hover!GivesUp(r) PROVE PreviewInv'
  <2>1. UNCHANGED <<Hover!hover, Hover!tooltip>> /\ requests' \subseteq requests
    BY <1>6 DEF Hover!GivesUp
  <2> QED BY <2>1, SameHover, SameTooltip DEF HoverInv
<1>7. CASE Hover!Change \/ Hover!Loaded \/ UNCHANGED Hover!vars
  <2>1. UNCHANGED <<Hover!hover, Hover!tooltip, requests>>
    BY <1>7 DEF Hover!Change, Hover!Loaded, Hover!vars
  <2> QED BY <2>1, SameHover, SameTooltip DEF HoverInv
<1> QED
  BY <1>1, <1>2, <1>3, <1>4, <1>5, <1>6, <1>7 DEF Hover!Next

\* A tooltip is about the link under the pointer, which rested there for the whole
\* delay: no answer of an earlier hover shows, on whichever link it was.  And
\* whichever event ends a preview, and whatever link it moves to, every other link
\* has the description the page gave it.
THEOREM PreviewIsHonest == RunSpec => []PreviewHonest
<1>1. Hover!None \notin Hover!Link
  BY PageAssumption DEF Hover!None, Hover!Link
<1>2. RunInit => PreviewInv
  BY <1>1, HoverInit DEF RunInit
<1>3. [RunNext]_allVars => [Hover!Next]_Hover!vars
  BY DEF RunNext, allVars, hoverVars, Hover!vars, Hover!settings, Hover!hover,
     Hover!tooltip, Hover!bounds
<1>4. PreviewInv /\ [Hover!Next]_Hover!vars => PreviewInv'
  BY <1>1, HoverNext
<1>5. PreviewInv => PreviewHonest
  BY DEF PreviewInv, DescribedInv, PreviewHonest, Hover!PreviewHonest
<1> QED BY <1>2, <1>3, <1>4, <1>5, PTL DEF RunSpec

-----------------------------------------------------------------------------
(* The scripts of a tab.                                                   *)

Reply == [who : {"content", "gate"}, version : Int]

\* No gate's answer comes after the i-th.
LastGate(q, i) == q[i].who = "gate" /\ \A j \in 1..Len(q) : i < j => q[j].who # "gate"

\* A question the gate has not asked since it last heard of a change has an answer
\* that is no older than that change.
GateInv ==
    /\ told \in Nat /\ tabHeard \in Nat /\ tabStored \in Nat
    /\ told <= tabHeard /\ tabHeard <= tabStored
    /\ areas \in Seq({"sync", "local"}) /\ tabStored = Len(areas)
    /\ asks \subseteq {"content", "gate"} /\ replies \in Seq(Reply)
    /\ "gate" \notin asks =>
        /\ \A i \in 1..Len(replies) : LastGate(replies, i) =>
              replies[i].version = Tab!None \/ replies[i].version \in told..tabStored
        /\ (\A i \in 1..Len(replies) : replies[i].who # "gate") =>
              gateFailed \/ \E v \in told..tabStored : tabGate = Tab!Enabled(v)

LEMMA GateInit == Tab!Init => GateInv
<1> SUFFICES ASSUME Tab!Init PROVE GateInv
  OBVIOUS
<1> QED
  BY DEF Tab!Init, GateInv

\* The change a tab hears of next is of one area or the other, so the gate asks.
LEMMA HearingAsks ==
  ASSUME GateInv, Tab!TabHears
  PROVE  asks' = asks \cup {"gate"}
<1>1. told' = told + 1 /\ told' \in 1..Len(areas)
  BY DEF Tab!TabHears, GateInv
<1>2. areas[told'] \in {"sync", "local"}
  BY <1>1 DEF GateInv
<1> QED
  BY <1>2 DEF Tab!TabHears, Tab!MovesGate

LEMMA GateNext == GateInv /\ [Tab!Next]_Tab!vars => GateInv'
<1> SUFFICES ASSUME GateInv, [Tab!Next]_Tab!vars PROVE GateInv'
  OBVIOUS
<1>0. /\ told \in Nat /\ tabHeard \in Nat /\ tabStored \in Nat
      /\ told <= tabHeard /\ tabHeard <= tabStored
      /\ areas \in Seq({"sync", "local"}) /\ tabStored = Len(areas)
      /\ asks \subseteq {"content", "gate"} /\ replies \in Seq(Reply)
  BY DEF GateInv
<1>1. CASE Tab!Change
  <2>1. /\ tabStored' = tabStored + 1
        /\ UNCHANGED <<tabHeard, told, asks, replies, tabGate, gateFailed>>
    BY <1>1 DEF Tab!Change
  <2>2. areas' \in Seq({"sync", "local"}) /\ Len(areas') = Len(areas) + 1
    BY <1>0, <1>1 DEF Tab!Change
  <2>3. told..tabStored \subseteq told..tabStored'
    BY <1>0, <2>1
  <2> QED
    BY <1>0, <2>1, <2>2, <2>3 DEF GateInv, LastGate
<1>2. CASE Tab!WorkerHears
  <2>1. /\ tabHeard' = tabHeard + 1 /\ tabHeard < tabStored
        /\ UNCHANGED <<tabStored, areas, told, asks, replies, tabGate, gateFailed>>
    BY <1>2 DEF Tab!WorkerHears
  <2> QED
    BY <1>0, <2>1 DEF GateInv, LastGate
<1>3. CASE Tab!TabHears
  <2>1. /\ told' = told + 1 /\ told < tabHeard
        /\ UNCHANGED <<tabStored, areas, tabHeard, replies>>
    BY <1>3 DEF Tab!TabHears
  <2>2. asks' = asks \cup {"gate"}
    BY <1>3, HearingAsks
  <2> QED
    BY <1>0, <2>1, <2>2 DEF GateInv
<1>4. CASE Tab!Answer
  <2>1. /\ UNCHANGED <<tabStored, areas, tabHeard, told, tabGate, gateFailed>>
        /\ \E who \in asks, version \in (tabHeard..tabStored) \cup {Tab!None} :
              /\ asks' = asks \ {who}
              /\ replies' = Append(replies, [who |-> who, version |-> version])
    BY <1>4 DEF Tab!Answer
  <2>2. PICK who \in asks, version \in (tabHeard..tabStored) \cup {Tab!None} :
              /\ asks' = asks \ {who}
              /\ replies' = Append(replies, [who |-> who, version |-> version])
    BY <2>1
  <2> DEFINE reply == [who |-> who, version |-> version]
  <2>3. /\ reply \in Reply /\ reply.who = who /\ reply.version = version
        /\ who = "gate" => version = Tab!None \/ version \in told..tabStored
    BY <1>0 DEF Reply, Tab!None
  <2> HIDE DEF reply
  <2>4. /\ replies' \in Seq(Reply) /\ Len(replies') = Len(replies) + 1
        /\ replies'[Len(replies) + 1] = reply
        /\ \A i \in 1..Len(replies) : replies'[i] = replies[i]
    BY <1>0, <2>2, <2>3 DEF reply
  <2>5. CASE who = "gate"
    <3>1. \A i \in 1..Len(replies') : LastGate(replies', i) => i = Len(replies) + 1
      BY <1>0, <2>3, <2>4, <2>5 DEF LastGate
    <3>2. replies'[Len(replies) + 1].who = "gate"
      BY <2>3, <2>4, <2>5
    <3>3. Len(replies) + 1 \in 1..Len(replies')
      BY <1>0, <2>4
    <3> QED
      BY <1>0, <2>1, <2>2, <2>3, <2>4, <2>5, <3>1, <3>2, <3>3 DEF GateInv
  <2>6. CASE who # "gate"
    <3>1. \A i \in 1..Len(replies') : replies'[i].who = "gate" => i \in 1..Len(replies)
      BY <1>0, <2>3, <2>4, <2>6
    <3>2. \A i \in 1..Len(replies') : LastGate(replies', i) =>
             i \in 1..Len(replies) /\ LastGate(replies, i)
      BY <1>0, <2>4, <3>1 DEF LastGate
    <3>3. 1..Len(replies) \subseteq 1..Len(replies')
      BY <1>0, <2>4
    <3>4. ("gate" \in asks) <=> ("gate" \in asks')
      BY <2>2, <2>6
    <3> QED
      BY <1>0, <2>1, <2>2, <2>4, <3>2, <3>3, <3>4 DEF GateInv
  <2> QED BY <2>5, <2>6
<1>5. CASE Tab!Deliver
  <2>1. /\ UNCHANGED <<tabStored, areas, tabHeard, told, asks>>
        /\ replies # <<>> /\ replies' = Tail(replies)
        /\ \/ Head(replies).who = "content" /\ UNCHANGED <<tabGate, gateFailed>>
           \/ /\ Head(replies).who # "content"
              /\ tabGate' = Tab!Enabled(Head(replies).version)
              /\ gateFailed' = (Head(replies).version = Tab!None)
    BY <1>5, Zenon DEF Tab!Deliver
  <2>2. /\ replies' \in Seq(Reply) /\ Len(replies') = Len(replies) - 1
        /\ Len(replies) \in Nat \ {0} /\ Head(replies) = replies[1]
        /\ \A i \in 1..Len(replies') : replies'[i] = replies[i + 1]
    BY <1>0, <2>1
  <2>3. \A i \in 1..Len(replies') : LastGate(replies', i) => LastGate(replies, i + 1)
    <3> SUFFICES ASSUME NEW i \in 1..Len(replies'), LastGate(replies', i),
                        NEW j \in 1..Len(replies), i + 1 < j
                 PROVE  replies[i + 1].who = "gate" /\ replies[j].who # "gate"
      BY <2>2 DEF LastGate
    <3>1. j - 1 \in 1..Len(replies') /\ i < j - 1 /\ replies'[j - 1] = replies[j]
      BY <2>2
    <3> QED BY <2>2, <3>1 DEF LastGate
  <2>4. \A i \in 1..Len(replies') : i + 1 \in 1..Len(replies)
    BY <2>2
  <2>5. ASSUME "gate" \notin asks, \A i \in 1..Len(replies') : replies'[i].who # "gate"
        PROVE  gateFailed' \/ \E v \in told..tabStored : tabGate' = Tab!Enabled(v)
    <3>1. \A i \in 1..Len(replies) : 1 < i => replies[i].who # "gate"
      <4> SUFFICES ASSUME NEW i \in 1..Len(replies), 1 < i PROVE replies[i].who # "gate"
        OBVIOUS
      <4>1. i - 1 \in 1..Len(replies') /\ replies'[i - 1] = replies[i]
        BY <2>2
      <4> QED BY <2>5, <4>1
    <3>2. 1 \in 1..Len(replies) /\ replies[1] \in Reply
      BY <1>0, <2>2
    <3>3. CASE replies[1].who = "content"
      <4>1. \A i \in 1..Len(replies) : replies[i].who # "gate"
        BY <2>2, <3>1, <3>3
      <4> QED BY <2>1, <2>2, <2>5, <3>3, <4>1 DEF GateInv
    <3>4. CASE replies[1].who = "gate"
      <4>1. LastGate(replies, 1)
        BY <2>2, <3>1, <3>4 DEF LastGate
      <4>2. replies[1].version = Tab!None \/ replies[1].version \in told..tabStored
        BY <2>5, <3>2, <4>1 DEF GateInv
      <4> QED BY <2>1, <2>2, <3>4, <4>2
    <3> QED BY <3>2, <3>3, <3>4 DEF Reply
  <2> QED
    BY <1>0, <2>1, <2>2, <2>3, <2>4, <2>5 DEF GateInv
<1>6. CASE Tab!PushState \/ Tab!Traverse \/ Tab!WindowEnds \/ UNCHANGED Tab!vars
  <2>1. UNCHANGED <<tabStored, areas, tabHeard, told, asks, replies, tabGate, gateFailed>>
    BY <1>6 DEF Tab!PushState, Tab!Traverse, Tab!Navigates, Tab!WindowEnds, Tab!vars, Tab!channel
  <2> QED
    BY <2>1 DEF GateInv, LastGate
<1> QED
  BY <1>1, <1>2, <1>3, <1>4, <1>5, <1>6 DEF Tab!Next

LEMMA TabOfRun == [RunNext]_allVars => [Tab!Next]_Tab!vars
  BY DEF RunNext, allVars, tabVars, Tab!vars, Tab!channel, Tab!page

\* However the answers and the changes cross, for any number of changes, lost
\* answers and navigations, the gate of a tab that has heard of every change and been
\* answered is what the stored preferences say (readPrefsAndGate): an answer asked
\* for after the last change tells of it.
THEOREM GateAgrees == RunSpec => []GateConverges
<1>1. RunInit => GateInv
  BY GateInit DEF RunInit
<1>2. GateInv => GateConverges
  <2> SUFFICES ASSUME GateInv, told = tabStored, ~Tab!Answering("gate"), ~gateFailed
               PROVE  tabGate = Tab!Enabled(tabStored)
    BY DEF GateConverges, Tab!GateConverges
  <2>1. "gate" \notin asks /\ \A i \in 1..Len(replies) : replies[i].who # "gate"
    BY DEF GateInv, Tab!Answering
  <2>2. PICK v \in told..tabStored : tabGate = Tab!Enabled(v)
    BY <2>1 DEF GateInv
  <2>3. v = tabStored
    BY <2>2 DEF GateInv
  <2> QED BY <2>2, <2>3
<1> QED BY <1>1, <1>2, GateNext, TabOfRun, PTL DEF RunSpec

-----------------------------------------------------------------------------
(* __mugaReclean.                                                          *)

\* The last target is a clean URL, so the check against it lets no dirty URL
\* through; and a URL is rewritten no more often than it is logged.
RecleanInv ==
    /\ location \in Tab!URLs
    /\ last # <<>> => last[1] \in Tab!URLs /\ Tab!IsClean(last[1])
    /\ log \in [Tab!URLs -> Nat] /\ rewrites \in [Tab!URLs -> Nat]
    /\ \A url \in Tab!URLs : rewrites[url] <= log[url] /\ rewrites[url] <= LoopCap
    /\ seen => Tab!IsClean(location)

\* What the pipeline makes of a URL is clean.
LEMMA PipelineCleans ==
  ASSUME NEW url \in Tab!URLs
  PROVE  /\ Tab!Pipeline(url) \in Tab!URLs /\ Tab!IsClean(Tab!Pipeline(url))
  BY DEF Tab!URLs, Tab!Pipeline, Tab!IsClean

LEMMA RecleanKeeps ==
  ASSUME RecleanInv, NEW url \in Tab!URLs, NEW version, Tab!Reclean(url, version),
         seen' = Tab!Allowed(url, version)
  PROVE  RecleanInv'
<1>0. /\ LoopCap \in Nat /\ log \in [Tab!URLs -> Nat] /\ rewrites \in [Tab!URLs -> Nat]
      /\ \A u \in Tab!URLs : rewrites[u] <= log[u] /\ rewrites[u] <= LoopCap
  BY PageAssumption DEF RecleanInv
<1>1. CASE ~Tab!Enabled(version)
  <2>1. location' = url /\ UNCHANGED <<last, log, rewrites>> /\ ~seen'
    BY <1>1, Zenon DEF Tab!Reclean, Tab!Allowed
  <2> QED BY <2>1 DEF RecleanInv
<1>2. CASE Tab!Enabled(version) /\ last = <<url>>
  <2>1. location' = url /\ UNCHANGED <<last, log, rewrites>>
    BY <1>2, Zenon DEF Tab!Reclean
  <2>2. Tab!IsClean(url)
    BY <1>2 DEF RecleanInv
  <2> QED BY <2>1, <2>2 DEF RecleanInv, Tab!IsClean
<1>3. CASE Tab!Enabled(version) /\ last # <<url>>
  <2>1. log' = [log EXCEPT ![url] = @ + 1]
    BY <1>3, Zenon DEF Tab!Reclean
  <2>2. log' \in [Tab!URLs -> Nat] /\ log'[url] = log[url] + 1
        /\ \A u \in Tab!URLs : log[u] <= log'[u]
    BY <1>0, <2>1
  <2>3. CASE Tab!Loops(log'[url]) \/ Tab!NothingToRewrite(url, Tab!Pipeline(url))
    <3>1. location' = url /\ UNCHANGED <<last, rewrites>>
      BY <1>3, <2>3, Zenon DEF Tab!Reclean
    <3>2. seen' => url = Tab!Pipeline(url)
      <4>1. seen' => log'[url] <= LoopCap
        BY Zenon DEF Tab!Allowed
      <4>2. ~(log'[url] <= LoopCap /\ log'[url] > LoopCap)
        BY <1>0, <2>2
      <4> QED BY <2>3, <4>1, <4>2, Zenon DEF Tab!Loops, Tab!NothingToRewrite
    <3>3. seen' => Tab!IsClean(url)
      BY <3>2, PipelineCleans
    <3>4. \A u \in Tab!URLs : rewrites[u] <= log'[u]
      BY <1>0, <2>2
    <3> QED BY <1>0, <2>2, <3>1, <3>3, <3>4 DEF RecleanInv, Tab!IsClean
  <2>4. CASE ~(Tab!Loops(log'[url]) \/ Tab!NothingToRewrite(url, Tab!Pipeline(url)))
    <3>1. /\ location' = Tab!Pipeline(url) /\ last' = <<Tab!Pipeline(url)>>
          /\ rewrites' = [rewrites EXCEPT ![url] = @ + 1]
      BY <1>3, <2>4, Zenon DEF Tab!Reclean
    <3>2. log'[url] <= LoopCap
      BY <1>0, <2>2, <2>4 DEF Tab!Loops
    <3>3. rewrites' \in [Tab!URLs -> Nat] /\ rewrites'[url] = rewrites[url] + 1
          /\ \A u \in Tab!URLs : u # url => rewrites'[u] = rewrites[u]
      BY <1>0, <3>1
    <3>4. \A u \in Tab!URLs : rewrites'[u] <= log'[u] /\ rewrites'[u] <= LoopCap
      <4>1. rewrites'[url] <= log'[url] /\ rewrites'[url] <= LoopCap
        BY <1>0, <2>2, <3>2, <3>3
      <4>2. ASSUME NEW u \in Tab!URLs, u # url
            PROVE  rewrites'[u] <= log'[u] /\ rewrites'[u] <= LoopCap
        BY <1>0, <2>2, <3>3, <4>2
      <4> QED BY <4>1, <4>2
    <3>5. /\ location' \in Tab!URLs /\ last' # <<>> /\ last'[1] = location'
          /\ Tab!IsClean(location')
      BY <3>1, PipelineCleans
    <3> QED BY <2>2, <3>3, <3>4, <3>5 DEF RecleanInv, Tab!IsClean
  <2> QED BY <2>3, <2>4
<1> QED BY <1>1, <1>2, <1>3

LEMMA RecleanInit == Tab!Init => RecleanInv
<1> SUFFICES ASSUME Tab!Init PROVE RecleanInv
  OBVIOUS
<1>1. /\ location \in Tab!URLs /\ last = <<>> /\ ~seen
      /\ log = [u \in Tab!URLs |-> 0] /\ rewrites = [u \in Tab!URLs |-> 0]
  BY DEF Tab!Init
<1> QED BY <1>1, PageAssumption DEF RecleanInv

LEMMA RecleanNext == RecleanInv /\ [Tab!Next]_Tab!vars => RecleanInv'
<1> SUFFICES ASSUME RecleanInv, [Tab!Next]_Tab!vars PROVE RecleanInv'
  OBVIOUS
<1>1. CASE UNCHANGED Tab!page
  BY <1>1 DEF Tab!page, RecleanInv, Tab!IsClean
<1>2. CASE Tab!Change \/ Tab!WorkerHears \/ Tab!TabHears \/ Tab!Answer \/ UNCHANGED Tab!vars
  BY <1>1, <1>2, Zenon DEF Tab!Change, Tab!WorkerHears, Tab!TabHears, Tab!Answer, Tab!vars
<1>3. CASE Tab!Deliver
  <2>1. \/ UNCHANGED Tab!page
        \/ /\ Tab!Reclean(location, Head(replies).version)
           /\ seen' = Tab!Allowed(location, Head(replies).version)
    BY <1>3, Zenon DEF Tab!Deliver
  <2>2. location \in Tab!URLs
    BY DEF RecleanInv
  <2> QED BY <1>1, <2>1, <2>2, RecleanKeeps
<1>4. ASSUME NEW url \in Tab!URLs, NEW recleaned, Tab!Navigates(url, recleaned)
      PROVE  RecleanInv'
  <2>1. CASE recleaned
    <3>1. Tab!Reclean(url, tabPrefs) /\ (seen' <=> Tab!Allowed(url, tabPrefs))
      BY <1>4, <2>1, Zenon DEF Tab!Navigates
    <3>2. Tab!Allowed(url, tabPrefs) \in BOOLEAN /\ seen' \in BOOLEAN
      BY <1>4, Zenon DEF Tab!Navigates, Tab!Allowed
    <3>3. seen' = Tab!Allowed(url, tabPrefs)
      BY <3>1, <3>2, Zenon
    <3> QED BY <3>1, <3>3, RecleanKeeps
  <2>2. CASE ~recleaned
    <3>1. location' = url /\ UNCHANGED <<last, log, rewrites>> /\ ~seen'
      BY <1>4, <2>2, Zenon DEF Tab!Navigates
    <3> QED BY <3>1 DEF RecleanInv
  <2> QED BY <2>1, <2>2
<1>5. CASE Tab!PushState
  <2>1. PICK url \in Tab!URLs :
          Tab!Navigates(IF tabGate /\ ~firefox THEN [url EXCEPT !.hot = FALSE] ELSE url, tabGate)
    BY <1>5, Zenon DEF Tab!PushState
  <2>2. [url EXCEPT !.hot = FALSE] \in Tab!URLs
    BY DEF Tab!URLs
  <2> QED BY <1>4, <2>1, <2>2
<1>6. CASE Tab!Traverse
  BY <1>4, <1>6 DEF Tab!Traverse
<1>7. CASE Tab!WindowEnds
  <2>1. PICK url \in Tab!URLs : /\ log' = [log EXCEPT ![url] = 0]
                               /\ rewrites' = [rewrites EXCEPT ![url] = 0]
    BY <1>7 DEF Tab!WindowEnds
  <2>2. UNCHANGED <<location, last, seen>>
    BY <1>7 DEF Tab!WindowEnds
  <2>3. /\ log' \in [Tab!URLs -> Nat] /\ rewrites' \in [Tab!URLs -> Nat]
        /\ \A u \in Tab!URLs : rewrites'[u] <= log'[u] /\ rewrites'[u] <= LoopCap
    BY <2>1, PageAssumption DEF RecleanInv
  <2> QED BY <2>2, <2>3 DEF RecleanInv, Tab!IsClean
<1> QED
  BY <1>2, <1>3, <1>5, <1>6, <1>7 DEF Tab!Next

\* Whatever __mugaReclean was called for is clean when it returns, two dirty URLs
\* that clean to one included, unless the loop cap let it be; and a page that puts a
\* parameter back is rewritten LoopCap times in a window at most (isRecleanLoop),
\* for any number of routes, navigations and changes of the preferences.
THEOREM RecleanIsSound == RunSpec => []RecleanSettles
<1>1. RunInit => RecleanInv
  BY RecleanInit DEF RunInit
<1>2. RecleanInv => RecleanSettles
  BY DEF RecleanInv, RecleanSettles, Tab!SeenEndsClean, Tab!RewritesBounded
<1> QED BY <1>1, <1>2, RecleanNext, TabOfRun, PTL DEF RunSpec

-----------------------------------------------------------------------------
(* The active days.                                                        *)

Counting == [pc : {"idle", "reading", "writing"}, day : Nat, seen : Nat, seenDay : Int]

\* The last day counted is the latest, and each run writes either a count it alone
\* moves, or one that the other context has meanwhile written for this day.
DaysAgree ==
    /\ count = Cardinality(nudgeCounted)
    /\ \/ nudgeCounted = {} /\ lastDay = Nudge!None
       \/ lastDay \in nudgeCounted /\ \A d \in nudgeCounted : d <= lastDay
    /\ \A c \in Nudge!Context : run[c].pc # "idle" => run[c].day = day
    /\ \A c \in Nudge!Context : run[c].pc = "writing" =>
          \/ run[c].seen = count /\ run[c].seenDay = lastDay
          \/ run[c].seenDay # day /\ lastDay = day /\ count = run[c].seen + 1

DaysInv ==
    /\ day \in Nat /\ count \in Nat /\ lastDay \in Nat \cup {Nudge!None}
    /\ run \in [Nudge!Context -> Counting]
    /\ nudgeCounted \subseteq 0..day /\ \A c \in Nudge!Context : run[c].day <= day
    /\ faulted \in BOOLEAN /\ straddled \in BOOLEAN
    /\ ~straddled /\ ~faulted => DaysAgree

LEMMA DaysFinite == ASSUME DaysInv PROVE IsFiniteSet(nudgeCounted)
<1>1. day \in Nat /\ nudgeCounted \subseteq 0..day
  BY DEF DaysInv
<1>2. IsFiniteSet(0..day)
  BY <1>1, FS_Interval
<1> QED BY <1>1, <1>2, FS_Subset

LEMMA DaysInit == Nudge!Init => DaysInv
<1> SUFFICES ASSUME Nudge!Init PROVE DaysInv
  OBVIOUS
<1>1. /\ day = 0 /\ count = 0 /\ lastDay = Nudge!None /\ nudgeCounted = {}
      /\ run = [c \in Nudge!Context |-> Nudge!Idle] /\ ~straddled /\ ~faulted
      /\ straddled \in BOOLEAN /\ faulted \in BOOLEAN
  BY DEF Nudge!Init
<1>2. Nudge!Idle \in Counting /\ Nudge!Idle.pc = "idle"
        /\ Nudge!Idle.day = 0
  BY DEF Nudge!Idle, Nudge!None, Counting
<1>3. Cardinality({}) = 0
  BY FS_EmptySet
<1> QED BY <1>1, <1>2, <1>3 DEF DaysInv, DaysAgree

\* Runs may begin or be given up.
LEMMA RunsTurn ==
  ASSUME DaysInv, UNCHANGED <<count, lastDay, nudgeCounted>>,
         faulted' \in BOOLEAN, straddled' \in BOOLEAN,
         faulted => faulted', straddled => straddled',
         day' = day, run' \in [Nudge!Context -> Counting],
         \A c \in Nudge!Context :
            \/ run'[c].pc = "idle" /\ run'[c].day = 0
            \/ run'[c].pc = "reading" /\ run'[c].day = day'
            \/ run'[c] = run[c]
  PROVE  DaysInv'
<1>1. nudgeCounted' \subseteq 0..day'
  BY DEF DaysInv
<1>2. ASSUME ~straddled', ~faulted'
      PROVE  DaysAgree'
  BY <1>2 DEF DaysInv, DaysAgree
<1>3. \A c \in Nudge!Context : run'[c].day <= day'
  BY DEF DaysInv
<1> QED BY <1>1, <1>2, <1>3 DEF DaysInv

LEMMA DaysNext == DaysInv /\ [Nudge!Next]_Nudge!vars => DaysInv'
<1> SUFFICES ASSUME DaysInv, [Nudge!Next]_Nudge!vars PROVE DaysInv'
  OBVIOUS
<1>0. /\ day \in Nat /\ count \in Nat /\ lastDay \in Nat \cup {Nudge!None}
      /\ run \in [Nudge!Context -> Counting] /\ nudgeCounted \subseteq 0..day
      /\ \A c \in Nudge!Context : run[c].day <= day
      /\ faulted \in BOOLEAN /\ straddled \in BOOLEAN
      /\ IsFiniteSet(nudgeCounted)
  BY DaysFinite DEF DaysInv
<1>1. /\ Nudge!Idle \in Counting /\ Nudge!Idle.pc = "idle"
      /\ [Nudge!Idle EXCEPT !.pc = "reading", !.day = day] \in Counting
      /\ [Nudge!Idle EXCEPT !.pc = "reading", !.day = day].pc = "reading"
      /\ [Nudge!Idle EXCEPT !.pc = "reading", !.day = day].day = day
      /\ Nudge!Idle.day = 0
  <2>1. Nudge!Idle \in Counting /\ Nudge!Idle.pc = "idle" /\ Nudge!Idle.day = 0
    BY DEF Nudge!Idle, Nudge!None, Counting
  <2>2. ASSUME NEW r \in Counting
        PROVE  /\ [r EXCEPT !.pc = "reading", !.day = day] \in Counting
               /\ [r EXCEPT !.pc = "reading", !.day = day].pc = "reading"
               /\ [r EXCEPT !.pc = "reading", !.day = day].day = day
    BY <1>0 DEF Counting
  <2> QED BY <2>1, <2>2
<1>2. ASSUME NEW c \in Nudge!Context, Nudge!Record(c)
      PROVE  /\ run' \in [Nudge!Context -> Counting]
             /\ \A d \in Nudge!Context :
                  (run'[d].pc = "reading" /\ run'[d].day = day) \/ run'[d] = run[d]
  <2>1. run' = run \/ run' = [run EXCEPT ![c] = [Nudge!Idle EXCEPT !.pc = "reading", !.day = day]]
    BY <1>2, Zenon DEF Nudge!Record
  <2> DEFINE fresh == [Nudge!Idle EXCEPT !.pc = "reading", !.day = day]
  <2>2. fresh \in Counting /\ fresh.pc = "reading" /\ fresh.day = day
    BY <1>1
  <2> HIDE DEF fresh
  <2>3. run' = run \/ run' = [run EXCEPT ![c] = fresh]
    BY <2>1 DEF fresh
  <2> QED BY <1>0, <2>2, <2>3
<1>3. CASE Nudge!Decide \/ Nudge!Open
  <2>1. /\ UNCHANGED <<count, lastDay, nudgeCounted, faulted, straddled, day>>
        /\ Nudge!Record("worker") \/ Nudge!Record("popup")
    BY <1>3, Zenon DEF Nudge!Decide, Nudge!Open, Nudge!stored
  <2>2. "worker" \in Nudge!Context /\ "popup" \in Nudge!Context
    BY DEF Nudge!Context
  <2> QED BY <1>0, <1>2, <2>1, <2>2, RunsTurn
<1>4. CASE Nudge!Counts \/ UNCHANGED Nudge!vars
  <2>1. UNCHANGED <<count, lastDay, nudgeCounted, faulted, straddled, day, run>>
    BY <1>4, Zenon DEF Nudge!Counts, Nudge!vars, Nudge!stored
  <2> QED BY <1>0, <2>1, RunsTurn
<1>5. CASE Nudge!Show
  <2>1. UNCHANGED <<count, lastDay, nudgeCounted, straddled, day, run>>
    BY <1>5, Zenon DEF Nudge!Show
  <2>2. faulted' = faulted \/ faulted' = TRUE
    BY <1>5, Zenon DEF Nudge!Show
  <2>3. faulted' \in BOOLEAN /\ (faulted => faulted')
    BY <1>0, <2>2, Zenon
  <2> QED BY <1>0, <2>1, <2>3, RunsTurn
<1>6. CASE Nudge!Close
  <2>1. /\ UNCHANGED <<count, lastDay, nudgeCounted, faulted, straddled, day>>
        /\ run' = [run EXCEPT !["popup"] = Nudge!Idle]
    BY <1>6, Zenon DEF Nudge!Close, Nudge!stored
  <2>2. /\ run' \in [Nudge!Context -> Counting]
        /\ \A c \in Nudge!Context : (run'[c].pc = "idle" /\ run'[c].day = 0) \/ run'[c] = run[c]
    BY <1>0, <1>1, <2>1
  <2> QED BY <1>0, <2>1, <2>2, RunsTurn
<1>7. CASE Nudge!NewSession
  <2>1. /\ UNCHANGED <<count, lastDay, nudgeCounted, faulted, straddled, day>>
        /\ run' = [c \in Nudge!Context |-> Nudge!Idle]
    BY <1>7, Zenon DEF Nudge!NewSession, Nudge!stored
  <2>2. /\ run' \in [Nudge!Context -> Counting]
        /\ \A c \in Nudge!Context : run'[c].pc = "idle" /\ run'[c].day = 0
    BY <1>1, <2>1
  <2> QED BY <1>0, <2>1, <2>2, RunsTurn
<1>8. CASE Nudge!Midnight
  <2>1. /\ UNCHANGED <<count, lastDay, nudgeCounted, faulted, run>> /\ day' = day + 1
        /\ straddled' = (straddled \/ \E c \in Nudge!Context : run[c].pc # "idle")
    BY <1>8 DEF Nudge!Midnight, Nudge!stored
  <2>2. /\ straddled' \in BOOLEAN /\ (straddled => straddled')
        /\ \A c \in Nudge!Context : run[c].pc = "idle" \/ straddled'
    BY <2>1, Zenon
  <2>3. ASSUME ~straddled', ~faulted'
        PROVE  DaysAgree'
    <3>1. \A c \in Nudge!Context : run'[c].pc = "idle"
      BY <2>1, <2>2, <2>3
    <3> QED BY <2>1, <2>2, <2>3, <3>1 DEF DaysInv, DaysAgree
  <2>4. /\ day' \in Nat /\ nudgeCounted' \subseteq 0..day'
        /\ \A c \in Nudge!Context : run'[c].day <= day'
    BY <1>0, <2>1 DEF Counting
  <2> QED BY <1>0, <2>1, <2>2, <2>3, <2>4 DEF DaysInv
<1>9. ASSUME NEW c \in Nudge!Context, Nudge!RecordReads(c)
      PROVE  DaysInv'
  <2>1. UNCHANGED <<count, lastDay, nudgeCounted, faulted, straddled, day>>
    BY <1>9, Zenon DEF Nudge!RecordReads, Nudge!stored
  <2>2. CASE run' = [run EXCEPT ![c] = Nudge!Idle]
    <3>1. /\ run' \in [Nudge!Context -> Counting]
          /\ \A d \in Nudge!Context : (run'[d].pc = "idle" /\ run'[d].day = 0) \/ run'[d] = run[d]
      BY <1>0, <1>1, <2>2
    <3> QED BY <1>0, <2>1, <3>1, RunsTurn
  <2>3. CASE run' = [run EXCEPT ![c].pc = "writing", ![c].seen = count, ![c].seenDay = lastDay]
    <3>1. /\ run' \in [Nudge!Context -> Counting]
          /\ run'[c].pc = "writing" /\ run'[c].seen = count /\ run'[c].seenDay = lastDay
          /\ run'[c].day = run[c].day
          /\ \A d \in Nudge!Context : d # c => run'[d] = run[d]
      <4> DEFINE w == [run[c] EXCEPT !.pc = "writing", !.seen = count, !.seenDay = lastDay]
      <4>1. run' = [run EXCEPT ![c] = w]
        BY <1>0, <2>3
      <4>2. run[c] \in Counting /\ lastDay \in Int
        BY <1>0 DEF Nudge!None
      <4>3. w \in Counting /\ w.pc = "writing" /\ w.seen = count /\ w.seenDay = lastDay
            /\ w.day = run[c].day
        BY <1>0, <4>2 DEF Counting
      <4> HIDE DEF w
      <4> QED BY <1>0, <4>1, <4>3
    <3>2. run[c].pc # "idle"
      BY <1>9 DEF Nudge!RecordReads
    <3>3. DaysAgree => DaysAgree'
      BY <1>0, <2>1, <3>1, <3>2 DEF DaysAgree
    <3> QED BY <1>0, <2>1, <3>1, <3>3 DEF DaysInv
  <2> QED BY <1>9, <2>2, <2>3, Zenon DEF Nudge!RecordReads
<1>10. ASSUME NEW c \in Nudge!Context, Nudge!RecordWrites(c)
       PROVE  DaysInv'
  <2>1. /\ UNCHANGED <<straddled, day>> /\ run[c].pc = "writing"
        /\ run' = [run EXCEPT ![c] = Nudge!Idle]
    BY <1>10, Zenon DEF Nudge!RecordWrites
  <2>2. /\ run' \in [Nudge!Context -> Counting]
        /\ run'[c].pc = "idle" /\ \A d \in Nudge!Context : d # c => run'[d] = run[d]
        /\ \A d \in Nudge!Context : run'[d].day <= day
    BY <1>0, <1>1, <2>1
  <2>3. CASE faulted' /\ UNCHANGED <<count, lastDay, nudgeCounted>> /\ faulted' = TRUE
    BY <1>0, <2>1, <2>2, <2>3 DEF DaysInv
  <2>4. CASE /\ IF run[c].seenDay = run[c].day THEN UNCHANGED <<count, lastDay>>
                ELSE count' = Nudge!Planned(run[c].seen) /\ lastDay' = run[c].day
             /\ nudgeCounted' = nudgeCounted \cup {run[c].day}
             /\ faulted' = faulted
    <3>1. run[c].day \in Nat /\ run[c].seen \in Nat
      BY <1>0 DEF Counting
    <3>2. ASSUME ~straddled, ~faulted
          PROVE  DaysAgree'
      <4>0. DaysAgree /\ run[c].day = day
        BY <2>1, <3>2 DEF DaysInv, DaysAgree
      <4>1. /\ Cardinality(nudgeCounted \cup {day}) =
                 IF day \in nudgeCounted THEN Cardinality(nudgeCounted)
                 ELSE Cardinality(nudgeCounted) + 1
        BY <1>0, FS_AddElement
      <4>2. nudgeCounted' = nudgeCounted \cup {day}
        BY <2>4, <4>0
      <4>3. CASE run[c].seenDay = day
        <5>1. run[c].seenDay = lastDay /\ lastDay = day
          BY <2>1, <4>0, <4>3 DEF DaysAgree
        <5>2. day \in nudgeCounted
          BY <1>0, <4>0, <5>1 DEF DaysAgree, Nudge!None
        <5>3. nudgeCounted' = nudgeCounted /\ UNCHANGED <<count, lastDay>>
          BY <2>4, <4>0, <4>2, <4>3, <5>2
        <5> QED BY <1>0, <2>1, <2>2, <4>0, <5>3 DEF DaysAgree
      <4>4. CASE run[c].seenDay # day /\ run[c].seen = count /\ run[c].seenDay = lastDay
        <5>1. count' = count + 1 /\ lastDay' = day
          BY <2>4, <4>0, <4>4 DEF Nudge!Planned
        <5>2. day \notin nudgeCounted
          BY <1>0, <4>0, <4>4 DEF DaysAgree
        <5>3. \A d \in nudgeCounted' : d <= day
          BY <1>0, <4>2
        <5>4. \A d \in Nudge!Context : run'[d].pc = "writing" =>
                run'[d].seenDay # day /\ count' = run'[d].seen + 1
          BY <2>2, <4>0, <4>4, <5>1 DEF DaysAgree
        <5>5. \A d \in Nudge!Context : run'[d].pc # "idle" => run'[d].day = day'
          BY <2>1, <2>2, <4>0 DEF DaysAgree
        <5>6. count' = Cardinality(nudgeCounted')
          BY <4>0, <4>1, <4>2, <5>1, <5>2 DEF DaysAgree
        <5>7. day \in nudgeCounted' /\ nudgeCounted' \subseteq 0..day
          BY <1>0, <4>2
        <5> QED BY <1>0, <2>1, <5>1, <5>3, <5>4, <5>5, <5>6, <5>7 DEF DaysAgree
      <4>5. CASE run[c].seenDay # day /\ lastDay = day /\ count = run[c].seen + 1
        <5>1. count' = count /\ lastDay' = lastDay
          BY <2>4, <4>0, <4>5 DEF Nudge!Planned
        <5>2. day \in nudgeCounted
          BY <1>0, <4>0, <4>5 DEF DaysAgree, Nudge!None
        <5>3. nudgeCounted' = nudgeCounted
          BY <4>2, <5>2
        <5> QED BY <1>0, <2>1, <2>2, <4>0, <5>1, <5>3 DEF DaysAgree
      <4> QED BY <2>1, <4>0, <4>3, <4>4, <4>5 DEF DaysAgree
    <3>3. run[c].day \in 0..day /\ Nudge!Planned(run[c].seen) \in Nat
      BY <1>0, <3>1 DEF Nudge!Planned
    <3>4. /\ nudgeCounted' \subseteq 0..day /\ count' \in Nat
          /\ lastDay' \in Nat \cup {Nudge!None}
      BY <1>0, <2>4, <3>1, <3>3
    <3> QED BY <1>0, <2>1, <2>2, <2>4, <3>2, <3>4 DEF DaysInv
  <2> QED BY <1>10, <2>3, <2>4, Zenon DEF Nudge!RecordWrites
<1> QED
  BY <1>3, <1>4, <1>5, <1>6, <1>7, <1>8, <1>9, <1>10 DEF Nudge!Next

-----------------------------------------------------------------------------
(* The nudge.                                                              *)

Showing == [day : Nat, session : Nat, n : Nat]

\* Every showing is of an earlier session, or of this one, which knows of it; and of
\* the day of the last one at the latest.
ShowingsAgree ==
    /\ IsFiniteSet(showings) /\ Cardinality(showings) = nudgeShown
    /\ nudgeShown <= MaxShows /\ lastShown <= day
    /\ \A s \in showings :
         /\ s.n < nudgeShown /\ s.day <= lastShown /\ 0 < lastShown
         /\ s.session <= sessions /\ (s.session = sessions => sessionSeen)
    /\ \A s, t \in showings : s # t =>
         /\ s.session # t.session
         /\ s.day - t.day >= MinDaysBetween \/ t.day - s.day >= MinDaysBetween

ShowInv ==
    /\ day \in Nat /\ nudgeShown \in Nat /\ lastShown \in Nat /\ sessions \in Nat
    /\ sessionSeen \in BOOLEAN /\ faulted \in BOOLEAN /\ showings \subseteq Showing
    /\ ~faulted => ShowingsAgree

LEMMA ShowInit == Nudge!Init => ShowInv
<1> SUFFICES ASSUME Nudge!Init PROVE ShowInv
  OBVIOUS
<1>1. /\ day = 0 /\ nudgeShown = 0 /\ lastShown = 0 /\ sessions = 1 /\ showings = {}
      /\ sessionSeen \in BOOLEAN /\ faulted \in BOOLEAN
  BY DEF Nudge!Init
<1> QED BY <1>1, FS_EmptySet, PageAssumption DEF ShowInv, ShowingsAgree

LEMMA ShowNext == ShowInv /\ [Nudge!Next]_Nudge!vars => ShowInv'
<1> SUFFICES ASSUME ShowInv, [Nudge!Next]_Nudge!vars PROVE ShowInv'
  OBVIOUS
<1>0. /\ day \in Nat /\ nudgeShown \in Nat /\ lastShown \in Nat /\ sessions \in Nat
      /\ sessionSeen \in BOOLEAN /\ faulted \in BOOLEAN /\ showings \subseteq Showing
      /\ MaxShows \in Nat /\ MinDaysBetween \in Nat /\ MinDaysSinceFirstUse \in Nat \ {0}
  BY PageAssumption DEF ShowInv
<1>1. CASE /\ UNCHANGED <<nudgeShown, lastShown, sessions, sessionSeen, showings>>
           /\ day' \in Nat /\ day <= day' /\ faulted' \in BOOLEAN /\ (faulted => faulted')
  <2>1. ~faulted' => ~faulted
    BY <1>1, Zenon
  <2>2. ShowingsAgree => ShowingsAgree'
    BY <1>0, <1>1 DEF ShowingsAgree
  <2> QED BY <1>0, <1>1, <2>1, <2>2 DEF ShowInv
<1>2. CASE \/ Nudge!Decide \/ Nudge!Open \/ Nudge!Counts \/ Nudge!Close \/ UNCHANGED Nudge!vars
           \/ \E c \in Nudge!Context : Nudge!RecordReads(c) \/ Nudge!RecordWrites(c)
  <2>1. /\ UNCHANGED <<nudgeShown, lastShown, sessions, sessionSeen, showings, day>>
        /\ faulted' = faulted \/ faulted' = TRUE
    BY <1>2, Zenon DEF Nudge!Decide, Nudge!Open, Nudge!Counts, Nudge!Close, Nudge!vars,
       Nudge!stored, Nudge!RecordReads, Nudge!RecordWrites
  <2>2. faulted' \in BOOLEAN /\ (faulted => faulted')
    BY <1>0, <2>1, Zenon
  <2>3. day' \in Nat /\ day <= day'
    BY <1>0, <2>1
  <2> QED BY <1>1, <2>1, <2>2, <2>3, Zenon
<1>3. CASE Nudge!Midnight
  BY <1>0, <1>1, <1>3 DEF Nudge!Midnight, Nudge!stored
<1>4. CASE Nudge!NewSession
  <2>1. /\ UNCHANGED <<nudgeShown, lastShown, showings, day, faulted>>
        /\ sessions' = sessions + 1 /\ sessionSeen' = FALSE
    BY <1>4 DEF Nudge!NewSession, Nudge!stored
  <2>2. \A s \in showings : s.session \in Nat
    BY <1>0 DEF Showing
  <2>3. ShowingsAgree => ShowingsAgree'
    BY <1>0, <2>1, <2>2 DEF ShowingsAgree
  <2>4. sessionSeen' \in BOOLEAN /\ faulted' \in BOOLEAN /\ (~faulted' => ShowingsAgree')
    BY <1>0, <2>1, <2>3, Zenon DEF ShowInv
  <2>5. sessions' \in Nat
    BY <1>0, <2>1
  <2> QED BY <1>0, <2>1, <2>4, <2>5, Zenon DEF ShowInv
<1>5. CASE Nudge!Show
  <2> DEFINE new == [day |-> day, session |-> sessions, n |-> nudgeShown]
  <2>1. /\ new \in Showing /\ new.day = day /\ new.session = sessions /\ new.n = nudgeShown
    BY <1>0 DEF Showing
  <2>2. /\ showings' = showings \cup {new} /\ UNCHANGED <<day, sessions>>
        /\ Nudge!ShouldShowRateNudge
        /\ \/ /\ nudgeShown' = nudgeShown + 1 /\ lastShown' = day /\ sessionSeen' = TRUE
              /\ faulted' = faulted
           \/ /\ nudgeShown' \in {nudgeShown, nudgeShown + 1} /\ lastShown' \in {lastShown, day}
              /\ sessionSeen' \in {sessionSeen, TRUE} /\ faulted' = TRUE
    BY <1>5 DEF Nudge!Show
  <2>3. /\ ~sessionSeen /\ nudgeShown < MaxShows /\ day >= MinDaysSinceFirstUse
        /\ lastShown > 0 => day - lastShown >= MinDaysBetween
    BY <2>2 DEF Nudge!ShouldShowRateNudge
  <2> HIDE DEF new
  <2>4. /\ sessionSeen' \in BOOLEAN /\ faulted' \in BOOLEAN
        /\ nudgeShown' \in Nat /\ lastShown' \in Nat /\ showings' \subseteq Showing
    <3>1. sessionSeen' \in BOOLEAN /\ faulted' \in BOOLEAN
      <4>1. /\ sessionSeen' = sessionSeen \/ sessionSeen' = TRUE
            /\ faulted' = faulted \/ faulted' = TRUE
        BY <2>2
      <4> QED BY <1>0, <4>1, Zenon
    <3>2. nudgeShown' \in {nudgeShown, nudgeShown + 1} /\ lastShown' \in {lastShown, day}
      BY <2>2
    <3> QED BY <1>0, <2>1, <2>2, <3>1, <3>2
  <2>5. ASSUME ~faulted'
        PROVE  ShowingsAgree'
    <3>1. /\ nudgeShown' = nudgeShown + 1 /\ lastShown' = day /\ sessionSeen' = TRUE
          /\ ~faulted /\ faulted' = faulted
      <4>1. ~(faulted' = TRUE)
        BY <2>5, Zenon
      <4>2. /\ nudgeShown' = nudgeShown + 1 /\ lastShown' = day /\ sessionSeen' = TRUE
            /\ faulted' = faulted
        BY <2>2, <4>1, Zenon
      <4> QED BY <2>5, <4>2, Zenon
    <3>2. ShowingsAgree
      BY <3>1 DEF ShowInv
    <3>3. new \notin showings
      BY <1>0, <2>1, <3>2 DEF ShowingsAgree
    <3>4. IsFiniteSet(showings') /\ Cardinality(showings') = nudgeShown'
      BY <2>2, <3>1, <3>2, <3>3, FS_AddElement DEF ShowingsAgree
    <3>5. ASSUME NEW s \in showings
          PROVE  /\ s.n < nudgeShown' /\ s.day <= day /\ s.session < sessions
                 /\ day - s.day >= MinDaysBetween
      BY <1>0, <2>3, <3>1, <3>2 DEF ShowingsAgree, Showing
    <3>6. ASSUME NEW s \in showings', NEW t \in showings', s # t
          PROVE  /\ s.session # t.session
                 /\ s.day - t.day >= MinDaysBetween \/ t.day - s.day >= MinDaysBetween
      <4>1. CASE s \in showings /\ t \in showings
        BY <3>2, <3>6, <4>1 DEF ShowingsAgree
      <4>2. CASE s = new /\ t \in showings
        BY <1>0, <2>1, <3>5, <4>2 DEF Showing
      <4>3. CASE s \in showings /\ t = new
        BY <1>0, <2>1, <3>5, <4>3 DEF Showing
      <4> QED BY <2>2, <3>6, <4>1, <4>2, <4>3
    <3>7. ASSUME NEW s \in showings'
          PROVE  /\ s.n < nudgeShown' /\ s.day <= lastShown' /\ 0 < lastShown'
                 /\ s.session <= sessions'
      <4>1. 0 < day
        BY <1>0, <2>3
      <4>2. CASE s \in showings
        BY <1>0, <2>2, <3>1, <3>5, <4>1, <4>2 DEF Showing
      <4>3. CASE s = new
        BY <1>0, <2>1, <2>2, <3>1, <4>1, <4>3
      <4> QED BY <2>2, <4>2, <4>3
    <3>8. nudgeShown' <= MaxShows /\ lastShown' <= day'
      BY <1>0, <2>2, <2>3, <3>1
    <3> HIDE DEF Showing
    <3>9. ShowingsAgree'
      BY <3>1, <3>4, <3>6, <3>7, <3>8 DEF ShowingsAgree
    <3> QED BY <3>9
  <2> QED BY <1>0, <2>2, <2>4, <2>5, Zenon DEF ShowInv
<1> QED
  BY <1>2, <1>3, <1>4, <1>5 DEF Nudge!Next

LEMMA NudgeOfRun == [RunNext]_allVars => [Nudge!Next]_Nudge!vars
  BY DEF RunNext, allVars, nudgeVars, Nudge!vars, Nudge!stored

\* However many runs of the worker's and the popup's recorders cross, for any number
\* of days, sessions and failed reads, a day is counted once (planActiveDayUpdate);
\* and the nudge keeps to its cap, to one per session and to days apart
\* (shouldShowRateNudge): only a failed write or a run across midnight undoes it.
THEOREM NudgeKeepsItsWord == RunSpec => []NudgeHonest
<1> DEFINE NudgeInv == DaysInv /\ ShowInv
<1>1. RunInit => NudgeInv
  BY DaysInit, ShowInit DEF RunInit
<1>2. NudgeInv /\ [Nudge!Next]_Nudge!vars => NudgeInv'
  BY DaysNext, ShowNext
<1>3. NudgeInv => NudgeHonest
  <2> SUFFICES ASSUME DaysInv, ShowInv PROVE NudgeHonest
    OBVIOUS
  <2>1. \A S : Nudge!Cardinality(S) = Cardinality(S)
    BY DEF Nudge!Cardinality, Cardinality
  <2>2. Nudge!ActiveDaysExact
    BY <2>1 DEF DaysInv, DaysAgree, Nudge!ActiveDaysExact
  <2>3. Nudge!NudgeIsRare
    BY <2>1 DEF ShowInv, ShowingsAgree, Nudge!NudgeIsRare
  <2> QED BY <2>2, <2>3 DEF NudgeHonest
<1> HIDE DEF NudgeInv
<1> QED BY <1>1, <1>2, <1>3, NudgeOfRun, PTL DEF RunSpec

-----------------------------------------------------------------------------
(* The toolbar badge.                                                      *)

Task == [pc : {"readPage", "writePage", "readTotal", "writeTotal"}, seen : Nat]
BadgePrefs == [on : BOOLEAN, paused : BOOLEAN, show : BOOLEAN, done : BOOLEAN]
Notice == [key : {"on", "paused", "show", "done"}, pc : {"start", "querying"},
           read : BadgePrefs]

BadgeTypes ==
    /\ badgePrefs \in BadgePrefs /\ cacheWarm \in BOOLEAN /\ inactive \in BOOLEAN
    /\ badgeUnguarded \in BOOLEAN /\ page \in {"a", "b", "closed"}
    /\ pageCount \in Nat /\ total \in Nat /\ memTotal \in Nat \cup {Badge!Unknown}
    /\ badge \in Nat \cup {Badge!Glyph}
    /\ queue \in Seq(Task) /\ badgeCounted \in Seq(Nat) /\ badgeHeard \in Seq(Notice)
    /\ nav \in [pc : {"idle", "readingPrefs", "readingTotal"}, active : BOOLEAN]
    /\ cleans \in [page : Nat, tab : Nat]

\* What the queue has still to add to the count of the page.
PageOwed ==
    IF queue = <<>> THEN 0
    ELSE IF queue[1].pc \in {"readPage", "writePage"} THEN Len(queue) ELSE Len(queue) - 1

\* Only the first task of the queue is under way, and what it has read is still so.
CountInv ==
    /\ \A i \in 1..Len(queue) : i > 1 => queue[i].pc = "readPage"
    /\ Badge!Open => total + Len(queue) = cleans.tab
    /\ Badge!Open /\ queue # <<>> => (queue[1].pc = "writeTotal" => queue[1].seen = total)
    /\ Badge!Open /\ ~badgeUnguarded => pageCount + PageOwed = cleans.page
    /\ Badge!Open /\ ~badgeUnguarded /\ queue # <<>> =>
          (queue[1].pc = "writePage" => queue[1].seen = pageCount)

\* No count the presenter has, or is about to be given, is ahead of the total; and
\* the last one it is given is the total.
MemoryInv ==
    Badge!Open =>
      /\ memTotal <= total
      /\ \A i \in 1..Len(badgeCounted) : badgeCounted[i] <= total
      /\ badgeCounted = <<>> => memTotal \in {Badge!Unknown, total}
      /\ badgeCounted # <<>> => badgeCounted[Len(badgeCounted)] = total
      /\ badge <= total

Active == Badge!ActiveOn(badgePrefs, page)

\* What the listener and the navigation have read of the preferences is still so.
StepInv ==
    /\ Len(badgeHeard) <= 1
    /\ badgeHeard # <<>> => (badgeHeard[1].pc = "querying" =>
          cacheWarm /\ badgePrefs.done /\ badgeHeard[1].read = badgePrefs
            /\ badgeHeard[1].key # "show")
    /\ nav.pc = "idle" => nav = Badge!NoNav
    /\ nav.pc = "readingTotal" =>
          cacheWarm /\ badgePrefs.done /\ (Badge!Open => nav.active = Active)
    /\ ~badgePrefs.done => badge = Badge!Blank

Truth ==
    IF ~badgePrefs.show THEN Badge!Blank ELSE IF ~Active THEN Badge!Glyph ELSE total

\* Nobody but the listener has yet to repaint for a change.
Repainted == badgeHeard = <<>> \/ badgeHeard[1].key = "show"

\* What the badge shows, and whether the presenter holds the tab inactive, is wrong
\* only while something that will put it right is under way.
PaintInv ==
    Badge!Open /\ ~badgeUnguarded =>
      /\ badgeHeard # <<>> => nav = Badge!NoNav
      /\ queue # <<>> \/ badgeCounted # <<>> => Active
      /\ badgeHeard # <<>> => (badgeHeard[1].pc = "start" /\ cacheWarm => Active)
      /\ ~badgePrefs.show => (badgeHeard = <<>> \/ badgeHeard[1].key # "show" =>
                                badge = Badge!Blank)
      /\ badgePrefs.done /\ nav = Badge!NoNav /\ Repainted => (inactive => ~Active)
      /\ badgePrefs.done /\ nav = Badge!NoNav /\ badgeHeard = <<>> /\ badgeCounted = <<>>
            => badge = Truth \/ (memTotal = Badge!Unknown /\ badge = Badge!Blank)

ClosedInv ==
    ~Badge!Open /\ ~badgeUnguarded =>
      /\ queue = <<>> /\ badgeCounted = <<>> /\ nav = Badge!NoNav
      /\ pageCount = 0 /\ total = 0 /\ memTotal = Badge!Unknown

BadgeInv == BadgeTypes /\ CountInv /\ MemoryInv /\ StepInv /\ PaintInv /\ ClosedInv

LEMMA BadgeInit == Badge!Init => BadgeInv
<1> SUFFICES ASSUME Badge!Init PROVE BadgeInv
  OBVIOUS
<1> USE DEF Badge!Init, Badge!Unknown, Badge!Blank, Badge!Glyph, Badge!NoNav, Badge!Open
<1>1. BadgeTypes
  <2>1. badgePrefs \in BadgePrefs
    BY DEF BadgePrefs
  <2>2. nav \in [pc : {"idle", "readingPrefs", "readingTotal"}, active : BOOLEAN]
    OBVIOUS
  <2>3. cleans \in [page : Nat, tab : Nat]
    OBVIOUS
  <2>4. queue \in Seq(Task) /\ badgeCounted \in Seq(Nat) /\ badgeHeard \in Seq(Notice)
    OBVIOUS
  <2> QED
    BY <2>1, <2>2, <2>3, <2>4 DEF BadgeTypes
<1>2. CountInv
  BY DEF CountInv, PageOwed
<1>3. MemoryInv
  BY DEF MemoryInv
<1>4. StepInv
  BY DEF StepInv
<1>5. PaintInv
  BY DEF PaintInv, Truth, Active, Badge!ActiveOn
<1>6. ClosedInv
  BY DEF ClosedInv
<1> QED BY <1>1, <1>2, <1>3, <1>4, <1>5, <1>6 DEF BadgeInv

\* The queue without its first task.
LEMMA FirstDone ==
  ASSUME NEW S, NEW s \in Seq(S), s # <<>>
  PROVE  /\ Badge!RemoveAt(s, 1) \in Seq(S)
         /\ Len(Badge!RemoveAt(s, 1)) = Len(s) - 1
         /\ \A j \in 1..(Len(s) - 1) : Badge!RemoveAt(s, 1)[j] = s[j + 1]
<1> DEFINE a == SubSeq(s, 1, 0)
           b == SubSeq(s, 2, Len(s))
<1>1. Len(s) \in Nat \ {0}
  OBVIOUS
<1>a. a = SubSeq(s, 1, 0) /\ b = SubSeq(s, 2, Len(s))
  OBVIOUS
<1>b. /\ SubSeq(s, 2, Len(s)) \in Seq(S)
      /\ Len(SubSeq(s, 2, Len(s))) = IF 2 <= Len(s) THEN Len(s) - 2 + 1 ELSE 0
      /\ \A j \in 1..Len(s) - 2 + 1 : SubSeq(s, 2, Len(s))[j] = s[2 + j - 1]
  <2>1. 2 \in Int /\ Len(s) \in Int /\ \A j \in 2..Len(s) : s[j] \in S
    BY <1>1
  <2> QED BY <2>1, SubSeqProperties
<1>2. a \in Seq(S) /\ Len(a) = 0
  <2>1. 1 \in Int /\ 0 \in Int /\ \A j \in 1..0 : s[j] \in S
    OBVIOUS
  <2> QED BY <2>1, SubSeqProperties
<1> HIDE DEF a, b
<1>3a. b \in Seq(S) /\ Len(b) = Len(s) - 1
  <2>1. b \in Seq(S) /\ Len(b) = IF 2 <= Len(s) THEN Len(s) - 2 + 1 ELSE 0
    BY <1>a, <1>b, Zenon
  <2>2. \A n \in Nat \ {0} : (IF 2 <= n THEN n - 2 + 1 ELSE 0) = n - 1
    OBVIOUS
  <2> QED BY <1>1, <2>1, <2>2, Zenon
<1>3b. \A j \in 1..(Len(s) - 1) : b[j] = s[j + 1]
  <2> SUFFICES ASSUME NEW j \in 1..(Len(s) - 1) PROVE b[j] = s[j + 1]
    OBVIOUS
  <2>1. j \in 1..Len(s) - 2 + 1 /\ 2 + j - 1 = j + 1
    BY <1>1
  <2> QED BY <1>a, <1>b, <2>1
<1>4. Badge!RemoveAt(s, 1) = a \o b
  BY <1>a DEF Badge!RemoveAt
<1>5. /\ a \o b \in Seq(S) /\ Len(a \o b) = Len(b)
      /\ \A j \in 1..Len(b) : (a \o b)[j] = b[j]
  BY <1>2, <1>3a
<1> QED BY <1>1, <1>3a, <1>3b, <1>4, <1>5

\* The first task of the queue goes on to pc, holding v, and the others stay.
Restep(pc, v) ==
    /\ queue' \in Seq(Task) /\ Len(queue') = Len(queue)
    /\ queue'[1].pc = pc /\ queue'[1].seen = v
    /\ \A j \in 1..Len(queue) : j > 1 => queue'[j] = queue[j]

\* The four steps of updateTabBadge: only the first task of the queue takes one.
LEMMA SessionStepIs ==
  ASSUME BadgeTypes, NEW i \in DOMAIN queue, Badge!SessionStep(i)
  PROVE  /\ Len(queue) \in Nat \ {0} /\ queue # <<>>
         /\ \/ /\ queue[1].pc = "readPage" /\ Restep("writePage", pageCount)
               /\ UNCHANGED <<pageCount, total, badgeCounted>>
            \/ /\ queue[1].pc = "writePage" /\ Restep("readTotal", 0)
               /\ pageCount' = queue[1].seen + 1
               /\ UNCHANGED <<total, badgeCounted>>
            \/ /\ queue[1].pc = "readTotal" /\ Restep("writeTotal", total)
               /\ UNCHANGED <<pageCount, total, badgeCounted>>
            \/ /\ queue[1].pc = "writeTotal"
               /\ total' = queue[1].seen + 1
               /\ badgeCounted' = Append(badgeCounted, total')
               /\ queue' \in Seq(Task) /\ Len(queue') = Len(queue) - 1
               /\ \A j \in 1..Len(queue') : queue'[j] = queue[j + 1]
               /\ UNCHANGED pageCount
         /\ UNCHANGED <<badgeUnguarded, badgePrefs, cacheWarm, page, memTotal, inactive,
                        badge, nav, badgeHeard, cleans>>
<1>0. i = 1 /\ queue \in Seq(Task)
  BY DEF Badge!SessionStep, Badge!Runs, BadgeTypes
<1>1. Len(queue) \in Nat \ {0} /\ queue # <<>> /\ 1 \in 1..Len(queue)
  BY <1>0
<1>2. ASSUME NEW pc \in {"writePage", "readTotal", "writeTotal"}, NEW v \in Nat, Badge!To(1, pc, v)
      PROVE  Restep(pc, v)
  <2> DEFINE task == [pc |-> pc, seen |-> v]
  <2>1. task \in Task /\ task.pc = pc /\ task.seen = v
    BY DEF Task
  <2>2. queue' = [queue EXCEPT ![1] = task]
    BY <1>2 DEF Badge!To
  <2> HIDE DEF task
  <2>3. queue' \in Seq(Task) /\ Len(queue') = Len(queue) /\ queue'[1] = task
        /\ \A j \in 1..Len(queue) : j > 1 => queue'[j] = queue[j]
    BY <1>0, <1>1, <2>1, <2>2
  <2> QED BY <2>1, <2>3 DEF Restep
<1>3. UNCHANGED <<badgeUnguarded, badgePrefs, cacheWarm, page, memTotal, inactive,
                  badge, nav, badgeHeard, cleans>>
  BY Zenon DEF Badge!SessionStep
<1>4. pageCount \in Nat /\ total \in Nat /\ 0 \in Nat
  BY DEF BadgeTypes
<1>5. \/ /\ queue[1].pc = "readPage" /\ Badge!To(1, "writePage", pageCount)
         /\ UNCHANGED <<pageCount, total, badgeCounted>>
      \/ /\ queue[1].pc = "writePage" /\ Badge!To(1, "readTotal", 0)
         /\ pageCount' = queue[1].seen + 1
         /\ UNCHANGED <<total, badgeCounted>>
      \/ /\ queue[1].pc = "readTotal" /\ Badge!To(1, "writeTotal", total)
         /\ UNCHANGED <<pageCount, total, badgeCounted>>
      \/ /\ queue[1].pc = "writeTotal"
         /\ total' = queue[1].seen + 1
         /\ badgeCounted' = Append(badgeCounted, total')
         /\ queue' = Badge!RemoveAt(queue, 1)
         /\ UNCHANGED pageCount
  BY <1>0, Zenon DEF Badge!SessionStep, Badge!Counted
<1>6. ASSUME queue' = Badge!RemoveAt(queue, 1)
      PROVE  /\ queue' \in Seq(Task) /\ Len(queue') = Len(queue) - 1
             /\ \A j \in 1..Len(queue') : queue'[j] = queue[j + 1]
  <2>1. queue' \in Seq(Task) /\ Len(queue') = Len(queue) - 1
        /\ \A j \in 1..(Len(queue) - 1) : queue'[j] = queue[j + 1]
    BY <1>0, <1>1, <1>6, FirstDone
  <2> QED BY <2>1
<1>7. CASE queue[1].pc = "readPage" /\ Badge!To(1, "writePage", pageCount)
           /\ UNCHANGED <<pageCount, total, badgeCounted>>
  <2>1. Restep("writePage", pageCount)
    BY <1>2, <1>4, <1>7
  <2> QED BY <1>1, <1>3, <1>7, <2>1, Zenon
<1>8. CASE /\ queue[1].pc = "writePage" /\ Badge!To(1, "readTotal", 0)
           /\ pageCount' = queue[1].seen + 1
           /\ UNCHANGED <<total, badgeCounted>>
  <2>1. Restep("readTotal", 0)
    BY <1>2, <1>4, <1>8
  <2> QED BY <1>1, <1>3, <1>8, <2>1, Zenon
<1>9. CASE /\ queue[1].pc = "readTotal" /\ Badge!To(1, "writeTotal", total)
           /\ UNCHANGED <<pageCount, total, badgeCounted>>
  <2>1. Restep("writeTotal", total)
    BY <1>2, <1>4, <1>9
  <2> QED BY <1>1, <1>3, <1>9, <2>1, Zenon
<1>10. CASE /\ queue[1].pc = "writeTotal"
            /\ total' = queue[1].seen + 1
            /\ badgeCounted' = Append(badgeCounted, total')
            /\ queue' = Badge!RemoveAt(queue, 1)
            /\ UNCHANGED pageCount
  BY <1>1, <1>3, <1>6, <1>10, Zenon
<1> QED BY <1>5, <1>7, <1>8, <1>9, <1>10, Zenon

-----------------------------------------------------------------------------

LEMMA BadgeTypesStep == BadgeInv /\ [Badge!Next]_Badge!vars => BadgeTypes'
<1> SUFFICES ASSUME BadgeInv, [Badge!Next]_Badge!vars PROVE BadgeTypes'
  OBVIOUS
<1>0. /\ badgePrefs \in BadgePrefs /\ cacheWarm \in BOOLEAN /\ inactive \in BOOLEAN
      /\ badgeUnguarded \in BOOLEAN /\ page \in {"a", "b", "closed"}
      /\ pageCount \in Nat /\ total \in Nat /\ memTotal \in Nat \cup {Badge!Unknown}
      /\ badge \in Nat \cup {Badge!Glyph}
      /\ queue \in Seq(Task) /\ badgeCounted \in Seq(Nat) /\ badgeHeard \in Seq(Notice)
      /\ nav \in [pc : {"idle", "readingPrefs", "readingTotal"}, active : BOOLEAN]
      /\ cleans \in [page : Nat, tab : Nat]
  BY DEF BadgeInv, BadgeTypes
<1>a. BadgeTypes
  BY DEF BadgeInv
<1>b. ASSUME NEW w \in BOOLEAN, NEW i \in BOOLEAN, NEW c \in Nat \cup {Badge!Unknown}
      PROVE  /\ c # Badge!Unknown => Badge!Painted(w, i, c) \in Nat \cup {Badge!Glyph}
             /\ Badge!Remembered \in Nat
             /\ Badge!Painted(w, i, Badge!Remembered) \in Nat \cup {Badge!Glyph}
  BY <1>0 DEF Badge!Painted, Badge!BadgeText, Badge!Remembered, Badge!Unknown
<1>c. \A p \in BadgePrefs, s \in {"a", "b", "closed"} : Badge!ActiveOn(p, s) \in BOOLEAN
  BY Zenon DEF Badge!ActiveOn, BadgePrefs
<1>1. CASE Badge!Clean
  <2>1. [pc |-> "readPage", seen |-> 0] \in Task
    BY DEF Task
  <2>2. cleans' \in [page : Nat, tab : Nat]
    BY <1>0, <1>1 DEF Badge!Clean
  <2>3. queue' \in Seq(Task)
    BY <1>0, <1>1, <2>1 DEF Badge!Clean
  <2>4. UNCHANGED <<badgeUnguarded, badgePrefs, cacheWarm, page, pageCount, total,
                    memTotal, inactive, badge, badgeCounted, nav, badgeHeard>>
    BY <1>1, Zenon DEF Badge!Clean
  <2> QED BY <1>0, <2>2, <2>3, <2>4 DEF BadgeTypes
<1>2. ASSUME NEW i \in DOMAIN queue, Badge!SessionStep(i)
      PROVE  BadgeTypes'
  <2>1. /\ UNCHANGED <<badgeUnguarded, badgePrefs, cacheWarm, page, memTotal, inactive,
                       badge, nav, badgeHeard, cleans>>
        /\ queue' \in Seq(Task)
        /\ pageCount' = pageCount \/ pageCount' = queue[1].seen + 1
        /\ \/ UNCHANGED <<total, badgeCounted>>
           \/ total' = queue[1].seen + 1 /\ badgeCounted' = Append(badgeCounted, total')
        /\ Len(queue) \in Nat \ {0}
    BY <1>a, <1>2, SessionStepIs, Zenon DEF Restep
  <2>2. queue[1].seen \in Nat
    <3>1. queue[1] \in Task
      BY <1>0, <2>1
    <3> QED BY <3>1 DEF Task
  <2>3. pageCount' \in Nat /\ total' \in Nat
    <3>1. pageCount \in Nat /\ total \in Nat
      BY <1>0
    <3>2. queue[1].seen + 1 \in Nat
      BY <2>2
    <3> QED BY <2>1, <3>1, <3>2, Zenon
  <2>4. badgeCounted' \in Seq(Nat)
    <3>1. Append(badgeCounted, total') \in Seq(Nat)
      BY <1>0, <2>3
    <3> QED BY <1>0, <2>1, <3>1
  <2> QED BY <1>0, <2>1, <2>3, <2>4 DEF BadgeTypes
<1>3. CASE Badge!EmitCleaned
  <2>1. Head(badgeCounted) \in Nat /\ Tail(badgeCounted) \in Seq(Nat)
    BY <1>0, <1>3 DEF Badge!EmitCleaned
  <2>2. badge' \in Nat \cup {Badge!Glyph}
    BY <1>0, <1>3, <2>1 DEF Badge!EmitCleaned, Badge!Painted, Badge!BadgeText
  <2> QED BY <1>0, <1>3, <2>1, <2>2 DEF Badge!EmitCleaned, BadgeTypes
<1>4. ASSUME NEW site \in {"a", "b"}, Badge!Navigate(site)
      PROVE  BadgeTypes'
  <2>1. nav' \in [pc : {"idle", "readingPrefs", "readingTotal"}, active : BOOLEAN]
    BY <1>4 DEF Badge!Navigate, Badge!NoNav
  <2>2. cleans' \in [page : Nat, tab : Nat]
    BY <1>0, <1>4 DEF Badge!Navigate
  <2>3. badgeUnguarded' \in BOOLEAN
    BY <1>4, Zenon DEF Badge!Navigate, Badge!Idle
  <2>4. badge' \in Nat /\ pageCount' \in Nat /\ page' \in {"a", "b", "closed"}
    BY <1>4 DEF Badge!Navigate, Badge!Blank
  <2>5. UNCHANGED <<badgePrefs, cacheWarm, total, memTotal, inactive, queue, badgeCounted, badgeHeard>>
    BY <1>4, Zenon DEF Badge!Navigate
  <2> QED BY <1>0, <2>1, <2>2, <2>3, <2>4, <2>5 DEF BadgeTypes
<1>5. CASE Badge!NavReadsPrefs
  <2>1. nav' \in [pc : {"idle", "readingPrefs", "readingTotal"}, active : BOOLEAN]
    <3>1. Badge!ActiveOn(badgePrefs, page) \in BOOLEAN
      BY <1>0, <1>c
    <3>2. nav' = [pc |-> "readingTotal", active |-> Badge!ActiveOn(badgePrefs, page)]
            \/ nav' = Badge!NoNav
      BY <1>5, Zenon DEF Badge!NavReadsPrefs
    <3>3. Badge!NoNav \in [pc : {"idle", "readingPrefs", "readingTotal"}, active : BOOLEAN]
      BY DEF Badge!NoNav
    <3> QED BY <3>1, <3>2, <3>3
  <2>2. /\ cacheWarm' = TRUE
        /\ UNCHANGED <<badgeUnguarded, badgePrefs, page, pageCount, total, memTotal,
                       inactive, badge, queue, badgeCounted, badgeHeard, cleans>>
    BY <1>5, Zenon DEF Badge!NavReadsPrefs
  <2> QED BY <1>0, <2>1, <2>2 DEF BadgeTypes
<1>6. CASE Badge!NavRepaints
  <2>1. /\ memTotal' = total /\ inactive' = ~nav.active /\ nav' = Badge!NoNav
        /\ badge' = Badge!Painted(cacheWarm, ~nav.active, total)
        /\ UNCHANGED <<badgeUnguarded, badgePrefs, cacheWarm, page, pageCount, total, queue,
                       badgeCounted, badgeHeard, cleans>>
    BY <1>6, Zenon DEF Badge!NavRepaints, Badge!TotalOnNavigation
  <2>2. inactive' \in BOOLEAN /\ (~nav.active) \in BOOLEAN
    BY <2>1, Zenon
  <2>3. total \in Nat \cup {Badge!Unknown} /\ total # Badge!Unknown
    BY <1>0 DEF Badge!Unknown
  <2>4. badge' \in Nat \cup {Badge!Glyph}
    BY <1>0, <1>b, <2>1, <2>2, <2>3
  <2>5. nav' \in [pc : {"idle", "readingPrefs", "readingTotal"}, active : BOOLEAN]
    BY <2>1 DEF Badge!NoNav
  <2> QED BY <1>0, <2>1, <2>2, <2>3, <2>4, <2>5 DEF BadgeTypes
<1>7. CASE Badge!CloseTab
  <2>1. cleans' \in [page : Nat, tab : Nat]
    BY <1>7 DEF Badge!CloseTab
  <2>2. badgeUnguarded' \in BOOLEAN /\ inactive' \in BOOLEAN
    BY <1>7, Zenon DEF Badge!CloseTab, Badge!Idle
  <2>3. badge' \in Nat /\ pageCount' \in Nat /\ total' \in Nat /\ memTotal' = Badge!Unknown
        /\ page' \in {"a", "b", "closed"}
    BY <1>7 DEF Badge!CloseTab, Badge!Blank, Badge!TotalAfterClose
  <2>4. UNCHANGED <<badgePrefs, cacheWarm, queue, badgeCounted, nav, badgeHeard>>
    BY <1>7, Zenon DEF Badge!CloseTab
  <2> QED BY <1>0, <2>1, <2>2, <2>3, <2>4 DEF BadgeTypes
<1>8. ASSUME NEW key \in {"on", "paused", "show", "done"}, Badge!Change(key)
      PROVE  BadgeTypes'
  <2> DEFINE notice == [key |-> key, pc |-> "start", read |-> badgePrefs]
  <2>1. notice \in Notice
    BY <1>0 DEF Notice
  <2>2. badgeHeard' = Append(badgeHeard, notice) /\ cacheWarm' = FALSE
        /\ badgePrefs' = [badgePrefs EXCEPT ![key] = ~badgePrefs[key]]
        /\ UNCHANGED <<badgeUnguarded, page, pageCount, total, memTotal, inactive, badge,
                       queue, badgeCounted, nav, cleans>>
    BY <1>8, Zenon DEF Badge!Change
  <2> HIDE DEF notice
  <2>3. badgeHeard' \in Seq(Notice)
    BY <1>0, <2>1, <2>2
  <2>4. badgePrefs' \in BadgePrefs
    <3>1. (~badgePrefs[key]) \in BOOLEAN
      BY Zenon
    <3> QED BY <1>0, <2>2, <3>1 DEF BadgePrefs
  <2> QED BY <1>0, <2>2, <2>3, <2>4 DEF BadgeTypes
<1>9. CASE Badge!ListenerReadsPrefs
  <2>1. /\ badgeHeard # <<>> /\ cacheWarm' = TRUE
        /\ \/ badgeHeard' = [badgeHeard EXCEPT ![1].pc = "querying", ![1].read = badgePrefs]
           \/ badgeHeard' = Tail(badgeHeard)
        /\ UNCHANGED <<badgeUnguarded, badgePrefs, page, pageCount, total, memTotal,
                       inactive, badge, queue, badgeCounted, nav, cleans>>
    BY <1>9, Zenon DEF Badge!ListenerReadsPrefs
  <2>2. badgeHeard' \in Seq(Notice)
    <3>1. badgeHeard[1] \in Notice /\ 1 \in DOMAIN badgeHeard
      BY <1>0, <2>1
    <3>2. CASE badgeHeard' = [badgeHeard EXCEPT ![1].pc = "querying", ![1].read = badgePrefs]
      <4> DEFINE one == [badgeHeard[1] EXCEPT !.pc = "querying", !.read = badgePrefs]
      <4>1. one \in Notice
        BY <1>0, <3>1 DEF Notice
      <4>2. badgeHeard' = [badgeHeard EXCEPT ![1] = one]
        BY <1>0, <2>1, <3>2
      <4> HIDE DEF one
      <4> QED BY <1>0, <3>1, <4>1, <4>2
    <3>3. Tail(badgeHeard) \in Seq(Notice)
      BY <1>0, <2>1
    <3> QED BY <2>1, <3>2, <3>3
  <2> QED BY <1>0, <2>1, <2>2 DEF BadgeTypes
<1>10. CASE Badge!RepaintAllTabs
  <2>1. /\ badgeHeard # <<>> /\ badgeHeard' = Tail(badgeHeard)
        /\ \/ /\ inactive' = ~Badge!ActiveOn(Head(badgeHeard).read, page)
              /\ badge' = Badge!Painted(cacheWarm, inactive', Badge!Remembered)
           \/ UNCHANGED <<inactive, badge>>
        /\ UNCHANGED <<badgeUnguarded, badgePrefs, cacheWarm, page, pageCount, total,
                       memTotal, queue, badgeCounted, nav, cleans>>
    BY <1>10, Zenon DEF Badge!RepaintAllTabs
  <2>2. badgeHeard' \in Seq(Notice)
    BY <1>0, <2>1
  <2>3. inactive' \in BOOLEAN
    BY <1>0, <2>1, Zenon
  <2>4. badge' \in Nat \cup {Badge!Glyph}
    BY <1>0, <1>b, <2>1, <2>3
  <2> QED BY <1>0, <2>1, <2>2, <2>3, <2>4 DEF BadgeTypes
<1>11. CASE Badge!ListenerTellsShowBadge
  <2>1. badgeHeard' \in Seq(Notice)
    BY <1>0, <1>11 DEF Badge!ListenerTellsShowBadge
  <2>2. badgeUnguarded' \in BOOLEAN
    BY <1>0, <1>11, Zenon DEF Badge!ListenerTellsShowBadge
  <2>3. memTotal' \in Nat \cup {Badge!Unknown} /\ badge' \in Nat \cup {Badge!Glyph}
    BY <1>0, <1>11 DEF Badge!ListenerTellsShowBadge, Badge!BadgeText, Badge!Blank, Badge!Unknown
  <2>4. UNCHANGED <<badgePrefs, cacheWarm, page, pageCount, total, inactive, queue,
                    badgeCounted, nav, cleans>>
    BY <1>11, Zenon DEF Badge!ListenerTellsShowBadge
  <2> QED BY <1>0, <2>1, <2>2, <2>3, <2>4 DEF BadgeTypes
<1>12. CASE Badge!Evict
  <2>1. /\ cacheWarm' = FALSE /\ memTotal' = Badge!Unknown /\ inactive' = FALSE
        /\ UNCHANGED <<badgeUnguarded, badgePrefs, page, pageCount, total, badge, queue,
                       badgeCounted, nav, badgeHeard, cleans>>
    BY <1>12, Zenon DEF Badge!Evict
  <2> QED BY <1>0, <2>1 DEF BadgeTypes
<1>13. CASE UNCHANGED Badge!vars
  <2>1. UNCHANGED <<badgePrefs, cacheWarm, page, pageCount, total, memTotal, inactive,
                    badge, queue, badgeCounted, nav, badgeHeard, badgeUnguarded, cleans>>
    BY <1>13, Zenon DEF Badge!vars
  <2> QED BY <1>0, <2>1 DEF BadgeTypes
<1> QED
  BY <1>1, <1>2, <1>3, <1>4, <1>5, <1>6, <1>7, <1>8, <1>9, <1>10, <1>11, <1>12, <1>13, Zenon
  DEF Badge!Next

\* The steps that leave the queue, both counts and the page alone.
LEMMA CountsStay ==
  ASSUME CountInv, UNCHANGED <<queue, pageCount, total, page, cleans, badgeUnguarded>>
  PROVE  CountInv'
<1> QED BY Zenon DEF CountInv, PageOwed, Badge!Open

LEMMA CountStep == BadgeInv /\ [Badge!Next]_Badge!vars => CountInv'
<1> SUFFICES ASSUME BadgeInv, [Badge!Next]_Badge!vars PROVE CountInv'
  OBVIOUS
<1>0. /\ BadgeTypes /\ CountInv /\ queue \in Seq(Task) /\ Len(queue) \in Nat
      /\ pageCount \in Nat /\ total \in Nat /\ cleans \in [page : Nat, tab : Nat]
      /\ \A i \in 1..Len(queue) : queue[i].seen \in Nat
  <2>1. /\ BadgeTypes /\ CountInv /\ queue \in Seq(Task)
        /\ pageCount \in Nat /\ total \in Nat /\ cleans \in [page : Nat, tab : Nat]
    BY DEF BadgeInv, BadgeTypes
  <2>2. Len(queue) \in Nat /\ \A i \in 1..Len(queue) : queue[i] \in Task
    BY <2>1
  <2> QED BY <2>1, <2>2 DEF Task
<1>1. CASE Badge!Clean
  <2> DEFINE task == [pc |-> "readPage", seen |-> 0]
  <2>1. task \in Task /\ task.pc = "readPage"
    BY DEF Task
  <2>2. /\ queue' = Append(queue, task)
        /\ cleans' = [page |-> cleans.page + 1, tab |-> cleans.tab + 1]
        /\ Badge!Open /\ UNCHANGED <<badgeUnguarded, page, pageCount, total>>
    BY <1>1, Zenon DEF Badge!Clean
  <2> HIDE DEF task
  <2>3. /\ Len(queue') = Len(queue) + 1 /\ queue' # <<>>
        /\ queue'[Len(queue) + 1] = task
        /\ \A j \in 1..Len(queue) : queue'[j] = queue[j]
    BY <1>0, <2>1, <2>2
  <2>4. cleans'.page = cleans.page + 1 /\ cleans'.tab = cleans.tab + 1
    BY <2>2
  <2>5. \A i \in 1..Len(queue') : i > 1 => queue'[i].pc = "readPage"
    BY <1>0, <2>1, <2>3 DEF CountInv
  <2>6. CASE queue = <<>>
    <3>1. Len(queue) = 0 /\ queue'[1] = task /\ Len(queue') = 1
      BY <2>3, <2>6
    <3>2. PageOwed = 0 /\ PageOwed' = 1
      BY <2>1, <2>3, <2>6, <3>1 DEF PageOwed
    <3>3. total' + Len(queue') = cleans'.tab
      BY <1>0, <2>2, <2>4, <2>6, <3>1 DEF CountInv, Badge!Open
    <3>4. ~badgeUnguarded' => pageCount' + PageOwed' = cleans'.page
      BY <1>0, <2>2, <2>4, <2>6, <3>2 DEF CountInv, Badge!Open
    <3>5. queue'[1].pc = "readPage"
      BY <2>1, <3>1
    <3> QED BY <2>5, <3>3, <3>4, <3>5 DEF CountInv
  <2>7. CASE queue # <<>>
    <3>1. queue'[1] = queue[1]
      BY <1>0, <2>3, <2>7
    <3>2. PageOwed' = PageOwed + 1
      BY <1>0, <2>3, <2>7, <3>1 DEF PageOwed
    <3>3. PageOwed \in Int
      BY <1>0 DEF PageOwed
    <3> QED BY <1>0, <2>2, <2>3, <2>4, <2>5, <2>7, <3>1, <3>2, <3>3 DEF CountInv, Badge!Open
  <2> QED BY <2>6, <2>7
<1>2. ASSUME NEW i \in DOMAIN queue, Badge!SessionStep(i)
      PROVE  CountInv'
  <2>1. /\ Len(queue) \in Nat \ {0} /\ queue # <<>>
        /\ UNCHANGED <<badgeUnguarded, page, cleans>>
    BY <1>0, <1>2, SessionStepIs, Zenon
  <2>2. ASSUME NEW pc \in {"writePage", "readTotal", "writeTotal"}, NEW v \in Nat,
               Restep(pc, v)
        PROVE  /\ Len(queue') = Len(queue) /\ queue' # <<>> /\ queue'[1].pc = pc
               /\ queue'[1].seen = v
               /\ \A j \in 1..Len(queue') : j > 1 => queue'[j].pc = "readPage"
               /\ PageOwed' = IF pc = "writePage" THEN Len(queue) ELSE Len(queue) - 1
    <3>1. /\ Len(queue') = Len(queue) /\ queue' # <<>> /\ queue'[1].pc = pc
          /\ queue'[1].seen = v
          /\ \A j \in 1..Len(queue') : j > 1 => queue'[j].pc = "readPage"
      BY <1>0, <2>1, <2>2 DEF Restep, CountInv
    <3>2. PageOwed' = IF pc = "writePage" THEN Len(queue) ELSE Len(queue) - 1
      BY <3>1 DEF PageOwed
    <3> QED BY <3>1, <3>2
  <2>3. CASE queue[1].pc = "readPage" /\ Restep("writePage", pageCount)
             /\ UNCHANGED <<pageCount, total, badgeCounted>>
    <3>1. PageOwed = Len(queue)
      BY <2>1, <2>3 DEF PageOwed
    <3>2. /\ Len(queue') = Len(queue) /\ queue' # <<>> /\ queue'[1].pc = "writePage"
          /\ queue'[1].seen = pageCount
          /\ \A j \in 1..Len(queue') : j > 1 => queue'[j].pc = "readPage"
          /\ PageOwed' = Len(queue)
      BY <1>0, <2>2, <2>3
    <3>3. UNCHANGED <<total, pageCount, page, cleans, badgeUnguarded>>
      BY <2>1, <2>3
    <3>4. Badge!Open' => total' + Len(queue') = cleans'.tab
      BY <1>0, <3>2, <3>3 DEF CountInv, Badge!Open
    <3>5. Badge!Open' /\ ~badgeUnguarded' => pageCount' + PageOwed' = cleans'.page
      BY <1>0, <3>1, <3>2, <3>3 DEF CountInv, Badge!Open
    <3>6. /\ queue'[1].pc = "writeTotal" => queue'[1].seen = total'
          /\ queue'[1].pc = "writePage" => queue'[1].seen = pageCount'
      BY <3>2, <3>3
    <3>7. \A j \in 1..Len(queue') : j > 1 => queue'[j].pc = "readPage"
      BY <3>2
    <3> QED BY <3>4, <3>5, <3>6, <3>7 DEF CountInv
  <2>4. CASE queue[1].pc = "writePage" /\ Restep("readTotal", 0)
             /\ pageCount' = queue[1].seen + 1 /\ UNCHANGED <<total, badgeCounted>>
    <3>1. PageOwed = Len(queue)
      BY <2>1, <2>4 DEF PageOwed
    <3>2. /\ Len(queue') = Len(queue) /\ queue' # <<>> /\ queue'[1].pc = "readTotal"
          /\ \A j \in 1..Len(queue') : j > 1 => queue'[j].pc = "readPage"
          /\ PageOwed' = Len(queue) - 1
      BY <2>2, <2>4
    <3>3. queue[1].seen \in Nat
      BY <1>0, <2>1
    <3>4. UNCHANGED <<total, page, cleans, badgeUnguarded>>
      BY <2>1, <2>4
    <3>5. Badge!Open' => total' + Len(queue') = cleans'.tab
      BY <1>0, <3>2, <3>4 DEF CountInv, Badge!Open
    <3>6. Badge!Open' /\ ~badgeUnguarded' => pageCount' + PageOwed' = cleans'.page
      <4>1. Badge!Open /\ ~badgeUnguarded => queue[1].seen = pageCount
        BY <1>0, <2>1, <2>4 DEF CountInv
      <4>2. Badge!Open /\ ~badgeUnguarded => pageCount + Len(queue) = cleans.page
        BY <1>0, <3>1 DEF CountInv
      <4> QED BY <1>0, <2>1, <2>4, <3>2, <3>3, <3>4, <4>1, <4>2 DEF Badge!Open
    <3>7. \A j \in 1..Len(queue') : j > 1 => queue'[j].pc = "readPage"
      BY <3>2
    <3>8. queue'[1].pc # "writeTotal" /\ queue'[1].pc # "writePage"
      BY <3>2
    <3> QED BY <3>5, <3>6, <3>7, <3>8 DEF CountInv
  <2>5. CASE queue[1].pc = "readTotal" /\ Restep("writeTotal", total)
             /\ UNCHANGED <<pageCount, total, badgeCounted>>
    <3>1. PageOwed = Len(queue) - 1
      BY <2>1, <2>5 DEF PageOwed
    <3>2. /\ Len(queue') = Len(queue) /\ queue' # <<>> /\ queue'[1].pc = "writeTotal"
          /\ queue'[1].seen = total
          /\ \A j \in 1..Len(queue') : j > 1 => queue'[j].pc = "readPage"
          /\ PageOwed' = Len(queue) - 1
      BY <1>0, <2>2, <2>5
    <3>3. UNCHANGED <<total, pageCount, page, cleans, badgeUnguarded>>
      BY <2>1, <2>5
    <3>4. Badge!Open' => total' + Len(queue') = cleans'.tab
      BY <1>0, <3>2, <3>3 DEF CountInv, Badge!Open
    <3>5. Badge!Open' /\ ~badgeUnguarded' => pageCount' + PageOwed' = cleans'.page
      BY <1>0, <3>1, <3>2, <3>3 DEF CountInv, Badge!Open
    <3>6. /\ queue'[1].pc = "writeTotal" => queue'[1].seen = total'
          /\ queue'[1].pc = "writePage" => queue'[1].seen = pageCount'
      BY <3>2, <3>3
    <3>7. \A j \in 1..Len(queue') : j > 1 => queue'[j].pc = "readPage"
      BY <3>2
    <3> QED BY <3>4, <3>5, <3>6, <3>7 DEF CountInv
  <2>6. CASE /\ queue[1].pc = "writeTotal" /\ total' = queue[1].seen + 1
             /\ queue' \in Seq(Task) /\ Len(queue') = Len(queue) - 1
             /\ \A j \in 1..Len(queue') : queue'[j] = queue[j + 1]
             /\ UNCHANGED pageCount
    <3>1. \A j \in 1..Len(queue') : queue'[j].pc = "readPage"
      BY <1>0, <2>1, <2>6 DEF CountInv
    <3>2. PageOwed = Len(queue) - 1
      BY <2>1, <2>6 DEF PageOwed
    <3>3. PageOwed' = Len(queue) - 1 /\ (queue' # <<>> => queue'[1].pc = "readPage")
      <4>1. CASE queue' = <<>>
        <5>1. Len(queue') = 0
          BY <4>1
        <5> QED BY <2>1, <2>6, <4>1, <5>1 DEF PageOwed
      <4>2. CASE queue' # <<>>
        <5>1. 1 \in 1..Len(queue')
          BY <2>6, <4>2
        <5> QED BY <2>6, <3>1, <4>2, <5>1 DEF PageOwed
      <4> QED BY <4>1, <4>2
    <3>4. queue[1].seen \in Nat
      BY <1>0, <2>1
    <3>5. Badge!Open' => total' + Len(queue') = cleans'.tab
      <4>1. Badge!Open => queue[1].seen = total /\ total + Len(queue) = cleans.tab
        BY <1>0, <2>1, <2>6 DEF CountInv
      <4> QED BY <1>0, <2>1, <2>6, <3>4, <4>1 DEF Badge!Open
    <3>6. Badge!Open' /\ ~badgeUnguarded' => pageCount' + PageOwed' = cleans'.page
      BY <1>0, <2>1, <2>6, <3>2, <3>3 DEF CountInv, Badge!Open
    <3>7. queue' # <<>> => queue'[1].pc # "writeTotal" /\ queue'[1].pc # "writePage"
      BY <3>3
    <3> QED BY <3>1, <3>5, <3>6, <3>7 DEF CountInv
  <2> QED BY <1>0, <1>2, <2>3, <2>4, <2>5, <2>6, SessionStepIs, Zenon
<1>3. ASSUME NEW site \in {"a", "b"}, Badge!Navigate(site)
      PROVE  CountInv'
  <2>1. /\ page # "closed" /\ page' # "closed" /\ badgeUnguarded' = ~Badge!Idle
        /\ pageCount' = 0 /\ cleans' = [cleans EXCEPT !.page = 0]
        /\ UNCHANGED <<total, queue>>
    BY <1>3 DEF Badge!Navigate, Badge!Open
  <2>2. cleans'.page = 0 /\ cleans'.tab = cleans.tab
    BY <1>0, <2>1
  <2>3. ~badgeUnguarded' => queue = <<>>
    BY <2>1, Zenon DEF Badge!Idle
  <2> QED BY <1>0, <2>1, <2>2, <2>3 DEF CountInv, PageOwed, Badge!Open
<1>4. CASE Badge!CloseTab
  <2>1. page' = "closed" /\ UNCHANGED queue
    BY <1>4, Zenon DEF Badge!CloseTab
  <2> QED BY <1>0, <2>1 DEF CountInv, Badge!Open
<1>5. CASE Badge!ListenerTellsShowBadge
  <2>1. UNCHANGED <<queue, pageCount, total, page, cleans>>
    BY <1>5, Zenon DEF Badge!ListenerTellsShowBadge
  <2>2. badgeUnguarded' = badgeUnguarded \/ badgeUnguarded' = TRUE
    BY <1>5, Zenon DEF Badge!ListenerTellsShowBadge
  <2>3. ~badgeUnguarded' => ~badgeUnguarded
    BY <2>2, Zenon
  <2>4. PageOwed' = PageOwed
    BY <2>1, Zenon DEF PageOwed
  <2> QED BY <1>0, <2>1, <2>3, <2>4, Zenon DEF CountInv, Badge!Open
<1>6. CASE \/ Badge!EmitCleaned \/ Badge!NavReadsPrefs \/ Badge!NavRepaints
           \/ (\E key \in {"on", "paused", "show", "done"} : Badge!Change(key))
           \/ Badge!ListenerReadsPrefs \/ Badge!RepaintAllTabs \/ Badge!Evict
           \/ UNCHANGED Badge!vars
  <2>1. UNCHANGED <<queue, pageCount, total, page, cleans, badgeUnguarded>>
    BY <1>6, Zenon DEF Badge!EmitCleaned, Badge!NavReadsPrefs, Badge!NavRepaints,
       Badge!Change, Badge!ListenerReadsPrefs, Badge!RepaintAllTabs, Badge!Evict, Badge!vars
  <2> QED BY <1>0, <2>1, CountsStay
<1> QED
  BY <1>1, <1>2, <1>3, <1>4, <1>5, <1>6, Zenon DEF Badge!Next

\* The steps that leave the total alone, and give the presenter nothing new to show.
LEMMA MemoryStays ==
  ASSUME MemoryInv, BadgeTypes, UNCHANGED <<total, memTotal, badgeCounted>>,
         Badge!Open' => Badge!Open /\ badge' <= total
  PROVE  MemoryInv'
<1> QED BY DEF MemoryInv, Badge!Open

LEMMA MemoryStep == BadgeInv /\ [Badge!Next]_Badge!vars => MemoryInv'
<1> SUFFICES ASSUME BadgeInv, [Badge!Next]_Badge!vars PROVE MemoryInv'
  OBVIOUS
<1>0. /\ BadgeTypes /\ CountInv /\ MemoryInv /\ total \in Nat
      /\ memTotal \in Nat \cup {Badge!Unknown} /\ badge \in Nat \cup {Badge!Glyph}
      /\ badgeCounted \in Seq(Nat) /\ queue \in Seq(Task)
  BY DEF BadgeInv, BadgeTypes
<1>a. Badge!Unknown = -1 /\ Badge!Blank = 0 /\ Badge!Glyph = -1
  BY DEF Badge!Unknown, Badge!Blank, Badge!Glyph
<1>b. ASSUME NEW w, NEW off, NEW c \in Nat, Badge!Open, c <= total
      PROVE  Badge!Painted(w, off, c) <= total
  BY <1>0, <1>a, <1>b DEF Badge!Painted, Badge!BadgeText, MemoryInv
<1>c. Badge!Open => Badge!Remembered \in Nat /\ Badge!Remembered <= total
  BY <1>0, <1>a DEF Badge!Remembered, MemoryInv
<1>1. CASE Badge!Clean \/ (\E key \in {"on", "paused", "show", "done"} : Badge!Change(key))
           \/ Badge!NavReadsPrefs \/ Badge!ListenerReadsPrefs \/ UNCHANGED Badge!vars
  <2>1. UNCHANGED <<total, memTotal, badgeCounted, badge, page>>
    BY <1>1, Zenon DEF Badge!Clean, Badge!Change, Badge!NavReadsPrefs,
       Badge!ListenerReadsPrefs, Badge!vars
  <2> QED BY <1>0, <2>1 DEF MemoryInv, Badge!Open
<1>2. ASSUME NEW i \in DOMAIN queue, Badge!SessionStep(i)
      PROVE  MemoryInv'
  <2>1. /\ UNCHANGED <<page, memTotal, badge>>
        /\ \/ UNCHANGED <<total, badgeCounted>>
           \/ /\ queue # <<>> /\ queue[1].pc = "writeTotal"
              /\ total' = queue[1].seen + 1 /\ badgeCounted' = Append(badgeCounted, total')
    BY <1>0, <1>2, SessionStepIs, Zenon
  <2>2. CASE UNCHANGED <<total, badgeCounted>>
    BY <1>0, <2>1, <2>2 DEF MemoryInv, Badge!Open
  <2>3. CASE /\ queue # <<>> /\ queue[1].pc = "writeTotal"
             /\ total' = queue[1].seen + 1 /\ badgeCounted' = Append(badgeCounted, total')
    <3> SUFFICES ASSUME Badge!Open' PROVE MemoryInv'
      BY DEF MemoryInv
    <3>1. Badge!Open
      BY <2>1 DEF Badge!Open
    <3>2. total' = total + 1
      BY <1>0, <2>3, <3>1 DEF CountInv
    <3> DEFINE n == total + 1
    <3>3. n \in Nat /\ badgeCounted' = Append(badgeCounted, n)
      BY <1>0, <2>3, <3>2
    <3>4. /\ Len(badgeCounted') = Len(badgeCounted) + 1 /\ badgeCounted' # <<>>
          /\ badgeCounted'[Len(badgeCounted) + 1] = n
          /\ \A j \in 1..Len(badgeCounted) : badgeCounted'[j] = badgeCounted[j]
      <4> HIDE DEF n
      <4> QED BY <1>0, <3>3
    <3>5. \A j \in 1..Len(badgeCounted') : badgeCounted'[j] <= total'
      <4> SUFFICES ASSUME NEW j \in 1..Len(badgeCounted') PROVE badgeCounted'[j] <= total'
        OBVIOUS
      <4>1. CASE j \in 1..Len(badgeCounted)
        <5>1. badgeCounted[j] <= total /\ badgeCounted[j] \in Nat /\ badgeCounted'[j] = badgeCounted[j]
          BY <1>0, <3>1, <3>4, <4>1 DEF MemoryInv
        <5> QED BY <1>0, <3>2, <5>1
      <4>2. CASE j = Len(badgeCounted) + 1
        BY <1>0, <3>2, <3>4, <4>2
      <4> QED BY <1>0, <3>4, <4>1, <4>2
    <3>6. memTotal <= total' /\ badge <= total'
      BY <1>0, <1>a, <3>1, <3>2 DEF MemoryInv
    <3> QED BY <2>1, <3>2, <3>4, <3>5, <3>6 DEF MemoryInv
  <2> QED BY <2>1, <2>2, <2>3
<1>3. CASE Badge!EmitCleaned
  <2> SUFFICES ASSUME Badge!Open' PROVE MemoryInv'
    BY DEF MemoryInv
  <2>1. /\ badgeCounted # <<>> /\ memTotal' = Head(badgeCounted)
        /\ badgeCounted' = Tail(badgeCounted) /\ UNCHANGED <<page, total>>
        /\ badge' = Badge!Painted(TRUE, inactive, Head(badgeCounted))
    BY <1>3, Zenon DEF Badge!EmitCleaned
  <2>2. Badge!Open
    BY <2>1 DEF Badge!Open
  <2>3. /\ Len(badgeCounted) \in Nat \ {0} /\ Head(badgeCounted) = badgeCounted[1]
        /\ Head(badgeCounted) \in Nat
        /\ Tail(badgeCounted) \in Seq(Nat) /\ Len(Tail(badgeCounted)) = Len(badgeCounted) - 1
        /\ \A j \in 1..(Len(badgeCounted) - 1) : Tail(badgeCounted)[j] = badgeCounted[j + 1]
    BY <1>0, <2>1
  <2>4. Head(badgeCounted) <= total
    BY <1>0, <2>2, <2>3 DEF MemoryInv
  <2>5. badge' <= total
    BY <1>b, <2>1, <2>2, <2>3, <2>4
  <2>6. \A j \in 1..Len(badgeCounted') : badgeCounted'[j] <= total
    BY <1>0, <2>1, <2>2, <2>3 DEF MemoryInv
  <2>7. badgeCounted[Len(badgeCounted)] = total
    BY <1>0, <2>1, <2>2 DEF MemoryInv
  <2>8. badgeCounted' = <<>> => Head(badgeCounted) = total
    <3>1. ASSUME badgeCounted' = <<>> PROVE Len(badgeCounted) = 1
      <4>1. Len(badgeCounted') = 0 /\ Len(badgeCounted') = Len(badgeCounted) - 1
        BY <2>1, <2>3, <3>1
      <4> QED BY <2>3, <4>1
    <3> QED BY <2>3, <2>7, <3>1
  <2>9. badgeCounted' # <<>> => badgeCounted'[Len(badgeCounted')] = total
    <3> SUFFICES ASSUME badgeCounted' # <<>> PROVE badgeCounted'[Len(badgeCounted')] = total
      OBVIOUS
    <3>1. Len(badgeCounted') \in 1..(Len(badgeCounted) - 1)
          /\ Len(badgeCounted') + 1 = Len(badgeCounted)
      BY <2>1, <2>3
    <3> QED BY <2>1, <2>3, <2>7, <3>1
  <2> QED BY <2>1, <2>4, <2>5, <2>6, <2>8, <2>9 DEF MemoryInv
<1>4. ASSUME NEW site \in {"a", "b"}, Badge!Navigate(site)
      PROVE  MemoryInv'
  <2>1. Badge!Open /\ badge' = Badge!Blank /\ UNCHANGED <<total, memTotal, badgeCounted>>
    BY <1>4, Zenon DEF Badge!Navigate
  <2> QED BY <1>0, <1>a, <2>1, MemoryStays
<1>5. CASE Badge!NavRepaints
  <2>1. /\ memTotal' = total /\ UNCHANGED <<page, total, badgeCounted>>
        /\ badge' = Badge!Painted(cacheWarm, ~nav.active, total)
    BY <1>5, Zenon DEF Badge!NavRepaints, Badge!TotalOnNavigation
  <2>2. Badge!Open => badge' <= total
    <3> DEFINE off == ~nav.active
    <3>1. badge' = Badge!Painted(cacheWarm, off, total)
      BY <2>1
    <3> HIDE DEF off
    <3>2. total <= total
      BY <1>0
    <3> QED BY <1>0, <1>b, <3>1, <3>2
  <2> QED BY <1>0, <2>1, <2>2 DEF MemoryInv, Badge!Open
<1>6. CASE Badge!CloseTab
  <2>1. page' = "closed"
    BY <1>6, Zenon DEF Badge!CloseTab
  <2> QED BY <2>1 DEF MemoryInv, Badge!Open
<1>7. CASE Badge!RepaintAllTabs
  <2>1. /\ UNCHANGED <<page, total, memTotal, badgeCounted>>
        /\ \/ badge' = Badge!Painted(cacheWarm, inactive', Badge!Remembered)
           \/ UNCHANGED badge
    BY <1>7, Zenon DEF Badge!RepaintAllTabs
  <2>2. Badge!Open => badge' <= total
    BY <1>0, <1>b, <1>c, <2>1 DEF MemoryInv
  <2>3. Badge!Open' => Badge!Open
    BY <2>1 DEF Badge!Open
  <2> QED BY <1>0, <2>1, <2>2, <2>3, MemoryStays
<1>8. CASE Badge!ListenerTellsShowBadge
  <2> DEFINE known == IF total > 0 THEN total ELSE memTotal
  <2>1. /\ UNCHANGED <<page, total, badgeCounted>>
        /\ \/ /\ memTotal' = known /\ Badge!Open
              /\ badge' = IF badgePrefs.show THEN Badge!BadgeText(inactive, known)
                          ELSE Badge!Blank
           \/ UNCHANGED <<memTotal, badge>>
    BY <1>8, Zenon DEF Badge!ListenerTellsShowBadge
  <2>2. CASE UNCHANGED <<memTotal, badge>>
    BY <1>0, <2>1, <2>2 DEF MemoryInv, Badge!Open
  <2>3. CASE /\ memTotal' = known /\ Badge!Open
             /\ badge' = IF badgePrefs.show THEN Badge!BadgeText(inactive, known)
                         ELSE Badge!Blank
    <3>1. known <= total /\ (memTotal \in {Badge!Unknown, total} => known \in {Badge!Unknown, total})
      BY <1>0, <1>a, <2>3 DEF MemoryInv
    <3>2. badge' = known \/ badge' = Badge!Glyph \/ badge' = Badge!Blank
      BY <2>3 DEF Badge!BadgeText
    <3>3. badge' <= total
      BY <1>0, <1>a, <3>1, <3>2
    <3> HIDE DEF known
    <3> QED BY <1>0, <2>1, <2>3, <3>1, <3>3 DEF MemoryInv, Badge!Open
  <2> QED BY <2>1, <2>2, <2>3
<1>9. CASE Badge!Evict
  <2>1. /\ memTotal' = Badge!Unknown /\ badgeCounted = <<>>
        /\ UNCHANGED <<page, total, badge, badgeCounted>>
    BY <1>9, Zenon DEF Badge!Evict, Badge!Idle
  <2> QED BY <1>0, <1>a, <2>1 DEF MemoryInv, Badge!Open
<1> QED
  BY <1>1, <1>2, <1>3, <1>4, <1>5, <1>6, <1>7, <1>8, <1>9, Zenon DEF Badge!Next

LEMMA OneLong ==
  ASSUME NEW S, NEW s \in Seq(S), s # <<>>, Len(s) <= 1
  PROVE  Len(s) = 1 /\ s[1] \in S /\ Head(s) = s[1] /\ Tail(s) = <<>>
<1>1. Len(s) \in Nat /\ Len(s) # 0
  BY EmptySeq, LenProperties
<1>2. \A n \in Nat : n # 0 /\ n <= 1 => n = 1
  OBVIOUS
<1>3. Len(s) = 1
  BY <1>1, <1>2, Zenon
<1>4. Head(s) = s[1] /\ s[1] \in S
  BY <1>3
<1>5. Tail(s) \in Seq(S) /\ Len(Tail(s)) = 0
  BY <1>3, HeadTailProperties
<1> QED BY <1>3, <1>4, <1>5, EmptySeq

LEMMA LastCounted ==
  ASSUME NEW S, NEW s \in Seq(S), s # <<>>, Tail(s) = <<>>
  PROVE  Len(s) = 1 /\ Head(s) = s[1]
<1>1. Len(s) \in Nat /\ Len(Tail(s)) = Len(s) - 1 /\ Len(Tail(s)) = 0
  BY EmptySeq, LenProperties, HeadTailProperties
<1>2. \A n \in Nat : n - 1 = 0 => n = 1
  OBVIOUS
<1> QED BY <1>1, <1>2

LEMMA StepsStep == BadgeInv /\ [Badge!Next]_Badge!vars => StepInv'
<1> SUFFICES ASSUME BadgeInv, [Badge!Next]_Badge!vars PROVE StepInv'
  OBVIOUS
<1>0. /\ BadgeTypes /\ StepInv /\ badgePrefs \in BadgePrefs /\ badgeHeard \in Seq(Notice)
      /\ nav \in [pc : {"idle", "readingPrefs", "readingTotal"}, active : BOOLEAN]
      /\ badgePrefs.done \in BOOLEAN
  BY DEF BadgeInv, BadgeTypes, BadgePrefs
<1>a. Badge!NoNav.pc = "idle" /\ Badge!NoNav # [Badge!NoNav EXCEPT !.pc = "readingPrefs"]
  BY DEF Badge!NoNav
<1>b. ASSUME NEW w, NEW off, NEW c, ~badgePrefs.done
      PROVE  Badge!Painted(w, off, c) = badge
  BY <1>b, Zenon DEF Badge!Painted
<1>1. CASE \/ Badge!Clean \/ (\E i \in DOMAIN queue : Badge!SessionStep(i))
           \/ UNCHANGED Badge!vars
  <2>1. UNCHANGED <<badgePrefs, cacheWarm, page, badge, nav, badgeHeard>>
    BY <1>1, Zenon DEF Badge!Clean, Badge!SessionStep, Badge!vars
  <2> QED BY <1>0, <2>1, Zenon DEF StepInv, Active, Badge!Open, Badge!ActiveOn
<1>2. CASE Badge!EmitCleaned
  <2>1. /\ UNCHANGED <<badgePrefs, page, nav, badgeHeard>> /\ cacheWarm' = TRUE
        /\ badge' = Badge!Painted(TRUE, inactive, Head(badgeCounted))
    BY <1>2, Zenon DEF Badge!EmitCleaned
  <2>2. ~badgePrefs.done => badge' = badge
    BY <1>b, <2>1
  <2> QED BY <1>0, <2>1, <2>2, Zenon DEF StepInv, Active, Badge!Open, Badge!ActiveOn
<1>3. ASSUME NEW site \in {"a", "b"}, Badge!Navigate(site)
      PROVE  StepInv'
  <2>1. /\ UNCHANGED <<badgePrefs, cacheWarm, badgeHeard>> /\ badge' = Badge!Blank
        /\ nav' = [Badge!NoNav EXCEPT !.pc = "readingPrefs"]
    BY <1>3, Zenon DEF Badge!Navigate
  <2>2. nav'.pc = "readingPrefs"
    BY <2>1 DEF Badge!NoNav
  <2>3. nav'.pc # "idle" /\ nav'.pc # "readingTotal"
    BY <2>2
  <2> QED BY <1>0, <2>1, <2>3, Zenon DEF StepInv
<1>4. CASE Badge!NavReadsPrefs
  <2>1. /\ UNCHANGED <<badgePrefs, page, badge, badgeHeard>> /\ cacheWarm' = TRUE
        /\ \/ /\ badgePrefs.done
              /\ nav' = [pc |-> "readingTotal", active |-> Badge!ActiveOn(badgePrefs, page)]
           \/ nav' = Badge!NoNav
    BY <1>4, Zenon DEF Badge!NavReadsPrefs
  <2>2. CASE /\ badgePrefs.done
             /\ nav' = [pc |-> "readingTotal", active |-> Badge!ActiveOn(badgePrefs, page)]
    <3>1. nav'.pc = "readingTotal" /\ nav'.active = Active
      BY <2>2, Zenon DEF Active
    <3>2. nav'.pc # "idle"
      BY <3>1
    <3> QED BY <1>0, <2>1, <2>2, <3>1, <3>2, Zenon DEF StepInv, Active, Badge!ActiveOn
  <2>3. CASE nav' = Badge!NoNav
    <3>1. nav'.pc = "idle" /\ nav'.pc # "readingTotal"
      BY <1>a, <2>3
    <3> QED BY <1>0, <2>1, <2>3, <3>1, Zenon DEF StepInv
  <2> QED BY <2>1, <2>2, <2>3
<1>5. CASE Badge!NavRepaints
  <2>1. /\ UNCHANGED <<badgePrefs, cacheWarm, page, badgeHeard>> /\ nav' = Badge!NoNav
        /\ badge' = Badge!Painted(cacheWarm, ~nav.active, total)
    BY <1>5, Zenon DEF Badge!NavRepaints, Badge!TotalOnNavigation
  <2>2. nav'.pc = "idle" /\ nav'.pc # "readingTotal"
    BY <1>a, <2>1
  <2>3. ~badgePrefs.done => badge' = badge
    BY <2>1, Zenon DEF Badge!Painted
  <2> QED BY <1>0, <2>1, <2>2, <2>3, Zenon DEF StepInv
<1>6. CASE Badge!CloseTab
  <2>1. /\ UNCHANGED <<badgePrefs, cacheWarm, nav, badgeHeard>> /\ page' = "closed"
        /\ badge' = Badge!Blank
    BY <1>6, Zenon DEF Badge!CloseTab
  <2> QED BY <1>0, <2>1, Zenon DEF StepInv, Badge!Open
<1>7. ASSUME NEW key \in {"on", "paused", "show", "done"}, Badge!Change(key)
      PROVE  StepInv'
  <2> DEFINE notice == [key |-> key, pc |-> "start", read |-> badgePrefs]
  <2>1. /\ badgeHeard = <<>> /\ badgeHeard' = Append(badgeHeard, notice)
        /\ nav = Badge!NoNav /\ UNCHANGED <<badge, nav>>
        /\ badgePrefs' = [badgePrefs EXCEPT ![key] = ~badgePrefs[key]]
        /\ key = "done" => ~badgePrefs.done
    BY <1>7, Zenon DEF Badge!Change, Badge!Idle
  <2>2. notice.pc = "start"
    OBVIOUS
  <2> HIDE DEF notice
  <2>3. Len(badgeHeard') = 1 /\ badgeHeard'[1] = notice
    BY <2>1
  <2>4. ~badgePrefs'.done => ~badgePrefs.done
    BY <1>0, <2>1 DEF BadgePrefs
  <2>5. /\ badgeHeard'[1].pc # "querying" /\ Len(badgeHeard') <= 1
        /\ nav'.pc # "readingTotal" /\ nav' = Badge!NoNav
    BY <1>a, <2>1, <2>2, <2>3
  <2> QED BY <1>0, <2>1, <2>4, <2>5, Zenon DEF StepInv
<1>8. CASE Badge!ListenerReadsPrefs
  <2>1. /\ badgeHeard # <<>> /\ badgeHeard[1].key # "show" /\ cacheWarm' = TRUE
        /\ \/ /\ badgePrefs.done
              /\ badgeHeard' = [badgeHeard EXCEPT ![1].pc = "querying", ![1].read = badgePrefs]
           \/ badgeHeard' = Tail(badgeHeard)
        /\ UNCHANGED <<badgePrefs, page, badge, nav>>
    <3>1. badgeHeard # <<>> => Head(badgeHeard) = badgeHeard[1]
      BY <1>0
    <3> QED BY <1>8, <3>1, Zenon DEF Badge!ListenerReadsPrefs
  <2>2. Len(badgeHeard) = 1 /\ badgeHeard[1] \in Notice
    <3>1. Len(badgeHeard) <= 1
      BY <1>0, Zenon DEF StepInv
    <3> QED BY <1>0, <2>1, <3>1, OneLong
  <2>3. CASE /\ badgePrefs.done
             /\ badgeHeard' = [badgeHeard EXCEPT ![1].pc = "querying", ![1].read = badgePrefs]
    <3> DEFINE one == [badgeHeard[1] EXCEPT !.pc = "querying", !.read = badgePrefs]
    <3>1. one.key # "show" /\ one.read = badgePrefs
      BY <2>1, <2>2 DEF Notice
    <3>2. badgeHeard' = [badgeHeard EXCEPT ![1] = one]
      BY <1>0, <2>2, <2>3
    <3> HIDE DEF one
    <3>3. badgeHeard'[1] = one /\ Len(badgeHeard') = 1
      BY <1>0, <2>2, <3>2
    <3>4. Len(badgeHeard') <= 1
      BY <3>3
    <3> QED BY <1>0, <2>1, <2>3, <3>1, <3>3, <3>4, Zenon DEF StepInv, Active, Badge!Open, Badge!ActiveOn
  <2>4. CASE badgeHeard' = Tail(badgeHeard)
    <3>1. Len(badgeHeard') = 0 /\ badgeHeard' = <<>>
      BY <1>0, <2>1, <2>2, <2>4
    <3>2. Len(badgeHeard') <= 1
      BY <3>1
    <3> QED BY <1>0, <2>1, <3>1, <3>2, Zenon DEF StepInv, Active, Badge!Open, Badge!ActiveOn
  <2> QED BY <2>1, <2>3, <2>4
<1>9. CASE Badge!RepaintAllTabs \/ Badge!ListenerTellsShowBadge
  <2>1. /\ badgeHeard # <<>> /\ badgeHeard' = Tail(badgeHeard)
        /\ UNCHANGED <<badgePrefs, cacheWarm, page, nav>>
        /\ badgePrefs.done \/ badge' = badge \/ badge' = Badge!Painted(cacheWarm, inactive', Badge!Remembered)
    BY <1>9, Zenon DEF Badge!RepaintAllTabs, Badge!ListenerTellsShowBadge
  <2>2. ~badgePrefs.done => badge' = badge
    BY <1>b, <2>1, Zenon
  <2>3. badgeHeard' = <<>> /\ Len(badgeHeard') <= 1
    BY <1>0, <2>1 DEF StepInv
  <2> QED BY <1>0, <2>1, <2>2, <2>3, Zenon DEF StepInv, Active, Badge!Open, Badge!ActiveOn
<1>10. CASE Badge!Evict
  <2>1. /\ badgeHeard = <<>> /\ nav = Badge!NoNav
        /\ UNCHANGED <<badgePrefs, page, badge, nav, badgeHeard>>
    BY <1>10, Zenon DEF Badge!Evict, Badge!Idle
  <2>2. nav'.pc # "readingTotal"
    BY <1>a, <2>1
  <2> QED BY <1>0, <2>1, <2>2, Zenon DEF StepInv
<1> QED
  BY <1>1, <1>2, <1>3, <1>4, <1>5, <1>6, <1>7, <1>8, <1>9, <1>10, Zenon DEF Badge!Next

LEMMA ClosedStep == BadgeInv /\ [Badge!Next]_Badge!vars => ClosedInv'
<1> SUFFICES ASSUME BadgeInv, [Badge!Next]_Badge!vars PROVE ClosedInv'
  OBVIOUS
<1>0. /\ BadgeTypes /\ ClosedInv /\ queue \in Seq(Task) /\ badgeCounted \in Seq(Nat)
  BY DEF BadgeInv, BadgeTypes
<1>a. Badge!NoNav.pc = "idle"
  BY DEF Badge!NoNav
<1>1. CASE Badge!Clean \/ (\E site \in {"a", "b"} : Badge!Navigate(site))
  <2>1. page' # "closed"
    BY <1>1 DEF Badge!Clean, Badge!Navigate, Badge!Open
  <2> QED BY <2>1 DEF ClosedInv, Badge!Open
<1>2. CASE (\E i \in DOMAIN queue : Badge!SessionStep(i)) \/ Badge!EmitCleaned
           \/ Badge!NavReadsPrefs \/ Badge!NavRepaints
  <2>1. UNCHANGED <<page, badgeUnguarded>>
    BY <1>2, Zenon DEF Badge!SessionStep, Badge!EmitCleaned, Badge!NavReadsPrefs, Badge!NavRepaints
  <2>2. queue # <<>> \/ badgeCounted # <<>> \/ nav # Badge!NoNav
    <3>1. (\E i \in DOMAIN queue : Badge!SessionStep(i)) => queue # <<>>
      BY <1>0, SessionStepIs
    <3>2. Badge!NavReadsPrefs \/ Badge!NavRepaints => nav # Badge!NoNav
      BY <1>a DEF Badge!NavReadsPrefs, Badge!NavRepaints
    <3> QED BY <1>2, <3>1, <3>2, Zenon DEF Badge!EmitCleaned
  <2> QED BY <1>0, <2>1, <2>2, Zenon DEF ClosedInv, Badge!Open
<1>3. CASE Badge!CloseTab
  <2>1. /\ pageCount' = 0 /\ total' = 0 /\ memTotal' = Badge!Unknown
        /\ badgeUnguarded' = ~Badge!Idle /\ UNCHANGED <<queue, badgeCounted, nav>>
    BY <1>3, Zenon DEF Badge!CloseTab, Badge!TotalAfterClose
  <2> QED BY <2>1, Zenon DEF ClosedInv, Badge!Idle
<1>4. CASE \/ (\E key \in {"on", "paused", "show", "done"} : Badge!Change(key))
           \/ Badge!ListenerReadsPrefs \/ Badge!RepaintAllTabs \/ UNCHANGED Badge!vars
  <2>1. UNCHANGED <<page, badgeUnguarded, queue, badgeCounted, nav, pageCount, total, memTotal>>
    BY <1>4, Zenon DEF Badge!Change, Badge!ListenerReadsPrefs, Badge!RepaintAllTabs, Badge!vars
  <2> QED BY <1>0, <2>1, Zenon DEF ClosedInv, Badge!Open
<1>5. CASE Badge!ListenerTellsShowBadge
  <2>1. /\ UNCHANGED <<page, queue, badgeCounted, nav, pageCount, total>>
        /\ \/ Badge!Open
           \/ badgeUnguarded' = TRUE
    BY <1>5, Zenon DEF Badge!ListenerTellsShowBadge
  <2> QED BY <1>0, <2>1, Zenon DEF ClosedInv, Badge!Open
<1>6. CASE Badge!Evict
  <2>1. UNCHANGED <<page, badgeUnguarded, queue, badgeCounted, nav, pageCount, total>>
        /\ memTotal' = Badge!Unknown
    BY <1>6, Zenon DEF Badge!Evict
  <2> QED BY <1>0, <2>1, Zenon DEF ClosedInv, Badge!Open
<1> QED
  BY <1>1, <1>2, <1>3, <1>4, <1>5, <1>6, Zenon DEF Badge!Next

\* The steps that change nothing the badge is judged by, but may queue or count.
LEMMA PaintStays ==
  ASSUME PaintInv,
         UNCHANGED <<badgePrefs, page, badge, nav, badgeHeard, inactive, memTotal, total,
                     badgeCounted, badgeUnguarded>>,
         cacheWarm' = cacheWarm, queue' # <<>> => Active
  PROVE  PaintInv'
<1> QED BY Zenon DEF PaintInv, Truth, Active, Repainted, Badge!Open, Badge!ActiveOn

LEMMA PaintStep == BadgeInv /\ [Badge!Next]_Badge!vars => PaintInv'
<1> SUFFICES ASSUME BadgeInv, [Badge!Next]_Badge!vars, Badge!Open', ~badgeUnguarded'
             PROVE  PaintInv'
  BY DEF PaintInv
<1>0. /\ BadgeTypes /\ CountInv /\ MemoryInv /\ StepInv /\ PaintInv
      /\ badgePrefs \in BadgePrefs /\ badgeHeard \in Seq(Notice)
      /\ badgeCounted \in Seq(Nat) /\ queue \in Seq(Task) /\ total \in Nat
      /\ memTotal \in Nat \cup {Badge!Unknown} /\ inactive \in BOOLEAN
  BY DEF BadgeInv, BadgeTypes
<1>a. Badge!Unknown = -1 /\ Badge!Blank = 0 /\ Badge!Glyph = -1
  BY DEF Badge!Unknown, Badge!Blank, Badge!Glyph
<1>b. Active \in BOOLEAN /\ (Active => badgePrefs.done)
  BY Zenon DEF Active, Badge!ActiveOn
<1>c. /\ Badge!NoNav.pc = "idle" /\ Badge!NoNav # [Badge!NoNav EXCEPT !.pc = "readingPrefs"]
  BY DEF Badge!NoNav
<1>1. CASE Badge!Clean
  <2>1. /\ UNCHANGED <<badgePrefs, page, badge, nav, badgeHeard, inactive, memTotal, total,
                       badgeCounted, badgeUnguarded, cacheWarm>>
        /\ Active
    BY <1>1, Zenon DEF Badge!Clean, Active
  <2> QED BY <1>0, <2>1, PaintStays
<1>2. ASSUME NEW i \in DOMAIN queue, Badge!SessionStep(i)
      PROVE  PaintInv'
  <2>1. /\ UNCHANGED <<badgeUnguarded, badgePrefs, cacheWarm, page, memTotal, inactive,
                       badge, nav, badgeHeard>>
        /\ queue # <<>>
        /\ \/ UNCHANGED <<total, badgeCounted>>
           \/ badgeCounted' = Append(badgeCounted, total') /\ total' = queue[1].seen + 1
    BY <1>0, <1>2, SessionStepIs, Zenon
  <2>2. Badge!Open /\ ~badgeUnguarded /\ Active
    BY <1>0, <2>1, Zenon DEF PaintInv, Badge!Open
  <2>3. CASE UNCHANGED <<total, badgeCounted>>
    BY <1>0, <2>1, <2>2, <2>3, PaintStays
  <2>4. CASE badgeCounted' = Append(badgeCounted, total') /\ total' = queue[1].seen + 1
    <3>1. badgeCounted' # <<>>
      BY <1>0, <2>4
    <3>2. Active' = Active
      BY <2>1 DEF Active, Badge!ActiveOn
    <3> QED BY <1>0, <2>1, <2>2, <3>1, <3>2, Zenon DEF PaintInv, Repainted
  <2> QED BY <2>1, <2>3, <2>4
<1>3. CASE Badge!EmitCleaned
  <2>1. /\ badgeCounted # <<>> /\ badgeCounted' = Tail(badgeCounted) /\ cacheWarm' = TRUE
        /\ memTotal' = Head(badgeCounted)
        /\ badge' = Badge!Painted(TRUE, inactive, Head(badgeCounted))
        /\ UNCHANGED <<badgeUnguarded, badgePrefs, page, total, inactive, queue, nav, badgeHeard>>
    BY <1>3, Zenon DEF Badge!EmitCleaned
  <2>2. Badge!Open /\ ~badgeUnguarded /\ Active
    BY <1>0, <2>1, Zenon DEF PaintInv, Badge!Open
  <2>3. Active' /\ (Repainted' <=> Repainted)
    BY <2>1, <2>2, Zenon DEF Active, Badge!ActiveOn, Repainted
  <2>4. ~badgePrefs.show => badge' = badge
    BY <2>1, Zenon DEF Badge!Painted
  <2>5. ASSUME badgePrefs.done, nav = Badge!NoNav, badgeHeard = <<>>, badgeCounted' = <<>>
        PROVE  badge' = Truth'
    <3>1. ~inactive
      BY <1>0, <2>2, <2>5, Zenon DEF PaintInv, Repainted
    <3>2. Head(badgeCounted) = total
      <4>1. badgeCounted[Len(badgeCounted)] = total
        BY <1>0, <2>1, <2>2 DEF MemoryInv
      <4>2. Len(badgeCounted) = 1 /\ Head(badgeCounted) = badgeCounted[1]
        BY <1>0, <2>1, <2>5, LastCounted
      <4> QED BY <4>1, <4>2
    <3>3. badgePrefs.show => badge' = total
      BY <2>1, <2>2, <2>5, <3>1, <3>2, Zenon DEF Badge!Painted, Badge!BadgeText
    <3>4. ~badgePrefs.show => badge' = Badge!Blank
      BY <1>0, <2>2, <2>4, <2>5, Zenon DEF PaintInv
    <3> QED BY <2>1, <2>3, <3>3, <3>4, Zenon DEF Truth
  <2> QED BY <1>0, <2>1, <2>2, <2>3, <2>4, <2>5, Zenon DEF PaintInv, Repainted
<1>4. ASSUME NEW site \in {"a", "b"}, Badge!Navigate(site)
      PROVE  PaintInv'
  <2>1. /\ badgeUnguarded' = ~Badge!Idle /\ badge' = Badge!Blank
        /\ nav' = [Badge!NoNav EXCEPT !.pc = "readingPrefs"]
        /\ UNCHANGED <<badgePrefs, cacheWarm, queue, badgeCounted, badgeHeard>>
    BY <1>4, Zenon DEF Badge!Navigate
  <2>2. queue' = <<>> /\ badgeCounted' = <<>> /\ badgeHeard' = <<>>
    BY <2>1, Zenon DEF Badge!Idle
  <2>3. nav' # Badge!NoNav
    BY <1>c, <2>1
  <2> QED BY <2>1, <2>2, <2>3, Zenon DEF PaintInv
<1>5. CASE Badge!NavReadsPrefs
  <2>1. /\ nav.pc = "readingPrefs"
        /\ UNCHANGED <<badgeUnguarded, badgePrefs, page, pageCount, total, memTotal,
                       inactive, badge, queue, badgeCounted, badgeHeard>>
        /\ badgePrefs.done =>
             nav' = [pc |-> "readingTotal", active |-> Badge!ActiveOn(badgePrefs, page)]
    BY <1>5, Zenon DEF Badge!NavReadsPrefs
  <2>2. nav # Badge!NoNav
    BY <1>c, <2>1
  <2>3. badgePrefs.done => nav' # Badge!NoNav
    BY <1>c, <2>1
  <2>4. Badge!Open /\ ~badgeUnguarded /\ badgeHeard = <<>>
    BY <1>0, <2>1, <2>2, Zenon DEF PaintInv, Badge!Open
  <2>5. Active' = Active
    BY <2>1 DEF Active, Badge!ActiveOn
  <2> QED BY <1>0, <2>1, <2>2, <2>3, <2>4, <2>5, Zenon DEF PaintInv
<1>6. CASE Badge!NavRepaints
  <2>1. /\ nav.pc = "readingTotal" /\ memTotal' = total /\ inactive' = ~nav.active
        /\ badge' = Badge!Painted(cacheWarm, ~nav.active, total) /\ nav' = Badge!NoNav
        /\ UNCHANGED <<badgeUnguarded, badgePrefs, cacheWarm, page, total, queue,
                       badgeCounted, badgeHeard>>
    BY <1>6, Zenon DEF Badge!NavRepaints, Badge!TotalOnNavigation
  <2>2. nav # Badge!NoNav
    BY <1>c, <2>1
  <2>3. Badge!Open /\ ~badgeUnguarded /\ badgeHeard = <<>>
    BY <1>0, <2>1, <2>2, Zenon DEF PaintInv, Badge!Open
  <2>4. cacheWarm /\ badgePrefs.done /\ nav.active = Active
    BY <1>0, <2>1, <2>3, Zenon DEF StepInv
  <2>5. Active' = Active
    BY <2>1 DEF Active, Badge!ActiveOn
  <2>6. inactive' <=> ~Active
    BY <2>1, <2>4, Zenon
  <2>7. ~badgePrefs.show => badge' = Badge!Blank
    BY <1>0, <2>1, <2>3, Zenon DEF PaintInv, Badge!Painted
  <2>8. badgePrefs.show => badge' = IF Active THEN total ELSE Badge!Glyph
    BY <2>1, <2>3, <2>4, Zenon DEF Badge!Painted, Badge!BadgeText
  <2>9. badge' = Truth'
    BY <2>1, <2>5, <2>7, <2>8, Zenon DEF Truth
  <2> QED BY <1>0, <2>1, <2>3, <2>5, <2>6, <2>7, <2>9, Zenon DEF PaintInv
<1>7. CASE Badge!CloseTab
  <2>1. page' = "closed"
    BY <1>7, Zenon DEF Badge!CloseTab
  <2> QED BY <2>1 DEF Badge!Open
<1>8. ASSUME NEW key \in {"on", "paused", "show", "done"}, Badge!Change(key)
      PROVE  PaintInv'
  <2> DEFINE notice == [key |-> key, pc |-> "start", read |-> badgePrefs]
  <2>1. /\ queue = <<>> /\ badgeCounted = <<>> /\ badgeHeard = <<>> /\ nav = Badge!NoNav
        /\ badgeHeard' = Append(badgeHeard, notice) /\ cacheWarm' = FALSE
        /\ badgePrefs' = [badgePrefs EXCEPT ![key] = ~badgePrefs[key]]
        /\ UNCHANGED <<badgeUnguarded, page, total, memTotal, inactive, badge,
                       queue, badgeCounted, nav>>
    BY <1>8, Zenon DEF Badge!Change, Badge!Idle
  <2>2. notice.key = key
    OBVIOUS
  <2> HIDE DEF notice
  <2>3. badgeHeard' # <<>> /\ badgeHeard'[1].key = key
    BY <2>1, <2>2
  <2>4. Badge!Open /\ ~badgeUnguarded
    BY <2>1, Zenon DEF Badge!Open
  <2>5. CASE key = "show"
    <3>1. /\ badgePrefs'.on = badgePrefs.on /\ badgePrefs'.done = badgePrefs.done
          /\ badgePrefs'.paused = badgePrefs.paused
      BY <1>0, <2>1, <2>5 DEF BadgePrefs
    <3>2. Active' = Active
      BY <2>1, <3>1 DEF Active, Badge!ActiveOn
    <3>3. badgePrefs'.done /\ Repainted' => (inactive' => ~Active')
      BY <1>0, <2>1, <2>4, <3>1, <3>2, Zenon DEF PaintInv, Repainted
    <3> QED BY <1>0, <2>1, <2>3, <2>5, <3>3, Zenon DEF PaintInv
  <2>6. CASE key # "show"
    <3>1. badgePrefs'.show = badgePrefs.show
      BY <1>0, <2>1, <2>6 DEF BadgePrefs
    <3>2. ~Repainted'
      BY <2>3, <2>6, Zenon DEF Repainted
    <3>3. ~badgePrefs'.show => badge' = Badge!Blank
      BY <1>0, <2>1, <2>4, <3>1, Zenon DEF PaintInv
    <3> QED BY <2>1, <2>3, <3>2, <3>3, Zenon DEF PaintInv
  <2> QED BY <2>5, <2>6
<1>9. CASE Badge!ListenerReadsPrefs
  <2>1. /\ badgeHeard # <<>> /\ badgeHeard[1].pc = "start" /\ badgeHeard[1].key # "show"
        /\ IF badgePrefs.done
           THEN badgeHeard' = [badgeHeard EXCEPT ![1].pc = "querying", ![1].read = badgePrefs]
           ELSE badgeHeard' = Tail(badgeHeard)
        /\ UNCHANGED <<badgeUnguarded, badgePrefs, page, total, memTotal,
                       inactive, badge, queue, badgeCounted, nav>>
    <3>1. badgeHeard # <<>> => Head(badgeHeard) = badgeHeard[1]
      BY <1>0
    <3> QED BY <1>9, <3>1, Zenon DEF Badge!ListenerReadsPrefs
  <2>2. Badge!Open /\ ~badgeUnguarded /\ nav = Badge!NoNav
    BY <1>0, <2>1, Zenon DEF PaintInv, Badge!Open
  <2>3. ~badgePrefs.show => badge = Badge!Blank
    BY <1>0, <2>1, <2>2, Zenon DEF PaintInv
  <2>4. Active' = Active
    BY <2>1 DEF Active, Badge!ActiveOn
  <2>5. queue # <<>> \/ badgeCounted # <<>> => Active
    BY <1>0, <2>2, Zenon DEF PaintInv
  <2>6. Len(badgeHeard) = 1 /\ badgeHeard[1] \in Notice /\ Tail(badgeHeard) = <<>>
    BY <1>0, <2>1, OneLong DEF StepInv
  <2>7. CASE badgePrefs.done
    <3> DEFINE one == [badgeHeard[1] EXCEPT !.pc = "querying", !.read = badgePrefs]
    <3>1. one.key = badgeHeard[1].key /\ one.pc = "querying"
      BY <2>6 DEF Notice
    <3>2. badgeHeard' = [badgeHeard EXCEPT ![1] = one]
      BY <1>0, <2>1, <2>6, <2>7
    <3> HIDE DEF one
    <3>3. badgeHeard'[1] = one /\ badgeHeard' # <<>>
      <4>1. badgeHeard'[1] = one /\ Len(badgeHeard') = 1
        BY <1>0, <2>6, <3>2
      <4> QED BY <4>1
    <3>4. badgeHeard'[1].key # "show" /\ badgeHeard'[1].pc # "start"
      BY <2>1, <3>1, <3>3
    <3>5. ~Repainted'
      BY <3>3, <3>4, Zenon DEF Repainted
    <3> QED BY <2>1, <2>2, <2>3, <2>4, <2>5, <3>3, <3>4, <3>5, Zenon DEF PaintInv
  <2>8. CASE ~badgePrefs.done
    <3>1. badgeHeard' = <<>>
      BY <2>1, <2>6, <2>8
    <3> QED BY <2>1, <2>2, <2>3, <2>4, <2>5, <2>8, <3>1, Zenon DEF PaintInv
  <2> QED BY <2>7, <2>8
<1>10. CASE Badge!RepaintAllTabs
  <2>1. /\ badgeHeard # <<>> /\ Head(badgeHeard) = badgeHeard[1]
        /\ badgeHeard[1].pc = "querying" /\ badgeHeard' = <<>>
        /\ Badge!Open => /\ inactive' = ~Badge!ActiveOn(badgeHeard[1].read, page)
                         /\ badge' = Badge!Painted(cacheWarm, inactive', Badge!Remembered)
        /\ UNCHANGED <<badgeUnguarded, badgePrefs, cacheWarm, page, total, memTotal, queue,
                       badgeCounted, nav>>
    <3>1. badgeHeard # <<>> /\ badgeHeard' = Tail(badgeHeard)
      BY <1>10, Zenon DEF Badge!RepaintAllTabs
    <3>2. Head(badgeHeard) = badgeHeard[1] /\ Tail(badgeHeard) = <<>>
      BY <1>0, <3>1, OneLong DEF StepInv
    <3> QED BY <1>10, <3>1, <3>2, Zenon DEF Badge!RepaintAllTabs
  <2>2. Badge!Open /\ ~badgeUnguarded /\ nav = Badge!NoNav
    BY <1>0, <2>1, Zenon DEF PaintInv, Badge!Open
  <2>3. cacheWarm /\ badgePrefs.done /\ badgeHeard[1].read = badgePrefs /\ badgeHeard[1].key # "show"
    BY <1>0, <2>1, Zenon DEF StepInv
  <2>4. Active' = Active /\ (inactive' <=> ~Active)
    BY <2>1, <2>2, <2>3, Zenon DEF Active, Badge!ActiveOn
  <2>5. queue # <<>> \/ badgeCounted # <<>> => Active
    BY <1>0, <2>2, Zenon DEF PaintInv
  <2>6. ~badgePrefs.show => badge' = Badge!Blank
    BY <1>0, <2>1, <2>2, <2>3, Zenon DEF PaintInv, Badge!Painted
  <2>7. badgePrefs.show => badge' = IF Active THEN Badge!Remembered ELSE Badge!Glyph
    BY <2>1, <2>2, <2>3, <2>4, Zenon DEF Badge!Painted, Badge!BadgeText
  <2>8. badgeCounted = <<>> =>
          \/ Badge!Remembered = total
          \/ memTotal = Badge!Unknown /\ Badge!Remembered = Badge!Blank
    BY <1>0, <1>a, <2>2 DEF MemoryInv, Badge!Remembered
  <2>9. badgeCounted' = <<>> => badge' = Truth' \/ (memTotal' = Badge!Unknown /\ badge' = Badge!Blank)
    BY <2>1, <2>4, <2>6, <2>7, <2>8, Zenon DEF Truth
  <2> QED BY <2>1, <2>2, <2>4, <2>5, <2>6, <2>9, Zenon DEF PaintInv
<1>11. CASE Badge!ListenerTellsShowBadge
  <2> DEFINE known == IF total > 0 THEN total ELSE memTotal
  <2>1. /\ badgeHeard # <<>> /\ Head(badgeHeard) = badgeHeard[1]
        /\ badgeHeard[1].pc = "start" /\ badgeHeard[1].key = "show" /\ badgeHeard' = <<>>
    <3>1. badgeHeard # <<>> /\ badgeHeard' = Tail(badgeHeard)
      BY <1>11, Zenon DEF Badge!ListenerTellsShowBadge
    <3>2. Head(badgeHeard) = badgeHeard[1] /\ Tail(badgeHeard) = <<>>
      BY <1>0, <3>1, OneLong DEF StepInv
    <3> QED BY <1>11, <3>1, <3>2, Zenon DEF Badge!ListenerTellsShowBadge
  <2>2. /\ cacheWarm /\ badgePrefs.done /\ known # Badge!Unknown /\ memTotal' = known
        /\ badge' = IF badgePrefs.show THEN Badge!BadgeText(inactive, known) ELSE Badge!Blank
        /\ UNCHANGED <<badgeUnguarded, badgePrefs, cacheWarm, page, total, inactive, queue,
                       badgeCounted, nav>>
    BY <1>11, Zenon DEF Badge!ListenerTellsShowBadge
  <2>3. Badge!Open /\ ~badgeUnguarded
    BY <2>2, Zenon DEF Badge!Open
  <2>4. nav = Badge!NoNav /\ Active
    BY <1>0, <2>1, <2>2, <2>3, Zenon DEF PaintInv
  <2>5. Active' = Active
    BY <2>2 DEF Active, Badge!ActiveOn
  <2>6. ~inactive
    BY <1>0, <2>1, <2>2, <2>3, <2>4, Zenon DEF PaintInv, Repainted
  <2>7. badgeCounted = <<>> => known = total
    BY <1>0, <1>a, <2>2, <2>3 DEF MemoryInv
  <2> HIDE DEF known
  <2>8. badge' = IF badgePrefs.show THEN known ELSE Badge!Blank
    BY <2>2, <2>6, Zenon DEF Badge!BadgeText
  <2>9. badgeCounted' = <<>> => badge' = Truth'
    BY <2>2, <2>4, <2>5, <2>7, <2>8, Zenon DEF Truth
  <2>10. ~badgePrefs'.show => badge' = Badge!Blank
    BY <2>2, <2>8, Zenon
  <2> QED BY <2>1, <2>2, <2>4, <2>5, <2>6, <2>9, <2>10, Zenon DEF PaintInv
<1>12. CASE Badge!Evict
  <2>1. /\ queue = <<>> /\ badgeCounted = <<>> /\ badgeHeard = <<>> /\ nav = Badge!NoNav
        /\ memTotal' = Badge!Unknown /\ inactive' = FALSE
        /\ UNCHANGED <<badgeUnguarded, badgePrefs, page, total, badge, queue, badgeCounted,
                       nav, badgeHeard>>
    BY <1>12, Zenon DEF Badge!Evict, Badge!Idle
  <2>2. Badge!Open /\ ~badgeUnguarded
    BY <2>1, Zenon DEF Badge!Open
  <2>3. Active' = Active /\ Truth' = Truth
    BY <2>1, Zenon DEF Active, Badge!ActiveOn, Truth
  <2>4. badgePrefs.done => badge = Truth \/ badge = Badge!Blank
    BY <1>0, <2>1, <2>2, Zenon DEF PaintInv
  <2>5. ~badgePrefs.show => badge = Badge!Blank
    BY <1>0, <2>1, <2>2, Zenon DEF PaintInv
  <2> QED BY <2>1, <2>3, <2>4, <2>5, Zenon DEF PaintInv
<1>13. CASE UNCHANGED Badge!vars
  <2>1. UNCHANGED <<badgePrefs, page, badge, nav, badgeHeard, inactive, memTotal, total,
                    badgeCounted, badgeUnguarded, cacheWarm, queue>>
    BY <1>13, Zenon DEF Badge!vars
  <2>2. Badge!Open /\ ~badgeUnguarded
    BY <2>1, Zenon DEF Badge!Open
  <2>3. queue' # <<>> => Active
    BY <1>0, <2>1, <2>2, Zenon DEF PaintInv
  <2> QED BY <1>0, <2>1, <2>3, PaintStays
<1> QED
  BY <1>1, <1>2, <1>3, <1>4, <1>5, <1>6, <1>7, <1>8, <1>9, <1>10, <1>11, <1>12, <1>13, Zenon
  DEF Badge!Next

LEMMA BadgeAlways == Badge!Spec => []BadgeInv
<1>1. BadgeInv /\ [Badge!Next]_Badge!vars => BadgeInv'
  BY BadgeTypesStep, CountStep, MemoryStep, StepsStep, PaintStep, ClosedStep DEF BadgeInv
<1> QED BY <1>1, BadgeInit, PTL DEF Badge!Spec

LEMMA BadgeOfRun == RunSpec => Badge!Spec
<1>1. RunInit => Badge!Init
  BY DEF RunInit
<1>2. [RunNext]_allVars => [Badge!Next]_Badge!vars
  BY DEF RunNext, allVars, badgeVars, Badge!vars
<1> QED BY <1>1, <1>2, PTL DEF RunSpec, Badge!Spec

\* Whatever overlaps, the counts are those of the page and of the tab, the badge is
\* never ahead of them and, once nothing is under way, tells the truth; a tab closed
\* at rest leaves no session key and no entry of the presenter behind
\* (updateTabBadge, onTabUpdated, onTabRemoved, repaintAllTabsActiveState).
THEOREM BadgeTellsTheTruth == RunSpec => []BadgeSound
<1>1. BadgeInv => BadgeSound
  <2> SUFFICES ASSUME BadgeInv PROVE BadgeSound
    OBVIOUS
  <2>0. /\ CountInv /\ MemoryInv /\ StepInv /\ PaintInv /\ ClosedInv
        /\ total \in Nat /\ badge \in Nat \cup {Badge!Glyph} /\ queue \in Seq(Task)
        /\ cleans \in [page : Nat, tab : Nat] /\ pageCount \in Nat
    BY DEF BadgeInv, BadgeTypes
  <2>1. Badge!BadgeTruthful
    BY <2>0, Zenon DEF Badge!BadgeTruthful, Badge!Idle, PaintInv, Truth, Active
  <2>2. Badge!CountsExact
    <3>1. queue = <<>> => Len(queue) = 0 /\ PageOwed = 0
      BY DEF PageOwed
    <3>2. Badge!Idle => queue = <<>>
      BY Zenon DEF Badge!Idle
    <3> QED BY <2>0, <3>1, <3>2 DEF Badge!CountsExact, CountInv
  <2>3. Badge!NeverOverstated
    <3>1. Badge!Open => badge <= total /\ total + Len(queue) = cleans.tab
      BY <2>0 DEF MemoryInv, CountInv
    <3>2. Len(queue) \in Nat
      BY <2>0
    <3> QED BY <2>0, <3>1, <3>2 DEF Badge!NeverOverstated, Badge!Glyph
  <2>4. Badge!NothingLeftBehind
    BY <2>0, Zenon DEF Badge!NothingLeftBehind, ClosedInv
  <2> QED BY <2>1, <2>2, <2>3, <2>4 DEF BadgeSound
<1> QED BY <1>1, BadgeAlways, BadgeOfRun, PTL

-----------------------------------------------------------------------------
(* Least numbers, and induction on a set of numbers.                       *)

LEMMA NoneBefore ==
    ASSUME NEW Q, NEW N, IsWellFoundedOn(Q, N), NEW A, A \subseteq N, A # {}
    PROVE  \E u \in A : \A v \in A : ~(<<v, u>> \in Q)
  BY WFMin

LEMMA EarliestOf ==
    ASSUME NEW T, T \subseteq Nat, T # {}
    PROVE  \E m \in T : \A n \in T : m <= n
<1> DEFINE R == OpToRel(<, Nat)
           N == Nat
<1>1. IsWellFoundedOn(R, N)
  BY NatLessThanWellFounded
<1>2. \A x, y \in Nat : <<x, y>> \in R <=> x < y
  BY DEF OpToRel
<1>3. T \subseteq N
  OBVIOUS
<1>4. \E u \in T : \A v \in T : ~(<<v, u>> \in R)
  <2> HIDE DEF R, N
  <2> QED BY <1>1, <1>3, NoneBefore
<1>5. PICK u \in T : \A v \in T : ~(<<v, u>> \in R)
  BY <1>4, Zenon
<1>6. \A v \in T : ~(v < u)
  <2> HIDE DEF R, N
  <2> QED BY <1>2, <1>5
<1> HIDE DEF R, N
<1> QED BY <1>6

LEMMA Numbered ==
    ASSUME NEW S, 0 \in S, \A n \in Nat : n \in S => n + 1 \in S
    PROVE  Nat \subseteq S
<1> SUFFICES ASSUME NEW k \in Nat, k \notin S PROVE FALSE
  OBVIOUS
<1>1. PICK m \in Nat \ S : \A n \in Nat \ S : m <= n
  BY EarliestOf
<1>2. m # 0
  OBVIOUS
<1>3. m - 1 \in Nat /\ m - 1 \in S
  BY <1>1, <1>2
<1> QED BY <1>1, <1>3

-----------------------------------------------------------------------------
(* The frequency store.                                                    *)

Tracked == [domains : Seq(Domain), values : Seq(Value), lastSeen : Nat, count : Nat, sum : Nat]
Maps == UNION {[names -> Tracked] : names \in SUBSET Name}

Batches == [domain : Domain, value : Value, names : Seq(Name), at : Nat \ {0},
            pc : {"queued", "writing"}, seen : Maps, lost : BOOLEAN]

\* A clamped list: no entry twice, nothing that was not seen, and below its ceiling
\* everything that was.
Kept(list, max, seenOf) ==
    /\ Len(list) <= max
    /\ \A i, j \in 1..Len(list) : list[i] = list[j] => i = j
    /\ IsFiniteSet(seenOf) /\ \A i \in 1..Len(list) : list[i] \in seenOf
    /\ Len(list) < max => \A x \in seenOf : \E i \in 1..Len(list) : list[i] = x

\* A tracked parameter and its history.
EntrySound(entry, known) ==
    /\ Kept(entry.domains, Frequency!MaxDomains, known.domains)
    /\ Kept(entry.values, Frequency!MaxValues, known.values)
    /\ entry.count = known.count /\ entry.sum = known.sum

\* The parameters, their histories, and when each name was last recorded: what is
\* tracked was recorded then, and no later than it what is not.
StoreSound(map, known, recorded) ==
    /\ map \in Maps /\ DOMAIN known = DOMAIN map /\ recorded \in [Name -> Nat]
    /\ Cardinality(DOMAIN map) <= MaxTracked
    /\ \A n \in DOMAIN map :
            /\ EntrySound(map[n], known[n])
            /\ map[n].lastSeen = recorded[n] /\ recorded[n] # 0
    /\ \A n \in Name \ DOMAIN map, m \in DOMAIN map : recorded[n] <= recorded[m]

\* The batches come in the order of their times, all still to be recorded; the first
\* has read what is stored, or lost it, and the others have read nothing.
ChainInv ==
    /\ chain \in Seq(Batches)
    /\ \A i \in 1..Len(chain) :
            /\ chain[i].at <= clock /\ \A n \in Name : seenAt[n] < chain[i].at
            /\ i > 1 => chain[i].pc = "queued"
            /\ chain[i].seen = IF chain[i].pc = "queued" \/ chain[i].lost
                               THEN Frequency!Empty ELSE params
            /\ chain[i].pc = "queued" => ~chain[i].lost
    /\ \A i, j \in 1..Len(chain) : i < j => chain[i].at < chain[j].at

FreqInv ==
    /\ StoreSound(params, truth, seenAt) /\ ChainInv
    /\ clock \in Nat /\ \A n \in Name : seenAt[n] <= clock
    /\ batches \in Nat /\ freqFaults \in Nat
\* What the ceilings leave of a list with one entry more.
LEMMA Clamped ==
    ASSUME NEW X, NEW s \in Seq(X), NEW max \in Nat, Len(s) <= max + 1
    PROVE  LET d == IF Len(s) > max THEN 1 ELSE 0
               r == Frequency!Clamp(s, max)
           IN  /\ r \in Seq(X) /\ Len(r) = Len(s) - d
               /\ \A i \in 1..Len(s) - d : r[i] = s[i + d]
<1> DEFINE d == IF Len(s) > max THEN 1 ELSE 0
           r == Frequency!Clamp(s, max)
<1>1. Len(s) \in Nat /\ d \in {0, 1} /\ d <= Len(s)
  OBVIOUS
<1>2. (IF Len(s) > max THEN Len(s) - max + 1 ELSE 1) = 1 + d
  BY <1>1
<1>3. r = SubSeq(s, 1 + d, Len(s))
  <2>1. r = SubSeq(s, IF Len(s) > max THEN Len(s) - max + 1 ELSE 1, Len(s))
    BY DEF Frequency!Clamp
  <2> QED BY <1>2, <2>1, Zenon
<1>4. \A i \in (1 + d)..Len(s) : s[i] \in X
  BY <1>1
<1> HIDE DEF d
<1>5. /\ SubSeq(s, 1 + d, Len(s)) \in Seq(X)
      /\ Len(SubSeq(s, 1 + d, Len(s)))
            = IF 1 + d <= Len(s) THEN Len(s) - (1 + d) + 1 ELSE 0
      /\ \A i \in 1..(Len(s) - (1 + d) + 1) :
            SubSeq(s, 1 + d, Len(s))[i] = s[(1 + d) + i - 1]
  BY <1>1, <1>4, SubSeqProperties
<1> HIDE DEF r
<1>6. \A i \in 1..Len(s) - d :
          i \in 1..(Len(s) - (1 + d) + 1) /\ (1 + d) + i - 1 = i + d
  BY <1>1
<1>7. Len(r) = Len(s) - d
  BY <1>1, <1>3, <1>5
<1>8. \A i \in 1..Len(s) - d : r[i] = s[i + d]
  BY <1>3, <1>5, <1>6
<1> QED BY <1>3, <1>5, <1>7, <1>8 DEF d, r

\* One sighting more, of what is in the list or not.
LEMMA KeptGrows ==
    ASSUME NEW X, NEW s \in Seq(X), NEW max \in Nat, NEW known, NEW x \in X,
           Kept(s, max, known)
    PROVE  /\ Frequency!Included(s, x, max) \in Seq(X)
           /\ Kept(Frequency!Included(s, x, max), max, known \cup {x})
<1> DEFINE r == Frequency!Included(s, x, max)
<1>1. /\ Len(s) \in Nat /\ Len(s) <= max
      /\ \A i, j \in 1..Len(s) : s[i] = s[j] => i = j
      /\ IsFiniteSet(known) /\ \A i \in 1..Len(s) : s[i] \in known
      /\ Len(s) < max => \A y \in known : \E i \in 1..Len(s) : s[i] = y
  BY DEF Kept
<1>2. IsFiniteSet(known \cup {x})
  BY <1>1, FS_AddElement
<1>3. CASE Frequency!Contains(s, x)
  <2>1. \E i \in 1..Len(s) : s[i] = x
    BY <1>3 DEF Frequency!Contains
  <2>2. r = Frequency!Clamp(s, max)
    BY <1>3 DEF Frequency!Included
  <2>3. r \in Seq(X) /\ Len(r) = Len(s) /\ \A i \in 1..Len(s) : r[i] = s[i]
    <3>1. ~(Len(s) > max) /\ Len(s) <= max + 1 /\ Len(s) - 0 = Len(s)
          /\ \A i \in 1..Len(s) : i + 0 = i
      BY <1>1
    <3> HIDE DEF r
    <3> QED BY <2>2, <3>1, Clamped
  <2> HIDE DEF r
  <2>4. known \cup {x} = known
    BY <2>1, <1>1
  <2> QED BY <2>3, <2>4, <1>1 DEF Kept, r
<1>4. CASE ~Frequency!Contains(s, x)
  <2> DEFINE t == Append(s, x)
             d == IF Len(t) > max THEN 1 ELSE 0
  <2>1. \A i \in 1..Len(s) : s[i] # x
    BY <1>4 DEF Frequency!Contains
  <2>2. r = Frequency!Clamp(t, max)
    BY <1>4 DEF Frequency!Included
  <2>3. /\ t \in Seq(X) /\ Len(t) = Len(s) + 1
        /\ \A i \in 1..Len(s) : t[i] = s[i]
        /\ t[Len(s) + 1] = x
    BY <1>1
  <2> HIDE DEF t, r
  <2>4. r \in Seq(X) /\ Len(r) = Len(t) - d /\ \A i \in 1..Len(t) - d : r[i] = t[i + d]
    BY <2>2, <2>3, <1>1, Clamped
  <2>5. d \in {0, 1} /\ (d = 0 <=> Len(s) < max)
    BY <2>3, <1>1
  <2> HIDE DEF d
  <2>6. Len(r) <= max
    BY <2>3, <2>4, <2>5, <1>1
  <2>7. \A i, j \in 1..Len(t) : t[i] = t[j] => i = j
    BY <2>1, <2>3, <1>1
  <2>8. \A i \in 1..Len(t) : t[i] \in known \cup {x}
    BY <2>3, <1>1
  <2>9. /\ \A i, j \in 1..Len(r) : r[i] = r[j] => i = j
        /\ \A i \in 1..Len(r) : r[i] \in known \cup {x}
    <3>1. \A i \in 1..Len(r) : i \in 1..Len(t) - d /\ i + d \in 1..Len(t)
      BY <2>3, <2>4, <2>5, <1>1
    <3>2. \A i, j \in 1..Len(r) : i + d = j + d => i = j
      BY <2>3, <2>4, <2>5, <1>1
    <3> QED BY <3>1, <3>2, <2>4, <2>7, <2>8
  <2>10. ASSUME Len(r) < max, NEW y \in known \cup {x}
         PROVE  \E i \in 1..Len(r) : r[i] = y
    <3>1. d = 0
      <4>1. d = 1 => Len(r) = Len(s)
        BY <2>3, <2>4, <1>1
      <4> QED BY <4>1, <2>5, <2>10
    <3>2. Len(s) < max /\ Len(r) = Len(s) + 1 /\ \A i \in 1..Len(s) + 1 : r[i] = t[i]
      BY <3>1, <2>3, <2>4, <2>5, <1>1
    <3>3. CASE y = x
      BY <3>2, <3>3, <2>3, <1>1
    <3>4. CASE y \in known
      <4>1. PICK i \in 1..Len(s) : s[i] = y
        BY <3>2, <3>4, <1>1
      <4>2. i \in 1..Len(s) + 1
        BY <1>1
      <4> QED BY <4>1, <4>2, <3>2, <2>3
    <3> QED BY <3>3, <3>4
  <2> QED BY <1>2, <2>4, <2>6, <2>9, <2>10 DEF Kept, r
<1> QED BY <1>3, <1>4

\* Held against a threshold its ceiling reaches, a list is as long as everything
\* seen.
LEMMA KeptCounts ==
    ASSUME NEW X, NEW s \in Seq(X), NEW max \in Nat, NEW known, Kept(s, max, known),
           NEW t \in Nat, t <= max
    PROVE  /\ Len(s) < t <=> Cardinality(known) < t
           /\ Len(s) >= t <=> Cardinality(known) >= t
<1> DEFINE R == {s[i] : i \in 1..Len(s)}
<1>1. /\ Len(s) \in Nat /\ Len(s) <= max
      /\ \A i, j \in 1..Len(s) : s[i] = s[j] => i = j
      /\ IsFiniteSet(known) /\ \A i \in 1..Len(s) : s[i] \in known
      /\ Len(s) < max => \A y \in known : \E i \in 1..Len(s) : s[i] = y
  BY DEF Kept
<1>2. Cardinality(R) = Len(s)
  <2>1. s \in Bijection(1..Len(s), R)
    <3>1. s \in [1..Len(s) -> R]
      BY <1>1
    <3>2. \A y \in R : \E i \in 1..Len(s) : s[i] = y
      OBVIOUS
    <3> HIDE DEF R
    <3>3. IsInjective(s)
      BY <1>1, <3>1 DEF IsInjective
    <3> QED BY <3>1, <3>2, <3>3 DEF Bijection, Injection, Surjection
  <2>2. ExistsBijection(1..Len(s), R)
    BY <2>1 DEF ExistsBijection
  <2> HIDE DEF R
  <2> QED BY <2>2, <1>1, FS_CountingElements
<1>3. R \in SUBSET known
  BY <1>1
<1>4. Len(s) < max => R = known
  <2>1. Len(s) < max => \A y \in known : y \in R
    BY <1>1
  <2> HIDE DEF R
  <2> QED BY <2>1, <1>3
<1> HIDE DEF R
<1>5. Cardinality(known) \in Nat /\ Len(s) <= Cardinality(known)
  BY <1>1, <1>2, <1>3, FS_Subset, FS_CardinalityType
<1> QED BY <1>1, <1>2, <1>4, <1>5

\* The least recently seen of a finite number of parameters.
LEMMA VictimIs ==
    ASSUME NEW map, DOMAIN map # {}, \A n \in DOMAIN map : map[n].lastSeen \in Nat
    PROVE  \E v \in DOMAIN map :
              /\ v = CHOOSE u \in Frequency!Victims(map) : TRUE
              /\ \A m \in DOMAIN map : map[v].lastSeen <= map[m].lastSeen
<1> DEFINE times == {map[n].lastSeen : n \in DOMAIN map}
<1>1. \E t \in times : \A u \in times : t <= u
  <2>1. times \subseteq Nat /\ times # {}
    OBVIOUS
  <2> HIDE DEF times
  <2> QED BY <2>1, EarliestOf
<1>2. PICK n \in DOMAIN map : \A m \in DOMAIN map : map[n].lastSeen <= map[m].lastSeen
  BY <1>1
<1>3. n \in Frequency!Victims(map)
  BY <1>2 DEF Frequency!Victims
<1>4. (CHOOSE u \in Frequency!Victims(map) : TRUE) \in Frequency!Victims(map)
  BY <1>3
<1> QED BY <1>4 DEF Frequency!Victims

\* A sighting keeps a tracked parameter and its history together.
LEMMA TouchedSound ==
    ASSUME NEW entry \in Tracked, NEW known, EntrySound(entry, known),
           NEW domain \in Domain, NEW value \in Value, NEW now \in Nat
    PROVE  /\ Frequency!Touched(entry, domain, value, now) \in Tracked
           /\ Frequency!Touched(entry, domain, value, now).lastSeen = now
           /\ EntrySound(Frequency!Touched(entry, domain, value, now),
                         Frequency!TrulySeen(known, domain, value))
<1> DEFINE e == Frequency!Touched(entry, domain, value, now)
           k == Frequency!TrulySeen(known, domain, value)
           ds == Frequency!Included(entry.domains, domain, Frequency!MaxDomains)
           vs == Frequency!Included(entry.values, value, Frequency!MaxValues)
<1>1. /\ entry.domains \in Seq(Domain) /\ entry.values \in Seq(Value)
      /\ entry.count \in Nat /\ entry.sum \in Nat
  BY DEF Tracked
<1>2. Frequency!MaxDomains \in Nat /\ Frequency!MaxValues \in Nat
  BY PageAssumption DEF Frequency!MaxDomains, Frequency!MaxValues
<1>3. /\ Kept(entry.domains, Frequency!MaxDomains, known.domains)
      /\ Kept(entry.values, Frequency!MaxValues, known.values)
      /\ entry.count = known.count /\ entry.sum = known.sum
  BY DEF EntrySound
<1>4. /\ ds \in Seq(Domain)
      /\ Kept(ds, Frequency!MaxDomains, known.domains \cup {domain})
  BY <1>1, <1>2, <1>3, KeptGrows
<1>5. /\ vs \in Seq(Value)
      /\ Kept(vs, Frequency!MaxValues, known.values \cup {value})
  BY <1>1, <1>2, <1>3, KeptGrows
<1>6. /\ e.domains = ds /\ e.values = vs /\ e.lastSeen = now
      /\ e.count = entry.count + 1
      /\ e.sum = entry.sum + IF value \in RandomValues THEN 1 ELSE 0
      /\ e = [domains |-> e.domains, values |-> e.values, lastSeen |-> e.lastSeen,
              count |-> e.count, sum |-> e.sum]
  BY DEF Frequency!Touched
<1>7. /\ k.domains = known.domains \cup {domain} /\ k.values = known.values \cup {value}
      /\ k.count = known.count + 1
      /\ k.sum = known.sum + IF value \in RandomValues THEN 1 ELSE 0
  BY DEF Frequency!TrulySeen
<1> HIDE DEF e, k, ds, vs
<1>8. e \in Tracked
  <2>1. e.count \in Nat /\ e.sum \in Nat
    BY <1>1, <1>6
  <2> QED BY <1>4, <1>5, <1>6, <2>1 DEF Tracked
<1>9. EntrySound(e, k)
  BY <1>3, <1>4, <1>5, <1>6, <1>7 DEF EntrySound
<1> QED BY <1>6, <1>8, <1>9 DEF e, k

\* A parameter not tracked yet.
LEMMA NewSound ==
    /\ Frequency!NewEntry \in Tracked
    /\ EntrySound(Frequency!NewEntry, Frequency!NewTruth)
<1>1. Frequency!NewEntry.domains = <<>> /\ Frequency!NewEntry.values = <<>>
      /\ Frequency!NewEntry.count = 0 /\ Frequency!NewEntry.sum = 0
  BY DEF Frequency!NewEntry
<1>2. Frequency!NewTruth.domains = {} /\ Frequency!NewTruth.values = {}
      /\ Frequency!NewTruth.count = 0 /\ Frequency!NewTruth.sum = 0
  BY DEF Frequency!NewTruth
<1>3. \A max \in Nat : Kept(<<>>, max, {})
  BY FS_EmptySet DEF Kept
<1>4. Frequency!MaxDomains \in Nat /\ Frequency!MaxValues \in Nat
  BY PageAssumption DEF Frequency!MaxDomains, Frequency!MaxValues
<1>5. Frequency!NewEntry \in Tracked
  BY DEF Frequency!NewEntry, Tracked
<1> QED BY <1>1, <1>2, <1>3, <1>4, <1>5 DEF EntrySound

\* One name of a batch recorded: at its time, which is later than any before.
LEMMA ObservedSound ==
    ASSUME NEW s, NEW recorded, StoreSound(s.params, s.truth, recorded),
           NEW n \in Name, NEW b \in Batches, \A m \in Name : recorded[m] <= b.at
    PROVE  LET r == Frequency!Observed(s, n, b)
           IN  StoreSound(r.params, r.truth, [recorded EXCEPT ![n] = b.at])
<1> DEFINE old == Frequency!Get(s.params, n, Frequency!NewEntry)
           was == Frequency!Get(s.truth, n, Frequency!NewTruth)
           entry == Frequency!Touched(old, b.domain, b.value, b.at)
           known == Frequency!TrulySeen(was, b.domain, b.value)
           map == Frequency!With(s.params, n, entry)
           hist == Frequency!With(s.truth, n, known)
           victims == IF Frequency!Cardinality(DOMAIN map) > MaxTracked
                      THEN {CHOOSE v \in Frequency!Victims(map) : TRUE} ELSE {}
           r == Frequency!Observed(s, n, b)
           times == [recorded EXCEPT ![n] = b.at]
           D == DOMAIN s.params
<1>7. /\ r.params = [m \in DOMAIN map \ victims |-> map[m]]
      /\ r.truth = [m \in DOMAIN map \ victims |-> hist[m]]
  <2> HIDE DEF entry, known, old, was
  <2> QED BY Zenon DEF Frequency!Observed, entry, known, old, was
<1>c. Frequency!Cardinality(DOMAIN map) = Cardinality(DOMAIN map)
  BY DEF Frequency!Cardinality, Cardinality
<1>1. /\ s.params \in Maps /\ DOMAIN s.truth = D /\ recorded \in [Name -> Nat]
      /\ Cardinality(D) <= MaxTracked
      /\ \A m \in D : /\ EntrySound(s.params[m], s.truth[m])
                      /\ s.params[m].lastSeen = recorded[m] /\ recorded[m] # 0
      /\ \A m \in Name \ D, l \in D : recorded[m] <= recorded[l]
  BY DEF StoreSound
<1>2. D \subseteq Name /\ \A m \in D : s.params[m] \in Tracked
  BY <1>1 DEF Maps
<1>3. b.domain \in Domain /\ b.value \in Value /\ b.at \in Nat /\ b.at # 0
  BY DEF Batches
<1>4. old \in Tracked /\ EntrySound(old, was)
  <2>1. CASE n \in D
    BY <2>1, <1>1, <1>2 DEF Frequency!Get
  <2>2. CASE n \notin D
    BY <2>2, <1>1, NewSound DEF Frequency!Get
  <2> QED BY <2>1, <2>2
<1>5. entry \in Tracked /\ entry.lastSeen = b.at /\ EntrySound(entry, known)
  <2> HIDE DEF old, was
  <2> QED BY <1>3, <1>4, TouchedSound
<1> HIDE DEF entry, known, old, was
<1>6. /\ DOMAIN map = D \cup {n} /\ DOMAIN hist = D \cup {n}
      /\ \A m \in D \cup {n} : map[m] = IF m = n THEN entry ELSE s.params[m]
      /\ \A m \in D \cup {n} : hist[m] = IF m = n THEN known ELSE s.truth[m]
  BY <1>1 DEF Frequency!With
<1>8. /\ times \in [Name -> Nat] /\ times[n] = b.at
      /\ \A m \in Name : times[m] <= b.at
      /\ \A m \in Name : m # n => times[m] = recorded[m]
  BY <1>1, <1>3
<1> HIDE DEF map, hist, r, times
<1>9. /\ \A m \in D \cup {n} : /\ map[m] \in Tracked /\ EntrySound(map[m], hist[m])
                                /\ map[m].lastSeen = times[m] /\ times[m] # 0
      /\ D \cup {n} \subseteq Name
  BY <1>1, <1>2, <1>3, <1>5, <1>6, <1>8
<1>10. \A m \in Name \ (D \cup {n}), l \in D \cup {n} : times[m] <= times[l]
  <2> SUFFICES ASSUME NEW m \in Name \ (D \cup {n}), NEW l \in D \cup {n}
               PROVE  times[m] <= times[l]
    OBVIOUS
  <2>1. times[m] = recorded[m] /\ recorded[m] \in Nat /\ recorded[m] <= b.at
    BY <1>1, <1>8
  <2>2. CASE l = n
    BY <2>1, <2>2, <1>8
  <2>3. CASE l # n
    <3>1. l \in D /\ l \in Name /\ m \in Name \ D
      BY <2>3, <1>9
    <3> QED BY <2>1, <2>3, <3>1, <1>1, <1>8
  <2> QED BY <2>2, <2>3
<1>11. /\ IsFiniteSet(D) /\ IsFiniteSet(D \cup {n})
       /\ Cardinality(D) \in Nat /\ Cardinality(D \cup {n}) \in Nat
       /\ Cardinality(D \cup {n}) <= Cardinality(D) + 1
  <2>1. IsFiniteSet(D) /\ IsFiniteSet(D \cup {n})
    BY <1>2, <1>9, PageAssumption, FS_Subset
  <2>2. Cardinality(D) \in Nat /\ Cardinality(D \cup {n}) \in Nat
    BY <2>1, FS_CardinalityType
  <2>3. Cardinality(D \cup {n}) = IF n \in D THEN Cardinality(D) ELSE Cardinality(D) + 1
    BY <2>1, FS_AddElement, Zenon
  <2> QED BY <2>1, <2>2, <2>3
<1>12. /\ victims \subseteq D \cup {n}
       /\ Cardinality((D \cup {n}) \ victims) <= MaxTracked
       /\ \A v \in victims, m \in D \cup {n} : times[v] <= times[m]
  <2>1. CASE ~(Cardinality(D \cup {n}) > MaxTracked)
    <3>1. victims = {} /\ (D \cup {n}) \ {} = D \cup {n}
      BY <2>1, <1>6, <1>c
    <3> HIDE DEF victims
    <3> QED BY <3>1, <2>1, <1>11, PageAssumption
  <2>2. CASE Cardinality(D \cup {n}) > MaxTracked
    <3>1. PICK v \in DOMAIN map :
             /\ v = CHOOSE u \in Frequency!Victims(map) : TRUE
             /\ \A m \in DOMAIN map : map[v].lastSeen <= map[m].lastSeen
      <4>1. DOMAIN map # {} /\ \A m \in DOMAIN map : map[m].lastSeen \in Nat
        BY <1>6, <1>9, <1>8
      <4> QED BY <4>1, VictimIs
    <3>2. victims = {v}
      BY <2>2, <3>1, <1>6, <1>c
    <3>3. Cardinality((D \cup {n}) \ {v}) = Cardinality(D \cup {n}) - 1
      <4>1. v \in D \cup {n}
        BY <3>1, <1>6
      <4> QED BY <4>1, <1>11, FS_RemoveElement, Zenon
    <3> HIDE DEF victims
    <3>4. Cardinality((D \cup {n}) \ {v}) <= MaxTracked
      BY <3>3, <1>11, <1>1, PageAssumption
    <3>5. v \in D \cup {n} /\ \A m \in D \cup {n} : times[v] <= times[m]
      BY <3>1, <1>6, <1>9
    <3> QED BY <3>2, <3>4, <3>5
  <2> QED BY <2>1, <2>2
<1> HIDE DEF victims
<1> DEFINE K == (D \cup {n}) \ victims
<1>13. /\ r.params = [m \in K |-> map[m]] /\ r.truth = [m \in K |-> hist[m]]
       /\ K \subseteq D \cup {n}
  BY <1>6, <1>7
<1>14. \A m \in Name \ K, l \in K : times[m] <= times[l]
  BY <1>10, <1>12
<1>15. Cardinality(K) <= MaxTracked
  BY <1>12
<1> HIDE DEF K, D
<1>16. /\ DOMAIN r.params = K /\ DOMAIN r.truth = K
       /\ \A m \in K : r.params[m] = map[m] /\ r.truth[m] = hist[m]
  BY <1>13
<1>17. r.params \in Maps
  <2>1. r.params \in [K -> Tracked] /\ K \subseteq Name
    BY <1>9, <1>13
  <2> QED BY <2>1 DEF Maps
<1> QED BY <1>8, <1>9, <1>13, <1>14, <1>15, <1>16, <1>17 DEF StoreSound, r, times

\* A batch records its names one after the other.
LEMMA RecordedInOrder ==
    ASSUME NEW s, NEW b, b.names \in Seq(Name)
    PROVE  \E step :
              /\ step[0] = s /\ Frequency!Recorded(s, b) = step[Len(b.names)]
              /\ \A k \in Nat : k + 1 <= Len(b.names) =>
                    step[k + 1] = Frequency!Observed(step[k], b.names[k + 1], b)
<1> DEFINE names == b.names
           D == DOMAIN names
           Push(x, y) == Frequency!Observed(x, y, b)
           Largest(t) == Frequency!Max(t)
           Rec(g, n) == g = [t \in SUBSET (1..n) |->
                                IF t = {} THEN s ELSE Push(g[t \ {Largest(t)}], names[Largest(t)])]
           fold == CHOOSE g : Rec(g, Len(names))
<1>1. D = 1..Len(names) /\ Len(names) \in Nat
  OBVIOUS
<1>2. Frequency!Recorded(s, b) = fold[1..Len(names)]
  <2>0. Frequency!Recorded(s, b)
          = Frequency!FoldLeft(LAMBDA t, n : Frequency!Observed(t, n, b), s, b.names)
    BY DEF Frequency!Recorded
  <2>1. @ = Frequency!MapThenFoldSet(LAMBDA x, y : Frequency!Observed(y, x, b), s, LAMBDA i : names[i],
                                  LAMBDA S : Frequency!Max(S), DOMAIN names)
    BY DEF Frequency!FoldLeft
  <2>2. @ = (CHOOSE g : g = [t \in SUBSET D |->
                      IF t = {} THEN s ELSE Push(g[t \ {Largest(t)}], names[Largest(t)])])[D]
    BY DEF Frequency!MapThenFoldSet
  <2> QED BY <2>0, <2>1, <2>2, <1>1
<1>3. \A n \in Nat : \A t \in SUBSET (1..n + 1) : n + 1 \in t => Largest(t) = n + 1
  <2> SUFFICES ASSUME NEW n \in Nat, NEW t \in SUBSET (1..n + 1), n + 1 \in t
               PROVE  Largest(t) = n + 1
    OBVIOUS
  <2>1. \A y \in t : y \in Nat /\ y <= n + 1
    OBVIOUS
  <2>2. \A x \in t : (\A y \in t : x >= y) => x = n + 1
    BY <2>1
  <2>3. \A y \in t : n + 1 >= y
    BY <2>1
  <2> QED BY <2>2, <2>3 DEF Frequency!Max
<1> HIDE DEF Largest, Push
<1>4. \A n \in Nat : \E g : Rec(g, n)
  <2> DEFINE T == {n \in Nat : \E g : Rec(g, n)}
  <2>1. 0 \in T
    <3> DEFINE g0 == [t \in SUBSET (1..0) |-> s]
    <3>1. \A t \in SUBSET (1..0) : t = {}
      OBVIOUS
    <3>2. Rec(g0, 0)
      BY <3>1
    <3> QED BY <3>2
  <2>2. ASSUME NEW n \in Nat, n \in T PROVE n + 1 \in T
    <3>1. PICK g : Rec(g, n)
      BY <2>2
    <3> DEFINE G == [t \in SUBSET (1..n + 1) |->
                        IF t = {} THEN s
                        ELSE IF n + 1 \in t THEN Push(g[t \ {n + 1}], names[n + 1])
                        ELSE g[t]]
               H == [t \in SUBSET (1..n + 1) |->
                        IF t = {} THEN s ELSE Push(G[t \ {Largest(t)}], names[Largest(t)])]
    <3>a. (\A x \in 1..n : x \in 1..n + 1) /\ n + 1 \notin 1..n
          /\ \A x \in 1..n + 1 : x # n + 1 => x \in 1..n
      OBVIOUS
    <3>2. \A t \in SUBSET (1..n) :
             /\ t \in SUBSET (1..n + 1) /\ n + 1 \notin t
             /\ g[t] = IF t = {} THEN s ELSE Push(g[t \ {Largest(t)}], names[Largest(t)])
      <4>1. \A t \in SUBSET (1..n) : t \in SUBSET (1..n + 1) /\ n + 1 \notin t
        BY <3>a
      <4> QED BY <3>1, <4>1
    <3>3. \A t \in SUBSET (1..n) : G[t] = g[t]
      BY <3>2
    <3>4. ASSUME NEW t \in SUBSET (1..n + 1) PROVE G[t] = H[t]
      <4>1. CASE t = {}
        BY <4>1
      <4>2. CASE n + 1 \in t
        <5>1. Largest(t) = n + 1 /\ t \ {n + 1} \in SUBSET (1..n) /\ t # {}
          <6>1. t \ {n + 1} \in SUBSET (1..n) /\ t # {}
            BY <4>2, <3>a
          <6> QED BY <6>1, <4>2, <1>3
        <5>2. G[t \ {n + 1}] = g[t \ {n + 1}]
          BY <5>1, <3>3
        <5> QED BY <5>1, <5>2, <4>2
      <4>3. CASE t # {} /\ n + 1 \notin t
        <5>1. t \in SUBSET (1..n) /\ t \ {Largest(t)} \in SUBSET (1..n)
          BY <4>3, <3>a
        <5>2. G[t \ {Largest(t)}] = g[t \ {Largest(t)}] /\ G[t] = g[t]
          BY <5>1, <3>3
        <5>3. g[t] = Push(g[t \ {Largest(t)}], names[Largest(t)])
          BY <5>1, <3>2, <4>3
        <5> QED BY <5>2, <5>3, <4>3
      <4> QED BY <4>1, <4>2, <4>3
    <3>5. G = H
      BY <3>4
    <3>6. Rec(G, n + 1)
      BY <3>5
    <3> HIDE DEF Rec, G
    <3>7. \E f : Rec(f, n + 1)
      BY <3>6
    <3> QED BY <3>7
  <2> HIDE DEF T
  <2>3. Nat \subseteq T
    BY <2>1, <2>2, Numbered
  <2> QED BY <2>3 DEF T
<1>5. Rec(fold, Len(names))
  <2> HIDE DEF Rec
  <2> QED BY <1>4, <1>1
<1> HIDE DEF fold
<1>6. fold[{}] = s
  BY <1>5
<1>7. \A k \in Nat : k + 1 <= Len(names) =>
         fold[1..k + 1] = Frequency!Observed(fold[1..k], names[k + 1], b)
  <2> SUFFICES ASSUME NEW k \in Nat, k + 1 <= Len(names)
               PROVE  fold[1..k + 1] = Frequency!Observed(fold[1..k], names[k + 1], b)
    OBVIOUS
  <2>1. Largest(1..k + 1) = k + 1
    BY <1>3
  <2>2. 1..k + 1 \in SUBSET (1..Len(names)) /\ 1..k + 1 # {} /\ (1..k + 1) \ {k + 1} = 1..k
    <3>1. \A x : x \in (1..k + 1) \ {k + 1} <=> x \in 1..k
      OBVIOUS
    <3>2. (\A x \in 1..k + 1 : x \in 1..Len(names)) /\ k + 1 \in 1..k + 1
      BY <1>1
    <3>3. (1..k + 1) \ {k + 1} = 1..k
      BY <3>1, Zenon
    <3>4. 1..k + 1 \in SUBSET (1..Len(names)) /\ 1..k + 1 # {}
      BY <3>2, Zenon
    <3> QED BY <3>3, <3>4
  <2>3. fold[1..k + 1] = Push(fold[(1..k + 1) \ {Largest(1..k + 1)}], names[Largest(1..k + 1)])
    BY <2>2, <1>5
  <2> QED BY <2>1, <2>2, <2>3 DEF Push
<1> DEFINE step == [k \in Nat |-> fold[1..k]]
<1>8. \A k \in Nat : step[k] = fold[1..k]
  OBVIOUS
<1>9. 1..0 = {} /\ 0 \in Nat
  OBVIOUS
<1> HIDE DEF step
<1>10. step[0] = s
  BY <1>6, <1>8, <1>9
<1>11. \A k \in Nat : k + 1 \in Nat
  OBVIOUS
<1>12. \A k \in Nat : k + 1 <= Len(b.names) =>
         step[k + 1] = Frequency!Observed(step[k], b.names[k + 1], b)
  BY <1>7, <1>8, <1>11
<1>13. Frequency!Recorded(s, b) = step[Len(b.names)]
  BY <1>1, <1>2, <1>8
<1> HIDE DEF names
<1> QED BY <1>10, <1>12, <1>13

\* A whole batch recorded.
LEMMA RecordedSound ==
    ASSUME NEW s, NEW recorded, StoreSound(s.params, s.truth, recorded),
           NEW b \in Batches, \A m \in Name : recorded[m] <= b.at
    PROVE  LET r == Frequency!Recorded(s, b)
           IN  StoreSound(r.params, r.truth,
                          [n \in Name |-> IF Frequency!Contains(b.names, n)
                                          THEN b.at ELSE recorded[n]])
<1> DEFINE Times(k) == [n \in Name |-> IF \E i \in 1..k : b.names[i] = n
                                       THEN b.at ELSE recorded[n]]
<1>1. /\ b.names \in Seq(Name) /\ Len(b.names) \in Nat /\ b.at \in Nat
      /\ \A i \in 1..Len(b.names) : b.names[i] \in Name
      /\ recorded \in [Name -> Nat]
  BY DEF Batches, StoreSound
<1>2. PICK step : /\ step[0] = s /\ Frequency!Recorded(s, b) = step[Len(b.names)]
                  /\ \A k \in Nat : k + 1 <= Len(b.names) =>
                        step[k + 1] = Frequency!Observed(step[k], b.names[k + 1], b)
  BY <1>1, RecordedInOrder
<1> DEFINE Sound(k) == StoreSound(step[k].params, step[k].truth, Times(k))
           T == {k \in Nat : k <= Len(b.names) => Sound(k)}
<1>3. 0 \in T
  <2>1. Times(0) = recorded
    BY <1>1
  <2> HIDE DEF Times
  <2> QED BY <2>1, <1>2
<1>4. ASSUME NEW k \in Nat, k \in T PROVE k + 1 \in T
  <2> SUFFICES ASSUME k + 1 <= Len(b.names) PROVE Sound(k + 1)
    BY DEF T
  <2>1. Sound(k)
    BY <1>1, <1>4
  <2>2. b.names[k + 1] \in Name
    BY <1>1
  <2>3. \A m \in Name : Times(k)[m] <= b.at
    BY <1>1
  <2>4. Times(k + 1) = [Times(k) EXCEPT ![b.names[k + 1]] = b.at]
    <3>1. \A i : i \in 1..k + 1 <=> i \in 1..k \/ i = k + 1
      OBVIOUS
    <3>2. ASSUME NEW n \in Name
          PROVE  Times(k + 1)[n] = IF n = b.names[k + 1] THEN b.at ELSE Times(k)[n]
      BY <3>1
    <3> DEFINE old == Times(k)
               new == Times(k + 1)
    <3>3. old = [n \in Name |-> old[n]] /\ new = [n \in Name |-> new[n]]
      OBVIOUS
    <3>4. \A n \in Name : new[n] = IF n = b.names[k + 1] THEN b.at ELSE old[n]
      BY <3>2
    <3> HIDE DEF old, new
    <3>5. new = [old EXCEPT ![b.names[k + 1]] = b.at]
      BY <3>3, <3>4, <2>2
    <3> QED BY <3>5 DEF old, new
  <2>5. step[k + 1] = Frequency!Observed(step[k], b.names[k + 1], b)
    BY <1>2
  <2> HIDE DEF Times
  <2> QED BY <2>1, <2>2, <2>3, <2>4, <2>5, ObservedSound
<1> HIDE DEF T
<1>5. Nat \subseteq T
  BY <1>3, <1>4, Numbered
<1>6. Sound(Len(b.names))
  <2> HIDE DEF Sound
  <2>1. Len(b.names) \in T
    BY <1>1, <1>5
  <2> QED BY <2>1, <1>1 DEF T
<1>7. Times(Len(b.names)) = [n \in Name |-> IF Frequency!Contains(b.names, n)
                                            THEN b.at ELSE recorded[n]]
  BY DEF Frequency!Contains
<1> HIDE DEF Times
<1> QED BY <1>2, <1>6, <1>7

\* What one URL's stripped names are.
LEMMA NamesTyped ==
    ASSUME NEW names \in Frequency!SetToAllKPermutations(Name) PROVE names \in Seq(Name)
<1>1. PICK S \in SUBSET Name : names \in Frequency!SetToSeqs(S)
  BY DEF Frequency!SetToAllKPermutations
<1>2. Frequency!Cardinality(S) = Cardinality(S)
  BY DEF Frequency!Cardinality, Cardinality
<1>3. Cardinality(S) \in Nat
  BY PageAssumption, FS_Subset, FS_CardinalityType
<1>4. names \in [1..Cardinality(S) -> S]
  BY <1>1, <1>2 DEF Frequency!SetToSeqs
<1> QED BY <1>3, <1>4

LEMMA EmptySound ==
    /\ Frequency!Empty \in Maps
    /\ StoreSound(Frequency!Empty, Frequency!Empty, [n \in Name |-> 0])
<1>1. DOMAIN Frequency!Empty = {} /\ Frequency!Empty \in [{} -> Tracked]
  BY DEF Frequency!Empty
<1>2. Frequency!Empty \in Maps
  BY <1>1 DEF Maps
<1>3. Cardinality({}) <= MaxTracked
  BY FS_EmptySet, PageAssumption
<1> QED BY <1>1, <1>2, <1>3 DEF StoreSound

LEMMA FreqInit == Frequency!Init => FreqInv
<1> SUFFICES ASSUME Frequency!Init PROVE FreqInv
  OBVIOUS
<1>1. /\ params = Frequency!Empty /\ chain = <<>> /\ truth = Frequency!Empty
      /\ seenAt = [n \in Name |-> 0] /\ clock = 0 /\ batches = 0 /\ freqFaults = 0
  BY DEF Frequency!Init
<1>2. ChainInv
  <2>1. <<>> \in Seq(Batches) /\ Len(<<>>) = 0
    OBVIOUS
  <2> QED BY <1>1, <2>1 DEF ChainInv
<1>3. StoreSound(params, truth, seenAt)
  BY <1>1, EmptySound
<1> QED BY <1>1, <1>2, <1>3 DEF FreqInv

\* A URL queues the batch of its names.
LEMMA ObserveKeeps == FreqInv /\ Frequency!ObserveMany => FreqInv'
<1> SUFFICES ASSUME FreqInv, Frequency!ObserveMany PROVE FreqInv'
  OBVIOUS
<1>1. PICK domain \in Domain, value \in Value,
           names \in Frequency!SetToAllKPermutations(Name) \ {<<>>} :
        /\ batches' = batches + 1 /\ clock' = clock + 1
        /\ chain' = Append(chain, [domain |-> domain, value |-> value, names |-> names,
                                   at |-> clock', pc |-> "queued",
                                   seen |-> Frequency!Empty, lost |-> FALSE])
        /\ UNCHANGED <<params, truth, seenAt, freqFaults>>
  BY DEF Frequency!ObserveMany
<1> DEFINE b == [domain |-> domain, value |-> value, names |-> names,
                 at |-> clock', pc |-> "queued", seen |-> Frequency!Empty, lost |-> FALSE]
<1>2. /\ chain \in Seq(Batches) /\ clock \in Nat /\ batches \in Nat
      /\ \A n \in Name : seenAt[n] <= clock
      /\ seenAt \in [Name -> Nat]
      /\ \A i \in 1..Len(chain) :
            /\ chain[i].at <= clock /\ \A n \in Name : seenAt[n] < chain[i].at
            /\ i > 1 => chain[i].pc = "queued"
            /\ chain[i].seen = IF chain[i].pc = "queued" \/ chain[i].lost
                               THEN Frequency!Empty ELSE params
            /\ chain[i].pc = "queued" => ~chain[i].lost
      /\ \A i, j \in 1..Len(chain) : i < j => chain[i].at < chain[j].at
  BY DEF FreqInv, ChainInv, StoreSound
<1>3. b \in Batches
  <2>1. names \in Seq(Name) /\ clock' \in Nat \ {0}
    BY <1>1, <1>2, NamesTyped
  <2> QED BY <2>1, EmptySound DEF Batches
<1>4. /\ b.at = clock + 1 /\ b.pc = "queued" /\ b.seen = Frequency!Empty /\ ~b.lost
  BY <1>1
<1>5. chain' = Append(chain, b)
  BY <1>1
<1> HIDE DEF b
<1>6. /\ chain' \in Seq(Batches) /\ Len(chain') = Len(chain) + 1 /\ Len(chain) \in Nat
      /\ \A i \in 1..Len(chain) : chain'[i] = chain[i]
      /\ chain'[Len(chain) + 1] = b
  BY <1>2, <1>3, <1>5
<1>7. \A i \in 1..Len(chain') : i \in 1..Len(chain) \/ i = Len(chain) + 1
  BY <1>6
<1>8. \A i \in 1..Len(chain) : chain[i].at \in Nat
  <2>1. \A i \in 1..Len(chain) : chain[i] \in Batches
    BY <1>2
  <2> QED BY <2>1 DEF Batches
<1>9. \A i \in 1..Len(chain') :
          /\ chain'[i].at <= clock' /\ \A n \in Name : seenAt'[n] < chain'[i].at
          /\ i > 1 => chain'[i].pc = "queued"
          /\ chain'[i].seen = IF chain'[i].pc = "queued" \/ chain'[i].lost
                              THEN Frequency!Empty ELSE params'
          /\ chain'[i].pc = "queued" => ~chain'[i].lost
  <2> SUFFICES ASSUME NEW i \in 1..Len(chain')
      PROVE /\ chain'[i].at <= clock' /\ \A n \in Name : seenAt'[n] < chain'[i].at
            /\ i > 1 => chain'[i].pc = "queued"
            /\ chain'[i].seen = IF chain'[i].pc = "queued" \/ chain'[i].lost
                                THEN Frequency!Empty ELSE params'
            /\ chain'[i].pc = "queued" => ~chain'[i].lost
    OBVIOUS
  <2>1. CASE i \in 1..Len(chain)
    BY <2>1, <1>1, <1>2, <1>6, <1>8
  <2>2. CASE i = Len(chain) + 1
    <3>1. chain'[i] = b
      BY <2>2, <1>6
    <3>2. \A n \in Name : seenAt[n] < clock + 1
      BY <1>2
    <3> QED BY <3>1, <3>2, <1>1, <1>2, <1>4
  <2> QED BY <2>1, <2>2, <1>7
<1>10. \A i, j \in 1..Len(chain') : i < j => chain'[i].at < chain'[j].at
  <2> SUFFICES ASSUME NEW i \in 1..Len(chain'), NEW j \in 1..Len(chain'), i < j
               PROVE  chain'[i].at < chain'[j].at
    OBVIOUS
  <2>1. i \in 1..Len(chain)
    BY <1>6
  <2>2. CASE j \in 1..Len(chain)
    BY <2>1, <2>2, <1>2, <1>6
  <2>3. CASE j = Len(chain) + 1
    BY <2>1, <2>3, <1>2, <1>4, <1>6, <1>8
  <2> QED BY <2>2, <2>3, <1>7
<1>11. ChainInv'
  BY <1>6, <1>9, <1>10 DEF ChainInv
<1>12. StoreSound(params, truth, seenAt)'
  BY <1>1 DEF FreqInv, StoreSound
<1>13. \A n \in Name : seenAt'[n] <= clock'
  BY <1>1, <1>2
<1> QED BY <1>1, <1>2, <1>11, <1>12, <1>13 DEF FreqInv

\* The first batch reads what is stored, or loses it.
LEMMA ReadKeeps ==
    ASSUME FreqInv, NEW i \in DOMAIN chain, Frequency!BatchReads(i)
    PROVE  FreqInv'
<1>1. /\ i = 1 /\ chain[i].pc = "queued"
      /\ UNCHANGED <<params, truth, seenAt, clock, batches>>
  BY DEF Frequency!BatchReads, Frequency!Turn
<1>2. /\ chain \in Seq(Batches) /\ Len(chain) \in Nat /\ 1 \in 1..Len(chain)
      /\ batches \in Nat /\ freqFaults \in Nat
      /\ params \in Maps
      /\ \A j \in 1..Len(chain) :
            /\ chain[j].at <= clock /\ \A n \in Name : seenAt[n] < chain[j].at
            /\ j > 1 => chain[j].pc = "queued"
            /\ chain[j].seen = IF chain[j].pc = "queued" \/ chain[j].lost
                               THEN Frequency!Empty ELSE params
            /\ chain[j].pc = "queued" => ~chain[j].lost
      /\ \A j, k \in 1..Len(chain) : j < k => chain[j].at < chain[k].at
  BY <1>1 DEF FreqInv, ChainInv, StoreSound
<1>3. /\ chain[1] \in Batches /\ chain[1].seen = Frequency!Empty /\ ~chain[1].lost
  BY <1>1, <1>2
<1>4. \E b \in Batches :
          /\ chain' = [chain EXCEPT ![1] = b]
          /\ b.at = chain[1].at /\ b.pc = "writing"
          /\ b.seen = IF b.lost THEN Frequency!Empty ELSE params
  <2>1. CASE chain' = [chain EXCEPT ![i].pc = "writing", ![i].seen = params]
    <3> DEFINE b == [chain[1] EXCEPT !.pc = "writing", !.seen = params]
    <3>1. chain' = [chain EXCEPT ![1] = b]
      BY <1>1, <1>2, <2>1
    <3>2. b \in Batches /\ b.at = chain[1].at /\ b.pc = "writing" /\ b.seen = params
          /\ ~b.lost
      BY <1>2, <1>3 DEF Batches
    <3> HIDE DEF b
    <3> QED BY <3>1, <3>2
  <2>2. CASE chain' = [chain EXCEPT ![i].pc = "writing", ![i].lost = TRUE]
    <3> DEFINE b == [chain[1] EXCEPT !.pc = "writing", !.lost = TRUE]
    <3>1. chain' = [chain EXCEPT ![1] = b]
      BY <1>1, <1>2, <2>2
    <3>2. b \in Batches /\ b.at = chain[1].at /\ b.pc = "writing"
          /\ b.seen = chain[1].seen /\ b.lost
      BY <1>2, <1>3 DEF Batches
    <3> HIDE DEF b
    <3> QED BY <3>1, <3>2, <1>3
  <2> QED BY <2>1, <2>2 DEF Frequency!BatchReads
<1>5. PICK b \in Batches :
          /\ chain' = [chain EXCEPT ![1] = b]
          /\ b.at = chain[1].at /\ b.pc = "writing"
          /\ b.seen = IF b.lost THEN Frequency!Empty ELSE params
  BY <1>4
<1>6. /\ chain' \in Seq(Batches) /\ Len(chain') = Len(chain) /\ chain'[1] = b
      /\ \A j \in 1..Len(chain) : j # 1 => chain'[j] = chain[j]
      /\ \A j \in 1..Len(chain) : chain'[j].at = chain[j].at
  BY <1>2, <1>5
<1>7. freqFaults' \in Nat
  BY <1>2 DEF Frequency!BatchReads, Frequency!Fails
<1>8. ChainInv'
  <2>1. ASSUME NEW j \in 1..Len(chain')
        PROVE  /\ chain'[j].at <= clock' /\ \A n \in Name : seenAt'[n] < chain'[j].at
               /\ j > 1 => chain'[j].pc = "queued"
               /\ chain'[j].seen = IF chain'[j].pc = "queued" \/ chain'[j].lost
                                   THEN Frequency!Empty ELSE params'
               /\ chain'[j].pc = "queued" => ~chain'[j].lost
    <3>1. CASE j = 1
      BY <3>1, <1>1, <1>2, <1>5, <1>6
    <3>2. CASE j # 1
      BY <3>2, <1>1, <1>2, <1>6
    <3> QED BY <3>1, <3>2
  <2>2. \A j, k \in 1..Len(chain') : j < k => chain'[j].at < chain'[k].at
    BY <1>2, <1>6
  <2> QED BY <1>6, <2>1, <2>2 DEF ChainInv
<1>9. StoreSound(params, truth, seenAt)'
  BY <1>1 DEF FreqInv, StoreSound
<1>10. clock' \in Nat /\ \A n \in Name : seenAt'[n] <= clock'
  BY <1>1 DEF FreqInv
<1> QED BY <1>1, <1>2, <1>7, <1>8, <1>9, <1>10 DEF FreqInv

\* The first batch writes what it made of it, or fails to.
LEMMA WriteKeeps ==
    ASSUME FreqInv, NEW i \in DOMAIN chain, Frequency!BatchWrites(i)
    PROVE  FreqInv'
<1> DEFINE b == chain[1]
           map == IF b.lost THEN Frequency!Empty ELSE params
           hist == IF b.lost THEN Frequency!Empty ELSE truth
           times == IF b.lost THEN [n \in Name |-> 0] ELSE seenAt
           result == Frequency!Recorded([params |-> map, truth |-> hist], b)
<1>1. /\ i = 1 /\ b.pc = "writing" /\ chain' = Frequency!RemoveAt(chain, 1)
      /\ UNCHANGED <<clock, batches>>
  BY DEF Frequency!BatchWrites, Frequency!Turn
<1>2. /\ chain \in Seq(Batches) /\ Len(chain) \in Nat /\ 1 \in 1..Len(chain)
      /\ batches \in Nat /\ freqFaults \in Nat /\ clock \in Nat
      /\ \A n \in Name : seenAt[n] <= clock
      /\ \A j \in 1..Len(chain) :
            /\ chain[j].at <= clock /\ \A n \in Name : seenAt[n] < chain[j].at
            /\ j > 1 => chain[j].pc = "queued"
            /\ chain[j].seen = IF chain[j].pc = "queued" \/ chain[j].lost
                               THEN Frequency!Empty ELSE params
            /\ chain[j].pc = "queued" => ~chain[j].lost
      /\ \A j, k \in 1..Len(chain) : j < k => chain[j].at < chain[k].at
      /\ StoreSound(params, truth, seenAt)
  BY <1>1 DEF FreqInv, ChainInv
<1>3. b \in Batches /\ b.at \in Nat /\ b.names \in Seq(Name) /\ b.seen = map
  <2>1. b \in Batches
    BY <1>2
  <2>2. b.seen = map
    BY <1>1, <1>2
  <2> HIDE DEF b
  <2> QED BY <2>1, <2>2 DEF Batches
<1>4. seenAt \in [Name -> Nat]
  BY <1>2 DEF StoreSound
<1>5. /\ StoreSound(map, hist, times) /\ times \in [Name -> Nat]
      /\ \A n \in Name : times[n] <= b.at
  <2>1. \A n \in Name : seenAt[n] < b.at /\ seenAt[n] \in Nat
    BY <1>2, <1>4
  <2>3. CASE b.lost
    BY <2>3, <1>3, EmptySound
  <2>4. CASE ~b.lost
    BY <2>1, <2>4, <1>2, <1>3, <1>4
  <2> QED BY <2>3, <2>4
<1>6. /\ chain' \in Seq(Batches) /\ Len(chain') = Len(chain) - 1
      /\ \A j \in 1..Len(chain) - 1 : chain'[j] = chain[j + 1]
  <2>1. chain # <<>> /\ Frequency!RemoveAt(chain, 1) = Badge!RemoveAt(chain, 1)
    BY <1>2 DEF Frequency!RemoveAt, Badge!RemoveAt
  <2> QED BY <2>1, <1>1, <1>2, FirstDone
<1>7. \/ /\ params' = result.params /\ truth' = result.truth
         /\ seenAt' = [n \in Name |-> IF Frequency!Contains(b.names, n)
                                      THEN b.at ELSE times[n]]
         /\ UNCHANGED freqFaults
      \/ Frequency!Fails /\ UNCHANGED <<params, truth, seenAt>>
  <2>1. result = Frequency!Recorded([params |-> b.seen,
                                     truth |-> IF b.lost THEN Frequency!Empty ELSE truth], b)
    BY <1>3
  <2>2. [n \in Name |-> IF Frequency!Contains(b.names, n) THEN b.at ELSE times[n]]
          = [n \in Name |-> IF Frequency!Contains(b.names, n) THEN b.at
                            ELSE IF b.lost THEN 0 ELSE seenAt[n]]
    BY <1>3
  <2> HIDE DEF result, times
  <2> QED BY <1>1, <2>1, <2>2 DEF Frequency!BatchWrites
<1> HIDE DEF result, map, hist, times
<1>8. /\ StoreSound(params, truth, seenAt)' /\ freqFaults' \in Nat
      /\ \A n \in Name : seenAt'[n] <= clock' /\ seenAt'[n] \in Nat
      /\ \A n \in Name : seenAt'[n] <= b.at
  <2>1. CASE Frequency!Fails /\ UNCHANGED <<params, truth, seenAt>>
    <3>1. StoreSound(params, truth, seenAt)'
      BY <2>1, <1>2 DEF StoreSound
    <3>2. \A n \in Name : seenAt[n] < b.at
      BY <1>2
    <3> QED BY <2>1, <3>1, <3>2, <1>1, <1>2, <1>3, <1>4 DEF Frequency!Fails
  <2>2. CASE /\ params' = result.params /\ truth' = result.truth
             /\ seenAt' = [n \in Name |-> IF Frequency!Contains(b.names, n)
                                          THEN b.at ELSE times[n]]
             /\ UNCHANGED freqFaults
    <3>1. StoreSound(result.params, result.truth,
                     [n \in Name |-> IF Frequency!Contains(b.names, n)
                                     THEN b.at ELSE times[n]])
      <4> DEFINE s == [params |-> map, truth |-> hist]
      <4>2. s.params = map /\ s.truth = hist
        OBVIOUS
      <4>3. result = Frequency!Recorded(s, b)
        BY DEF result
      <4> HIDE DEF s, b
      <4> QED BY <4>2, <4>3, <1>3, <1>5, RecordedSound
    <3>2. StoreSound(params', truth', seenAt')
      BY <2>2, <3>1
    <3>3. b.at <= clock
      BY <1>2
    <3>4. \A n \in Name : seenAt'[n] <= b.at /\ seenAt'[n] \in Nat
      BY <2>2, <1>3, <1>5
    <3> QED BY <2>2, <3>2, <3>3, <3>4, <1>1, <1>2, <1>3
  <2> QED BY <1>7, <2>1, <2>2
<1>9. ChainInv'
  <2>1. ASSUME NEW j \in 1..Len(chain')
        PROVE  /\ chain'[j].at <= clock' /\ \A n \in Name : seenAt'[n] < chain'[j].at
               /\ j > 1 => chain'[j].pc = "queued"
               /\ chain'[j].seen = IF chain'[j].pc = "queued" \/ chain'[j].lost
                                   THEN Frequency!Empty ELSE params'
               /\ chain'[j].pc = "queued" => ~chain'[j].lost
    <3>1. j + 1 \in 1..Len(chain) /\ j + 1 > 1 /\ chain'[j] = chain[j + 1]
      BY <1>2, <1>6
    <3>2. b.at < chain[j + 1].at /\ chain[j + 1].pc = "queued" /\ ~chain[j + 1].lost
      BY <3>1, <1>2
    <3>3. chain[j + 1].at \in Nat
      <4>1. chain[j + 1] \in Batches
        BY <3>1, <1>2
      <4> QED BY <4>1 DEF Batches
    <3>4. \A n \in Name : seenAt'[n] < chain'[j].at
      BY <3>1, <3>2, <3>3, <1>3, <1>8
    <3> QED BY <3>1, <3>2, <3>4, <1>1, <1>2
  <2>2. \A j, k \in 1..Len(chain') : j < k => chain'[j].at < chain'[k].at
    <3> SUFFICES ASSUME NEW j \in 1..Len(chain'), NEW k \in 1..Len(chain'), j < k
                 PROVE  chain'[j].at < chain'[k].at
      OBVIOUS
    <3>1. /\ j + 1 \in 1..Len(chain) /\ k + 1 \in 1..Len(chain) /\ j + 1 < k + 1
          /\ chain'[j] = chain[j + 1] /\ chain'[k] = chain[k + 1]
      BY <1>2, <1>6
    <3> QED BY <3>1, <1>2
  <2> QED BY <1>6, <2>1, <2>2 DEF ChainInv
<1> QED BY <1>1, <1>2, <1>8, <1>9 DEF FreqInv

LEMMA FreqNext == FreqInv /\ [Frequency!Next]_Frequency!vars => FreqInv'
<1> SUFFICES ASSUME FreqInv, [Frequency!Next]_Frequency!vars PROVE FreqInv'
  OBVIOUS
<1>1. CASE Frequency!ObserveMany
  BY <1>1, ObserveKeeps
<1>2. CASE Frequency!BatchStep
  <2>1. PICK i \in DOMAIN chain : Frequency!BatchReads(i) \/ Frequency!BatchWrites(i)
    BY <1>2 DEF Frequency!BatchStep
  <2> QED BY <2>1, ReadKeeps, WriteKeeps
<1>3. CASE UNCHANGED Frequency!vars
  <2>1. UNCHANGED <<params, chain, truth, seenAt, clock, batches, freqFaults>>
    BY <1>3 DEF Frequency!vars
  <2>2. ChainInv'
    BY <2>1 DEF FreqInv, ChainInv
  <2>3. StoreSound(params, truth, seenAt)'
    BY <2>1 DEF FreqInv, StoreSound
  <2> QED BY <2>1, <2>2, <2>3 DEF FreqInv
<1> QED BY <1>1, <1>2, <1>3 DEF Frequency!Next

LEMMA FreqTyped == FreqInv => Frequency!TypeOK
<1> SUFFICES ASSUME FreqInv PROVE Frequency!TypeOK
  OBVIOUS
<1>1. /\ params \in Maps /\ DOMAIN truth = DOMAIN params /\ seenAt \in [Name -> Nat]
      /\ Cardinality(DOMAIN params) <= MaxTracked
      /\ \A n \in DOMAIN params : /\ EntrySound(params[n], truth[n])
                                  /\ params[n].lastSeen = seenAt[n] /\ seenAt[n] # 0
      /\ clock \in Nat /\ \A n \in Name : seenAt[n] <= clock
  BY DEF FreqInv, StoreSound
<1>2. DOMAIN params \subseteq Name /\ \A n \in DOMAIN params : params[n] \in Tracked
  BY <1>1 DEF Maps
<1>3. ASSUME NEW X, NEW s \in Seq(X), NEW max \in Nat, NEW known, Kept(s, max, known)
      PROVE  s \in Frequency!SeqOf(X, max) /\ Frequency!IsInjective(s)
  <2>1. /\ Len(s) \in 0..max /\ s \in [1..Len(s) -> X] /\ DOMAIN s = 1..Len(s)
        /\ \A i, j \in 1..Len(s) : s[i] = s[j] => i = j
    BY <1>3 DEF Kept
  <2>2. s \in Frequency!SeqOf(X, max)
    <3>1. \E m \in 0..max : s \in [1..m -> X]
      BY <2>1, Zenon
    <3> QED BY <3>1, Zenon DEF Frequency!SeqOf
  <2> QED BY <2>1, <2>2 DEF Frequency!IsInjective
<1>4. Frequency!MaxDomains \in Nat /\ Frequency!MaxValues \in Nat
  BY PageAssumption DEF Frequency!MaxDomains, Frequency!MaxValues
<1>5. ASSUME NEW n \in DOMAIN params
      PROVE  /\ params[n].domains \in Frequency!SeqOf(Domain, Frequency!MaxDomains)
             /\ Frequency!IsInjective(params[n].domains)
             /\ params[n].values \in Frequency!SeqOf(Value, Frequency!MaxValues)
             /\ Frequency!IsInjective(params[n].values)
             /\ params[n].lastSeen \in 1..clock
  <2>1. params[n].domains \in Seq(Domain) /\ params[n].values \in Seq(Value)
    BY <1>2 DEF Tracked
  <2>2. /\ Kept(params[n].domains, Frequency!MaxDomains, truth[n].domains)
        /\ Kept(params[n].values, Frequency!MaxValues, truth[n].values)
    BY <1>1 DEF EntrySound
  <2>3. params[n].lastSeen \in 1..clock
    BY <1>1, <1>2
  <2> QED BY <2>1, <2>2, <2>3, <1>3, <1>4
<1>6. \A i \in DOMAIN chain : chain[i].pc \in {"queued", "writing"}
  <2>1. \A i \in DOMAIN chain : chain[i] \in Batches
    BY DEF FreqInv, ChainInv
  <2> QED BY <2>1 DEF Batches
<1>7. Frequency!Cardinality(DOMAIN params) = Cardinality(DOMAIN params)
  BY DEF Frequency!Cardinality, Cardinality
<1>8. seenAt \in [Name -> 0..clock]
  BY <1>1
<1> QED BY <1>1, <1>2, <1>5, <1>6, <1>7, <1>8 DEF FreqInv, Frequency!TypeOK

LEMMA FreqShows == FreqInv => FrequencySound
<1> SUFFICES ASSUME FreqInv PROVE FrequencySound
  OBVIOUS
<1>1. /\ params \in Maps
      /\ \A n \in DOMAIN params : /\ EntrySound(params[n], truth[n])
                                  /\ params[n].lastSeen = seenAt[n]
      /\ \A n \in Name \ DOMAIN params, m \in DOMAIN params : seenAt[n] <= seenAt[m]
  BY DEF FreqInv, StoreSound
<1>2. Frequency!RecentlySeenTracked
  BY <1>1 DEF Frequency!RecentlySeenTracked
<1>3. ASSUME NEW n \in DOMAIN params
      PROVE  Frequency!GetState(n)
               = Frequency!Graduate(n, Frequency!Cardinality(truth[n].domains),
                                    Frequency!Cardinality(truth[n].values),
                                    truth[n].count, truth[n].sum)
  <2> DEFINE ds == params[n].domains
             vs == params[n].values
             dk == truth[n].domains
             vk == truth[n].values
  <2>1. ds \in Seq(Domain) /\ vs \in Seq(Value)
    BY <1>1 DEF Maps, Tracked
  <2>2. /\ Kept(ds, Frequency!MaxDomains, dk) /\ Kept(vs, Frequency!MaxValues, vk)
        /\ params[n].count = truth[n].count /\ params[n].sum = truth[n].sum
    BY <1>1 DEF EntrySound
  <2>3. /\ Frequency!MaxDomains \in Nat /\ Frequency!MaxValues \in Nat
        /\ \A t \in {DomainThreshold, CandidateDomainThreshold} :
                t \in Nat /\ t <= Frequency!MaxDomains
        /\ \A t \in {ValueThreshold, CandidateValueThreshold} :
                t \in Nat /\ t <= Frequency!MaxValues
    BY PageAssumption DEF Frequency!MaxDomains, Frequency!MaxValues
  <2> HIDE DEF ds, vs, dk, vk
  <2>4. /\ Len(ds) < DomainThreshold <=> Cardinality(dk) < DomainThreshold
        /\ Len(ds) >= CandidateDomainThreshold <=> Cardinality(dk) >= CandidateDomainThreshold
    BY <2>1, <2>2, <2>3, KeptCounts
  <2>5. /\ Len(vs) < ValueThreshold <=> Cardinality(vk) < ValueThreshold
        /\ Len(vs) >= CandidateValueThreshold <=> Cardinality(vk) >= CandidateValueThreshold
    BY <2>1, <2>2, <2>3, KeptCounts
  <2>6. /\ Frequency!Cardinality(dk) = Cardinality(dk)
        /\ Frequency!Cardinality(vk) = Cardinality(vk)
    BY DEF Frequency!Cardinality, Cardinality
  <2>7. Frequency!GetState(n)
          = Frequency!Graduate(n, Len(ds), Len(vs), truth[n].count, truth[n].sum)
    BY <2>2 DEF Frequency!GetState, ds, vs
  <2>8. @ = Frequency!Graduate(n, Cardinality(dk), Cardinality(vk),
                               truth[n].count, truth[n].sum)
    BY <2>4, <2>5, Zenon DEF Frequency!Graduate
  <2> QED BY <2>6, <2>7, <2>8 DEF dk, vk
<1> QED BY <1>2, <1>3 DEF FrequencySound, Frequency!VerdictsLossless

LEMMA FreqAlways == RunSpec => []FreqInv
<1>1. RunInit => Frequency!Init
  BY DEF RunInit
<1>2. [RunNext]_allVars => [Frequency!Next]_Frequency!vars
  BY DEF RunNext, allVars, freqVars, Frequency!vars
<1> QED BY <1>1, <1>2, FreqInit, FreqNext, PTL DEF RunSpec

\* Every verdict is the one that everything seen since the parameter was tracked
\* would give, whatever the ceilings dropped and however batches queued or failed;
\* and no parameter is tracked that was seen before one forgotten (the clamps of
\* _applyObservation, the chain of recordFrequency, MAX_TRACKED_PARAMS).
THEOREM FrequencyTellsTheTruth == RunSpec => []FrequencySound
  BY FreqAlways, FreqShows, PTL

-----------------------------------------------------------------------------
(* Types: what the invariants above leave out of StateTyped.               *)

\* However a navigation or the closing of the tab cuts into a count, what a page is
\* counted never passes what was cleaned in its tab.
OwedInv ==
    Badge!Open =>
        /\ pageCount + PageOwed <= cleans.tab
        /\ queue # <<>> /\ queue[1].pc = "writePage"
             => queue[1].seen + PageOwed <= cleans.tab

LEMMA OwedNext == BadgeInv /\ OwedInv /\ [Badge!Next]_Badge!vars => OwedInv'
<1> SUFFICES ASSUME BadgeInv, OwedInv, [Badge!Next]_Badge!vars, Badge!Open' PROVE OwedInv'
  BY DEF OwedInv
<1>0. /\ BadgeTypes /\ CountInv /\ queue \in Seq(Task) /\ Len(queue) \in Nat
      /\ pageCount \in Nat /\ total \in Nat /\ cleans \in [page : Nat, tab : Nat]
      /\ \A i \in 1..Len(queue) : queue[i].seen \in Nat
      /\ PageOwed \in Nat /\ cleans.tab \in Nat
  <2>1. /\ BadgeTypes /\ CountInv /\ queue \in Seq(Task)
        /\ pageCount \in Nat /\ total \in Nat /\ cleans \in [page : Nat, tab : Nat]
    BY DEF BadgeInv, BadgeTypes
  <2>2. Len(queue) \in Nat /\ \A i \in 1..Len(queue) : queue[i] \in Task
    BY <2>1
  <2>3. PageOwed \in Nat
    BY <2>1, <2>2 DEF PageOwed
  <2> QED BY <2>1, <2>2, <2>3 DEF Task
<1>1. CASE Badge!Clean
  <2> DEFINE task == [pc |-> "readPage", seen |-> 0]
  <2>1. task \in Task /\ task.pc = "readPage"
    BY DEF Task
  <2>2. /\ queue' = Append(queue, task)
        /\ cleans' = [page |-> cleans.page + 1, tab |-> cleans.tab + 1]
        /\ Badge!Open /\ UNCHANGED pageCount
    BY <1>1, Zenon DEF Badge!Clean
  <2> HIDE DEF task
  <2>3. /\ Len(queue') = Len(queue) + 1 /\ queue' # <<>>
        /\ queue'[Len(queue) + 1] = task
        /\ \A j \in 1..Len(queue) : queue'[j] = queue[j]
    BY <1>0, <2>1, <2>2
  <2>4. cleans'.tab = cleans.tab + 1
    BY <2>2
  <2>5. CASE queue = <<>>
    <3>1. Len(queue) = 0 /\ queue'[1] = task /\ Len(queue') = 1
      BY <2>3, <2>5
    <3>2. PageOwed = 0 /\ PageOwed' = 1
      BY <2>1, <2>3, <2>5, <3>1 DEF PageOwed
    <3> QED BY <1>0, <2>1, <2>2, <2>4, <3>1, <3>2 DEF OwedInv
  <2>6. CASE queue # <<>>
    <3>1. queue'[1] = queue[1] /\ queue[1].seen \in Nat
      BY <1>0, <2>3, <2>6
    <3>2. PageOwed' = PageOwed + 1
      BY <1>0, <2>3, <2>6, <3>1 DEF PageOwed
    <3>3. /\ pageCount + PageOwed <= cleans.tab
          /\ queue[1].pc = "writePage" => queue[1].seen + PageOwed <= cleans.tab
      BY <2>2, <2>6, Zenon DEF OwedInv
    <3>4. pageCount' + PageOwed' <= cleans'.tab
      BY <1>0, <2>2, <2>4, <3>2, <3>3
    <3>5. queue'[1].pc = "writePage" => queue'[1].seen + PageOwed' <= cleans'.tab
      BY <1>0, <2>4, <3>1, <3>2, <3>3
    <3> QED BY <3>4, <3>5, Zenon DEF OwedInv
  <2> QED BY <2>5, <2>6
<1>2. ASSUME NEW i \in DOMAIN queue, Badge!SessionStep(i) PROVE OwedInv'
  <2>1. Len(queue) \in Nat \ {0} /\ queue # <<>> /\ UNCHANGED <<page, cleans>>
    BY <1>0, <1>2, SessionStepIs, Zenon
  <2>2. Badge!Open /\ queue[1].seen \in Nat
    BY <1>0, <2>1 DEF Badge!Open
  <2>3. ASSUME NEW pc \in {"writePage", "readTotal", "writeTotal"}, NEW v, Restep(pc, v)
        PROVE  /\ queue'[1].pc = pc /\ queue'[1].seen = v
               /\ PageOwed' = IF pc = "writePage" THEN Len(queue) ELSE Len(queue) - 1
    BY <2>1, <2>3 DEF Restep, PageOwed
  <2>4. CASE queue[1].pc = "readPage" /\ Restep("writePage", pageCount)
             /\ UNCHANGED pageCount
    <3>1. PageOwed = Len(queue)
      BY <2>1, <2>4 DEF PageOwed
    <3>2. queue'[1].seen = pageCount /\ PageOwed' = Len(queue)
      BY <2>3, <2>4
    <3> QED BY <1>0, <2>1, <2>2, <2>4, <3>1, <3>2 DEF OwedInv
  <2>5. CASE queue[1].pc = "writePage" /\ Restep("readTotal", 0)
             /\ pageCount' = queue[1].seen + 1
    <3>1. PageOwed = Len(queue)
      BY <2>1, <2>5 DEF PageOwed
    <3>2. queue'[1].pc = "readTotal" /\ PageOwed' = Len(queue) - 1
      BY <2>3, <2>5
    <3> QED BY <1>0, <2>1, <2>2, <2>5, <3>1, <3>2 DEF OwedInv
  <2>6. CASE queue[1].pc = "readTotal" /\ Restep("writeTotal", total)
             /\ UNCHANGED pageCount
    <3>1. PageOwed = Len(queue) - 1
      BY <2>1, <2>6 DEF PageOwed
    <3>2. queue'[1].pc = "writeTotal" /\ PageOwed' = Len(queue) - 1
      BY <2>3, <2>6
    <3> QED BY <1>0, <2>1, <2>2, <2>6, <3>1, <3>2 DEF OwedInv
  <2>7. CASE /\ queue[1].pc = "writeTotal"
             /\ queue' \in Seq(Task) /\ Len(queue') = Len(queue) - 1
             /\ \A j \in 1..Len(queue') : queue'[j] = queue[j + 1]
             /\ UNCHANGED pageCount
    <3>1. PageOwed = Len(queue) - 1
      BY <2>1, <2>7 DEF PageOwed
    <3>2. PageOwed' = Len(queue) - 1 /\ (queue' # <<>> => queue'[1].pc = "readPage")
      <4>1. CASE queue' = <<>>
        <5>1. Len(queue') = 0
          BY <4>1
        <5> QED BY <2>1, <2>7, <4>1, <5>1 DEF PageOwed
      <4>2. CASE queue' # <<>>
        <5>1. 1 \in 1..Len(queue') /\ 2 \in 1..Len(queue)
          BY <2>1, <2>7, <4>2
        <5>2. queue'[1].pc = "readPage"
          BY <1>0, <2>7, <5>1 DEF CountInv
        <5> QED BY <2>7, <4>2, <5>2 DEF PageOwed
      <4> QED BY <4>1, <4>2
    <3> QED BY <1>0, <2>1, <2>2, <2>7, <3>1, <3>2 DEF OwedInv
  <2> QED BY <1>0, <1>2, <2>4, <2>5, <2>6, <2>7, SessionStepIs, Zenon
<1>3. ASSUME NEW site \in {"a", "b"}, Badge!Navigate(site) PROVE OwedInv'
  <2>1. /\ Badge!Open /\ pageCount' = 0 /\ cleans' = [cleans EXCEPT !.page = 0]
        /\ UNCHANGED queue
    BY <1>3, Zenon DEF Badge!Navigate
  <2>2. cleans'.tab = cleans.tab /\ PageOwed' = PageOwed
    BY <1>0, <2>1 DEF PageOwed
  <2> QED BY <1>0, <2>1, <2>2 DEF OwedInv
<1>4. CASE Badge!CloseTab
  BY <1>4, Zenon DEF Badge!CloseTab, Badge!Open
<1>5. CASE UNCHANGED <<queue, pageCount, page, cleans>>
  <2>1. PageOwed' = PageOwed
    BY <1>5, Zenon DEF PageOwed
  <2> QED BY <1>5, <2>1, Zenon DEF OwedInv, Badge!Open
<1>6. CASE \/ Badge!EmitCleaned \/ Badge!NavReadsPrefs \/ Badge!NavRepaints
           \/ (\E key \in {"on", "paused", "show", "done"} : Badge!Change(key))
           \/ Badge!ListenerReadsPrefs \/ Badge!RepaintAllTabs \/ Badge!Evict
           \/ Badge!ListenerTellsShowBadge \/ UNCHANGED Badge!vars
  <2>1. UNCHANGED <<queue, pageCount, page, cleans>>
    BY <1>6, Zenon DEF Badge!EmitCleaned, Badge!NavReadsPrefs, Badge!NavRepaints,
       Badge!Change, Badge!ListenerReadsPrefs, Badge!RepaintAllTabs, Badge!Evict,
       Badge!ListenerTellsShowBadge, Badge!vars
  <2> QED BY <1>5, <2>1
<1> QED
  BY <1>1, <1>2, <1>3, <1>4, <1>6, Zenon DEF Badge!Next

LEMMA BadgeTyped == RunSpec => []Badge!TypeOK
<1>1. BadgeInv /\ OwedInv => Badge!TypeOK
  <2> SUFFICES ASSUME BadgeInv, OwedInv PROVE Badge!TypeOK
    OBVIOUS
  <2>0. BadgeTypes /\ CountInv
    BY DEF BadgeInv
  <2>1. /\ cleans.tab \in Nat /\ queue \in Seq(Task) /\ Len(queue) \in Nat
        /\ pageCount \in Nat /\ total \in Nat
    BY <2>0 DEF BadgeTypes
  <2>2. PageOwed \in Nat
    BY <2>1 DEF PageOwed
  <2>3. Badge!Open => pageCount \in 0..cleans.tab /\ total \in 0..cleans.tab
    BY <2>0, <2>1, <2>2 DEF CountInv, OwedInv
  <2>4. queue \in Seq([pc : {"readPage", "writePage", "readTotal", "writeTotal"}, seen : Nat])
    BY <2>1, Zenon DEF Task
  <2>5. badgePrefs \in [on : BOOLEAN, paused : BOOLEAN, show : BOOLEAN, done : BOOLEAN]
    BY <2>0, Zenon DEF BadgeTypes, BadgePrefs
  <2> QED BY <2>0, <2>3, <2>4, <2>5, Zenon DEF BadgeTypes, Badge!TypeOK
<1>2. Badge!Init => OwedInv
  BY DEF Badge!Init, OwedInv, PageOwed
<1> QED BY <1>1, <1>2, BadgeOfRun, BadgeAlways, OwedNext, PTL DEF Badge!Spec

\* What a run has seen, the memos and the popup's course.
NudgeTypes ==
    /\ day \in 0..MaxDay /\ dismissed \in BOOLEAN /\ nudgeFaults \in Nat
    /\ memo \in [Nudge!Context -> Nat \cup {Nudge!None}]
    /\ popup \in {"closed", "counting", "reading"}
    /\ \A c \in Nudge!Context : run[c].seenDay \in Nat \cup {Nudge!None}

LEMMA NudgeTypesInit == Nudge!Init => NudgeTypes
<1> SUFFICES ASSUME Nudge!Init PROVE NudgeTypes
  OBVIOUS
<1>1. /\ day = 0 /\ ~dismissed /\ dismissed \in BOOLEAN /\ nudgeFaults = 0
      /\ popup = "closed" /\ memo = [c \in Nudge!Context |-> Nudge!None]
      /\ run = [c \in Nudge!Context |-> Nudge!Idle]
  BY DEF Nudge!Init
<1>2. Nudge!Idle.seenDay = Nudge!None
  BY DEF Nudge!Idle
<1>3. 0 \in 0..MaxDay
  BY PageAssumption
<1> QED BY <1>1, <1>2, <1>3 DEF NudgeTypes

\* The run of one context may begin, be given up, or have read the last day.
LEMMA NudgeRuns ==
    ASSUME NudgeTypes, DaysInv, NEW c \in Nudge!Context, NEW r,
           r.seenDay \in Nat \cup {Nudge!None}, run' = run \/ run' = [run EXCEPT ![c] = r]
    PROVE  \A d \in Nudge!Context : run'[d].seenDay \in Nat \cup {Nudge!None}
<1>1. run \in [Nudge!Context -> Counting]
  BY DEF DaysInv
<1>2. \A d \in Nudge!Context : run'[d] = r \/ run'[d] = run[d]
  BY <1>1
<1> QED BY <1>2 DEF NudgeTypes

LEMMA NudgeTypesNext == NudgeTypes /\ DaysInv /\ [Nudge!Next]_Nudge!vars => NudgeTypes'
<1> SUFFICES ASSUME NudgeTypes, DaysInv, [Nudge!Next]_Nudge!vars PROVE NudgeTypes'
  OBVIOUS
<1>0. /\ day \in 0..MaxDay /\ MaxDay \in Nat /\ dismissed \in BOOLEAN /\ nudgeFaults \in Nat
      /\ memo \in [Nudge!Context -> Nat \cup {Nudge!None}]
      /\ popup \in {"closed", "counting", "reading"}
      /\ \A c \in Nudge!Context : run[c].seenDay \in Nat \cup {Nudge!None}
      /\ run \in [Nudge!Context -> Counting] /\ lastDay \in Nat \cup {Nudge!None}
  BY PageAssumption DEF NudgeTypes, DaysInv
<1>1. /\ Nudge!Idle.seenDay = Nudge!None
      /\ [Nudge!Idle EXCEPT !.pc = "reading", !.day = day].seenDay = Nudge!None
      /\ Nudge!Context = {"worker", "popup"}
  BY DEF Nudge!Idle, Nudge!Context
<1>2. ASSUME NEW c \in Nudge!Context, Nudge!Record(c)
      PROVE  \A d \in Nudge!Context : run'[d].seenDay \in Nat \cup {Nudge!None}
  <2> DEFINE fresh == [Nudge!Idle EXCEPT !.pc = "reading", !.day = day]
  <2>1. run' = run \/ run' = [run EXCEPT ![c] = fresh]
    BY <1>2, Zenon DEF Nudge!Record
  <2>2. fresh.seenDay \in Nat \cup {Nudge!None}
    BY <1>1
  <2> HIDE DEF fresh
  <2> QED BY <2>1, <2>2, NudgeRuns
<1>3. CASE Nudge!Decide \/ Nudge!Open
  <2>1. /\ UNCHANGED <<day, dismissed, nudgeFaults, memo>> /\ popup' \in {popup, "counting"}
        /\ Nudge!Record("worker") \/ Nudge!Record("popup")
    BY <1>3, Zenon DEF Nudge!Decide, Nudge!Open, Nudge!stored
  <2> QED BY <1>0, <1>1, <1>2, <2>1 DEF NudgeTypes
<1>4. CASE Nudge!Counts \/ UNCHANGED Nudge!vars
  <2>1. UNCHANGED <<day, dismissed, nudgeFaults, memo, run>> /\ popup' \in {popup, "reading"}
    BY <1>4, Zenon DEF Nudge!Counts, Nudge!vars, Nudge!stored
  <2> QED BY <1>0, <2>1 DEF NudgeTypes
<1>5. CASE Nudge!Show
  <2>1. /\ UNCHANGED <<day, run>> /\ popup' = "closed" /\ dismissed' \in BOOLEAN
        /\ memo' = [memo EXCEPT !["popup"] = Nudge!None]
        /\ nudgeFaults' = nudgeFaults \/ nudgeFaults' = nudgeFaults + 1
    BY <1>5, Zenon DEF Nudge!Show
  <2>2. memo' \in [Nudge!Context -> Nat \cup {Nudge!None}]
    BY <1>0, <2>1
  <2> QED BY <1>0, <2>1, <2>2 DEF NudgeTypes
<1>6. CASE Nudge!Close
  <2>1. /\ UNCHANGED <<day, dismissed, nudgeFaults>> /\ popup' = "closed"
        /\ run' = [run EXCEPT !["popup"] = Nudge!Idle]
        /\ memo' = [memo EXCEPT !["popup"] = Nudge!None]
    BY <1>6, Zenon DEF Nudge!Close, Nudge!stored
  <2>2. memo' \in [Nudge!Context -> Nat \cup {Nudge!None}]
    BY <1>0, <2>1
  <2>3. \A d \in Nudge!Context : run'[d].seenDay \in Nat \cup {Nudge!None}
    BY <1>1, <2>1, NudgeRuns
  <2> QED BY <1>0, <2>1, <2>2, <2>3 DEF NudgeTypes
<1>7. CASE Nudge!NewSession
  <2>1. /\ UNCHANGED <<day, dismissed, nudgeFaults>> /\ popup' = "closed"
        /\ run' = [c \in Nudge!Context |-> Nudge!Idle]
        /\ memo' = [c \in Nudge!Context |-> Nudge!None]
    BY <1>7, Zenon DEF Nudge!NewSession, Nudge!stored
  <2> QED BY <1>0, <1>1, <2>1 DEF NudgeTypes
<1>8. CASE Nudge!Midnight
  <2>1. /\ day < MaxDay /\ day' = day + 1
        /\ UNCHANGED <<dismissed, nudgeFaults, memo, popup, run>>
    BY <1>8, Zenon DEF Nudge!Midnight, Nudge!stored
  <2> QED BY <1>0, <2>1 DEF NudgeTypes
<1>9. ASSUME NEW c \in Nudge!Context, Nudge!RecordReads(c) PROVE NudgeTypes'
  <2>1. /\ UNCHANGED <<day, dismissed, memo, popup>>
        /\ nudgeFaults' = nudgeFaults \/ nudgeFaults' = nudgeFaults + 1
        /\ \/ run' = [run EXCEPT ![c].pc = "writing", ![c].seen = count, ![c].seenDay = lastDay]
           \/ run' = [run EXCEPT ![c] = Nudge!Idle]
    BY <1>9, Zenon DEF Nudge!RecordReads, Nudge!stored
  <2>2. \A d \in Nudge!Context : run'[d].seenDay \in Nat \cup {Nudge!None}
    <3>1. CASE run' = [run EXCEPT ![c] = Nudge!Idle]
      BY <1>1, <3>1, NudgeRuns
    <3>2. CASE run' = [run EXCEPT ![c].pc = "writing", ![c].seen = count, ![c].seenDay = lastDay]
      <4> DEFINE w == [run[c] EXCEPT !.pc = "writing", !.seen = count, !.seenDay = lastDay]
      <4>1. run' = [run EXCEPT ![c] = w]
        BY <1>0, <3>2
      <4>2. w.seenDay = lastDay
        BY <1>0 DEF Counting
      <4> HIDE DEF w
      <4> QED BY <1>0, <4>1, <4>2, NudgeRuns
    <3> QED BY <2>1, <3>1, <3>2
  <2> QED BY <1>0, <2>1, <2>2 DEF NudgeTypes
<1>10. ASSUME NEW c \in Nudge!Context, Nudge!RecordWrites(c) PROVE NudgeTypes'
  <2>1. /\ UNCHANGED <<day, dismissed, popup>>
        /\ nudgeFaults' = nudgeFaults \/ nudgeFaults' = nudgeFaults + 1
        /\ memo' = [memo EXCEPT ![c] = run[c].day] /\ run' = [run EXCEPT ![c] = Nudge!Idle]
    BY <1>10, Zenon DEF Nudge!RecordWrites
  <2>2. run[c].day \in Nat
    BY <1>0 DEF Counting
  <2>3. memo' \in [Nudge!Context -> Nat \cup {Nudge!None}]
    BY <1>0, <2>1, <2>2
  <2>4. \A d \in Nudge!Context : run'[d].seenDay \in Nat \cup {Nudge!None}
    BY <1>1, <2>1, NudgeRuns
  <2> QED BY <1>0, <2>1, <2>3, <2>4 DEF NudgeTypes
<1> QED
  BY <1>3, <1>4, <1>5, <1>6, <1>7, <1>8, <1>9, <1>10, Zenon DEF Nudge!Next

LEMMA NudgeTyped == RunSpec => []Nudge!TypeOK
<1>1. NudgeTypes /\ DaysInv /\ ShowInv => Nudge!TypeOK
  <2> SUFFICES ASSUME NudgeTypes, DaysInv, ShowInv PROVE Nudge!TypeOK
    OBVIOUS
  <2>1. day \in 0..MaxDay /\ MaxDay \in Nat /\ nudgeCounted \subseteq 0..day
    BY PageAssumption DEF NudgeTypes, DaysInv
  <2>2. nudgeCounted \subseteq 0..MaxDay
    BY <2>1
  <2>3. run \in [Nudge!Context -> [pc : {"idle", "reading", "writing"}, day : Nat,
                                   seen : Nat, seenDay : Nat \cup {Nudge!None}]]
    <3>1. run \in [Nudge!Context -> Counting]
      BY DEF DaysInv
    <3>2. \A c \in Nudge!Context :
             run[c] \in [pc : {"idle", "reading", "writing"}, day : Nat,
                         seen : Nat, seenDay : Nat \cup {Nudge!None}]
      BY <3>1 DEF NudgeTypes, Counting
    <3> QED BY <3>1, <3>2
  <2> QED BY <2>1, <2>2, <2>3, Zenon DEF NudgeTypes, DaysInv, ShowInv, Nudge!TypeOK
<1>2. RunInit => NudgeTypes /\ DaysInv /\ ShowInv
  BY NudgeTypesInit, DaysInit, ShowInit DEF RunInit
<1> QED BY <1>1, <1>2, NudgeOfRun, NudgeTypesNext, DaysNext, ShowNext, PTL DEF RunSpec

\* The settings the preview knows, and the question it asks of them.
PreviewTypes ==
    /\ setting \in Hover!Settings /\ hoverPrefs \in Hover!Settings \cup {Hover!Unknown}
    /\ loads \in Nat

LEMMA PreviewTypesNext == PreviewTypes /\ [Hover!Next]_Hover!vars => PreviewTypes'
<1> SUFFICES ASSUME PreviewTypes, [Hover!Next]_Hover!vars PROVE PreviewTypes'
  OBVIOUS
<1>1. CASE UNCHANGED Hover!settings
  BY <1>1 DEF Hover!settings, PreviewTypes
<1>2. CASE Hover!Change
  BY <1>2 DEF Hover!Change, PreviewTypes
<1>3. CASE Hover!Loaded
  BY <1>3 DEF Hover!Loaded, PreviewTypes
<1>4. CASE UNCHANGED Hover!vars
  BY <1>1, <1>4 DEF Hover!vars
<1>5. CASE \/ \E l \in Hover!Link : Hover!Enter(l)
           \/ Hover!Leave \/ Hover!FireHover
           \/ \E r \in requests : Hover!WorkerChecks(r) \/ Hover!WorkerAnswers(r)
                                    \/ Hover!AnswerArrives(r) \/ Hover!GivesUp(r)
  BY <1>1, <1>5, Zenon DEF Hover!Enter, Hover!Leave, Hover!FireHover, Hover!WorkerChecks,
     Hover!WorkerAnswers, Hover!AnswerArrives, Hover!GivesUp
<1> QED BY <1>2, <1>3, <1>4, <1>5, Zenon DEF Hover!Next

LEMMA HoverTyped == RunSpec => []Hover!TypeOK
<1>1. PreviewTypes /\ PreviewInv => Hover!TypeOK
  <2> SUFFICES ASSUME PreviewTypes, PreviewInv PROVE Hover!TypeOK
    OBVIOUS
  <2>1. hoverTimer \in Hover!Link \cup {Hover!None}
    BY DEF PreviewInv, HoverInv
  <2>2. \A l \in Hover!Link : aria[l] \in {"page", "tip"}
    BY DEF PreviewInv, DescribedInv
  <2> QED
    BY <2>1, <2>2, Zenon DEF PreviewTypes, PreviewInv, HoverInv, DescribedInv, Hover!TypeOK
<1>2. Hover!None \notin Hover!Link
  BY PageAssumption DEF Hover!None, Hover!Link
<1>3. RunInit => PreviewInv /\ PreviewTypes
  <2>1. RunInit => Hover!Init
    BY DEF RunInit
  <2>2. Hover!Init => PreviewTypes
    BY DEF Hover!Init, PreviewTypes
  <2> QED BY <1>2, <2>1, <2>2, HoverInit
<1>4. [RunNext]_allVars => [Hover!Next]_Hover!vars
  BY DEF RunNext, allVars, hoverVars, Hover!vars, Hover!settings, Hover!hover,
     Hover!tooltip, Hover!bounds
<1>5. PreviewInv /\ [Hover!Next]_Hover!vars => PreviewInv'
  BY <1>2, HoverNext
<1> QED BY <1>1, <1>3, <1>4, <1>5, PreviewTypesNext, PTL DEF RunSpec

\* A reply tells of a version stored by then, and the tab knows none but those.
TabTypes ==
    /\ firefox \in BOOLEAN /\ tabGate \in BOOLEAN /\ gateFailed \in BOOLEAN /\ seen \in BOOLEAN
    /\ tabPrefs \in 0..tabStored \cup {Tab!None}
    /\ \A i \in 1..Len(replies) : replies[i].version \in 0..tabStored \cup {Tab!None}
    /\ last = <<>> \/ \E url \in Tab!URLs : last = <<url>>
    /\ navigations \in 0..MaxTabNavigations /\ tabFailures \in 0..MaxTabFailures

LEMMA TabTypesInit == Tab!Init => TabTypes
<1> SUFFICES ASSUME Tab!Init PROVE TabTypes
  OBVIOUS
<1>1. /\ firefox \in BOOLEAN /\ tabGate = FALSE /\ gateFailed = FALSE /\ seen = FALSE
      /\ tabPrefs = Tab!None /\ replies = <<>> /\ last = <<>>
      /\ navigations = 0 /\ tabFailures = 0
  BY DEF Tab!Init
<1>2. 0 \in 0..MaxTabNavigations /\ 0 \in 0..MaxTabFailures
  BY PageAssumption
<1>3. \A i \in 1..Len(replies) : replies[i].version \in 0..tabStored \cup {Tab!None}
  BY <1>1
<1> QED BY <1>1, <1>2, <1>3, Zenon DEF TabTypes

\* What __mugaReclean leaves behind is a URL, if anything.
LEMMA RecleanTyped ==
    ASSUME TabTypes, NEW url \in Tab!URLs, NEW version, Tab!Reclean(url, version)
    PROVE  last' = <<>> \/ \E u \in Tab!URLs : last' = <<u>>
<1>1. last' = last \/ last' = <<Tab!Pipeline(url)>>
  BY Zenon DEF Tab!Reclean
<1> QED BY <1>1, PipelineCleans DEF TabTypes

LEMMA TabTypesNext ==
    TabTypes /\ GateInv /\ RecleanInv /\ [Tab!Next]_Tab!vars => TabTypes'
<1> SUFFICES ASSUME TabTypes, GateInv, RecleanInv, [Tab!Next]_Tab!vars PROVE TabTypes'
  OBVIOUS
<1>0. /\ tabStored \in Nat /\ told \in Nat /\ tabHeard \in Nat /\ tabHeard <= tabStored
      /\ replies \in Seq(Reply) /\ location \in Tab!URLs
      /\ MaxTabNavigations \in Nat /\ MaxTabFailures \in Nat
  BY PageAssumption DEF GateInv, RecleanInv
<1>1. CASE Tab!Change
  <2>1. /\ tabStored' = tabStored + 1
        /\ UNCHANGED <<firefox, tabGate, gateFailed, seen, tabPrefs, replies, last,
                       navigations, tabFailures>>
    BY <1>1, Zenon DEF Tab!Change, Tab!page
  <2>2. 0..tabStored \subseteq 0..tabStored'
    BY <1>0, <2>1
  <2> HIDE DEF Tab!None
  <2> QED BY <2>1, <2>2 DEF TabTypes
<1>2. CASE Tab!WorkerHears \/ Tab!WindowEnds \/ UNCHANGED Tab!vars
  <2>1. UNCHANGED <<firefox, tabStored, tabGate, gateFailed, seen, tabPrefs, replies, last,
                    navigations, tabFailures>>
    BY <1>2, Zenon DEF Tab!WorkerHears, Tab!WindowEnds, Tab!vars, Tab!page, Tab!channel
  <2> QED BY <2>1, Zenon DEF TabTypes
<1>3. CASE Tab!TabHears
  <2>1. /\ tabPrefs' = Tab!None \/ tabPrefs' = tabPrefs
        /\ UNCHANGED <<firefox, tabStored, tabGate, gateFailed, seen, replies, last,
                       navigations, tabFailures>>
    BY <1>3, Zenon DEF Tab!TabHears, Tab!page
  <2> QED BY <2>1 DEF TabTypes
<1>4. CASE Tab!Answer
  <2>1. /\ UNCHANGED <<firefox, tabStored, tabGate, gateFailed, seen, tabPrefs, last,
                       navigations>>
        /\ tabFailures' = tabFailures
             \/ (tabFailures < MaxTabFailures /\ tabFailures' = tabFailures + 1)
    BY <1>4, Zenon DEF Tab!Answer, Tab!page
  <2>2. PICK who \in asks, version \in (tabHeard..tabStored) \cup {Tab!None} :
          replies' = Append(replies, [who |-> who, version |-> version])
    BY <1>4, Zenon DEF Tab!Answer
  <2>3. version \in 0..tabStored \cup {Tab!None}
    BY <1>0
  <2>4. \A i \in 1..Len(replies') :
          replies'[i].version = version \/ (i \in 1..Len(replies) /\ replies'[i] = replies[i])
    BY <1>0, <2>2
  <2>5. \A i \in 1..Len(replies') : replies'[i].version \in 0..tabStored' \cup {Tab!None}
    BY <2>1, <2>3, <2>4 DEF TabTypes
  <2>6. tabFailures' \in 0..MaxTabFailures
    BY <1>0, <2>1 DEF TabTypes
  <2> QED BY <2>1, <2>5, <2>6, Zenon DEF TabTypes
<1>5. CASE Tab!Deliver
  <2>1. /\ replies # <<>> /\ replies' = Tail(replies)
        /\ UNCHANGED <<firefox, tabStored, navigations, tabFailures>>
        /\ \/ /\ tabPrefs' = Head(replies).version
              /\ Tab!Reclean(location, Head(replies).version)
              /\ seen' = Tab!Allowed(location, Head(replies).version)
              /\ UNCHANGED <<tabGate, gateFailed>>
           \/ /\ tabGate' = Tab!Enabled(Head(replies).version)
              /\ gateFailed' = (Head(replies).version = Tab!None)
              /\ UNCHANGED <<tabPrefs, seen, last>>
    BY <1>5, Zenon DEF Tab!Deliver, Tab!page
  <2>2. /\ Head(replies) = replies[1] /\ 1 \in 1..Len(replies)
        /\ \A i \in 1..Len(replies') : replies'[i] = replies[i + 1] /\ i + 1 \in 1..Len(replies)
    BY <1>0, <2>1
  <2>3. /\ Head(replies).version \in 0..tabStored \cup {Tab!None}
        /\ \A i \in 1..Len(replies') : replies'[i].version \in 0..tabStored' \cup {Tab!None}
    BY <2>1, <2>2 DEF TabTypes
  <2>4. last' = <<>> \/ \E u \in Tab!URLs : last' = <<u>>
    BY <1>0, <2>1, RecleanTyped DEF TabTypes
  <2>5. tabGate' \in BOOLEAN /\ gateFailed' \in BOOLEAN /\ seen' \in BOOLEAN
    BY <2>1, Zenon DEF TabTypes, Tab!Enabled, Tab!Allowed
  <2>6. tabPrefs' \in 0..tabStored' \cup {Tab!None}
    BY <2>1, <2>3 DEF TabTypes
  <2> QED BY <2>1, <2>3, <2>4, <2>5, <2>6, Zenon DEF TabTypes
<1>6. ASSUME NEW url \in Tab!URLs, NEW recleaned \in BOOLEAN, Tab!Navigates(url, recleaned)
      PROVE  TabTypes'
  <2>1. /\ navigations < MaxTabNavigations /\ navigations' = navigations + 1
        /\ UNCHANGED <<firefox, tabStored, replies, tabPrefs, tabGate, gateFailed, tabFailures>>
        /\ seen' = (recleaned /\ Tab!Allowed(url, tabPrefs))
        /\ Tab!Reclean(url, tabPrefs) \/ last' = last
    BY <1>6, Zenon DEF Tab!Navigates, Tab!channel
  <2>2. last' = <<>> \/ \E u \in Tab!URLs : last' = <<u>>
    BY <2>1, RecleanTyped DEF TabTypes
  <2>3. seen' \in BOOLEAN
    BY <2>1, Zenon
  <2>4. navigations' \in 0..MaxTabNavigations
    BY <1>0, <2>1 DEF TabTypes
  <2> QED BY <2>1, <2>2, <2>3, <2>4, Zenon DEF TabTypes
<1>7. CASE Tab!PushState
  <2>1. PICK url \in Tab!URLs :
          Tab!Navigates(IF tabGate /\ ~firefox THEN [url EXCEPT !.hot = FALSE] ELSE url, tabGate)
    BY <1>7, Zenon DEF Tab!PushState
  <2>2. [url EXCEPT !.hot = FALSE] \in Tab!URLs
    BY DEF Tab!URLs
  <2>3. tabGate \in BOOLEAN
    BY DEF TabTypes
  <2> QED BY <1>6, <2>1, <2>2, <2>3
<1>8. CASE Tab!Traverse
  BY <1>6, <1>8 DEF Tab!Traverse
<1> QED
  BY <1>1, <1>2, <1>3, <1>4, <1>5, <1>7, <1>8, Zenon DEF Tab!Next

LEMMA TabTyped == RunSpec => []Tab!TypeOK
<1>1. TabTypes /\ GateInv /\ RecleanInv => Tab!TypeOK
  <2> SUFFICES ASSUME TabTypes, GateInv, RecleanInv PROVE Tab!TypeOK
    OBVIOUS
  <2> DEFINE Told == [who : {"content", "gate"}, version : 0..tabStored \cup {Tab!None}]
  <2>1. replies \in Seq(Told)
    <3>1. replies \in Seq(Reply) /\ Len(replies) \in Nat
          /\ replies = [i \in 1..Len(replies) |-> replies[i]]
      BY DEF GateInv
    <3>2. ASSUME NEW i \in 1..Len(replies) PROVE replies[i] \in Told
      <4>1. replies[i] \in Reply /\ replies[i].version \in 0..tabStored \cup {Tab!None}
        BY <3>1 DEF TabTypes
      <4>2. /\ replies[i].who \in {"content", "gate"}
            /\ replies[i] = [who |-> replies[i].who, version |-> replies[i].version]
        BY <4>1 DEF Reply
      <4> QED BY <4>1, <4>2, Zenon
    <3> HIDE DEF Told
    <3> QED BY <3>1, <3>2
  <2>2. told \in 0..tabHeard /\ tabHeard \in 0..tabStored
    BY DEF GateInv
  <2>3. last \in Tab!SeqOf(Tab!URLs, 1)
    <3>1. \E m \in 0..1 : last \in [1..m -> Tab!URLs]
      <4>1. CASE last = <<>>
        <5>1. last \in [1..0 -> Tab!URLs]
          BY <4>1
        <5> QED BY <5>1
      <4>2. CASE \E u \in Tab!URLs : last = <<u>>
        <5>1. last \in [1..1 -> Tab!URLs]
          BY <4>2
        <5> QED BY <5>1
      <4> QED BY <4>1, <4>2 DEF TabTypes
    <3> QED BY <3>1, Zenon DEF Tab!SeqOf
  <2>4. {tabGate, gateFailed, seen} \subseteq BOOLEAN
    BY Zenon DEF TabTypes
  <2> QED
    BY <2>1, <2>2, <2>3, <2>4, Zenon DEF TabTypes, GateInv, RecleanInv, Tab!TypeOK
<1>2. RunInit => TabTypes /\ GateInv /\ RecleanInv
  BY TabTypesInit, GateInit, RecleanInit DEF RunInit
<1> QED BY <1>1, <1>2, TabOfRun, TabTypesNext, GateNext, RecleanNext, PTL DEF RunSpec
=============================================================================
