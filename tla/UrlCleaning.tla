----------------------------- MODULE UrlCleaning -----------------------------
(***************************************************************************)
(* processUrl (lib/cleaner.js), the decision every route of MUGA takes,    *)
(* and what it takes to decide: unwrapping (lib/wrapper-engine.js,         *)
(* amp-unwrap.js), the signed-URL and exemption choke points, path rules   *)
(* (path-rules.js), the param classifier and the affiliate pipeline.  The  *)
(* routes hand each other its answer: a click navigates to the clean link, *)
(* the network layer cleans that navigation and the page that loads cleans *)
(* its own address, so the module cleans one link MaxPasses times.         *)
(*                                                                         *)
(* "shop" stands for a host that has every kind of rule, "gateway" for a   *)
(* redirect wrapper's own page.  A param's key names what the rules say of *)
(* it: tag and Tag an affiliate program's param in two cases, land a       *)
(* network's landing param, trk an anchor tracker, cat a tracker of a      *)
(* category the user has switched off, kept one that the host's domain     *)
(* rule preserves, pair a param only tracking next to an anchor, sig a     *)
(* signature, plain any other.                                             *)
(***************************************************************************)
EXTENDS Naturals, Sequences, FiniteSets, SequencesExt

CONSTANTS
    MaxHops,    \* DEFAULT_MAX_HOPS
    Localized,  \* shop links may carry the /-/xx locale prefix
    MixedCase,  \* a query may spell one param in two cases
    MaxPasses   \* bound: times the link is cleaned

VARIABLES
    link,      \* the link as it is now
    prefs,     \* the preferences, and the lists parsed
    referrer,  \* the page the link was followed from
    answer,    \* the payload of the last pass
    passes

vars == <<link, prefs, referrer, answer, passes>>

None == "none"
Param(k, v) == [key |-> k, val |-> v]
Entry(host, key, val) == [host |-> host, key |-> key, val |-> val]
Site(host) == Entry(host, None, None)
Approval == Entry("shop", "tag", "v1")

Singles ==
    {Param("tag", v) : v \in {"v1", "v2", ""}}
    \cup {Param(k, "v1") : k \in {"trk", "cat", "kept", "land", "pair", "plain", "sig"}}
    \cup (IF MixedCase THEN {Param("Tag", "v2")} ELSE {})

Queries ==
    {<<>>} \cup {<<p>> : p \in Singles}
    \cup {<<p, q>> : p \in {Param("tag", "v1"), Param("trk", "v1")}, q \in Singles}
    \cup {<<Param("tag", "v2"), Param("tag", "v1")>>}

Paths ==
    {<<"page">>, <<"auth">>, <<"item">>, <<"slug", "dp">>, <<"shop", "creator">>,
     <<"a", "creator", "page">>}
    \cup (IF Localized THEN {<<"-", "en", "slug", "dp">>} ELSE {})

Links ==
    [layers : {<<>>, <<"wrapper">>, <<"wrapper", "wrapper">>, <<"amp">>,
               <<"wrapper", "amp">>},
     host : {"shop"}, path : Paths, query : Queries]
    \cup [layers : {<<>>, <<"wrapper">>}, host : {"gateway"}, path : {<<"page">>},
          query : Queries]

NoAnswer == [action |-> None, junk |-> 0, detected |-> None]

Init ==
    /\ link \in Links
    /\ prefs \in [stripAll : BOOLEAN, notify : BOOLEAN, unwrap : BOOLEAN,
                  white : {{}, {Site("shop")}, {Site("gateway")}, {Approval}},
                  black : {{}, {Site("shop")}, {Entry("shop", "tag", "*")}}]
    /\ prefs.stripAll => ~prefs.notify
    /\ referrer \in {None, "network", "creator"}
    /\ answer = NoAnswer /\ passes = 0

-----------------------------------------------------------------------------
(* Queries.                                                                *)

Lower(k) == IF k = "Tag" THEN "tag" ELSE k
Keys(q) == {p.key : p \in ToSet(q)}

\* The params of a query that are among some, in their order.
Among(q, some) ==
    FoldLeft(LAMBDA found, p : IF p \in some THEN Append(found, p) ELSE found, <<>>, q)

Without(q, k) == Among(q, {p \in Singles : p.key # k})

\* findParamKeyCI: the spelling that comes first; the others are not looked at.
SpellingOf(q, k) ==
    LET found == Among(q, {p \in Singles : Lower(p.key) = k})
    IN  IF found = <<>> THEN None ELSE found[1].key

\* Deleting a key and appending the values that may stay.
Keeping(q, k, kept) ==
    Without(q, k) \o Among(q, {p \in Singles : p.key = k /\ p.val \in kept})

ValuesOf(q, k) == {p.val : p \in {x \in ToSet(q) : x.key = k}}

-----------------------------------------------------------------------------
(* The choke points.                                                       *)

\* The host the browser sees.
EntryHost(l) ==
    CASE l.layers = <<>> -> l.host
      [] l.layers # <<>> /\ Head(l.layers) = "wrapper" -> "gateway"
      [] OTHER -> "amp"

IsSiteFullyExempt(host) == Site(host) \in prefs.white

\* A wrapper's destination is one encoded value; an AMP address keeps the query.
IsSigned(l) == "sig" \in Keys(l.query) /\ "wrapper" \notin ToSet(l.layers)

LeftAlone(l) == IsSiteFullyExempt(EntryHost(l)) \/ IsSigned(l)

\* shouldHonor: a wrapper reached from a creator the user allows.
Honored(l) == referrer = "creator" /\ EntryHost(l) = "gateway"

-----------------------------------------------------------------------------
(* unwrapAndExtract.                                                       *)

OneHop(layers) == IF layers # <<>> /\ Head(layers) = "wrapper" THEN 1 ELSE 0

\* unwrap: hop by hop, as long as there is a wrapper and at most MaxHops times.
Hops(layers) ==
    Cardinality({i \in 1 .. MaxHops :
        i <= Len(layers) /\ \A j \in 1 .. i : layers[j] = "wrapper"})

Peeled(layers) ==
    LET rest == IF prefs.unwrap THEN SubSeq(layers, Hops(layers) + 1, Len(layers))
                ELSE layers
    IN  IF rest # <<>> /\ Head(rest) = "amp" THEN Tail(rest) ELSE rest

IsCreatorPath(path) == Head(path) \in {"a", "shop"}

\* unwrapReferral matches /a/CREATOR/DEST, and refuses one within another.
UnwrapTo(path) ==
    IF Head(path) = "a" /\ Len(path) > 2 /\ path[3] # "a"
    THEN SubSeq(path, 3, Len(path)) ELSE path

\* The path rules are the destination's: they see no path behind a layer.
Unwrapped(l) ==
    LET u == [l EXCEPT !.layers = Peeled(l.layers)]
    IN  IF prefs.stripAll /\ u.layers = <<>> /\ IsCreatorPath(l.path)
        THEN [u EXCEPT !.path = UnwrapTo(l.path)] ELSE u

-----------------------------------------------------------------------------
(* Tracking: classifyAndStripTracking and stripTrackingParams.  A query    *)
(* that is still behind a wrapper is part of the wrapper's own params.     *)

IsShop(l) == l.layers = <<>> /\ l.host = "shop"

IsTrackingParam(k) == k \in {"trk", "cat", "kept", "land"}

\* classify: bounded scope, switched off on a network's own pages.
Classified(l, k) == k = "pair" /\ "trk" \in Keys(l.query) /\ EntryHost(l) # "gateway"

LandingKept(k) == k = "land" /\ referrer = "network"

\* What is spared although it tracks: affiliate params before everything else.
Spared(l, k) ==
    \/ IsShop(l) /\ Lower(k) = "tag"
    \/ IsShop(l) /\ k = "kept"
    \/ IsShop(l) /\ LandingKept(k)
    \/ k = "cat"

\* An AliExpress item page keeps nothing but preserved and landing params.
ItemPageKeeps(k) == k \in {"kept", "land"}

TrackingStrips(l, k) ==
    IF IsShop(l) /\ l.path = <<"item">> THEN ~ItemPageKeeps(k)
    ELSE l.layers = <<>> /\ (Classified(l, k) \/ IsTrackingParam(k)) /\ ~Spared(l, k)

WithoutTracking(l) ==
    Among(l.query, {p \in Singles : ~TrackingStrips(l, p.key)})

-----------------------------------------------------------------------------
(* handleAffiliatePipeline.                                                *)

IsWhitelisted(k, v) ==
    \E e \in prefs.white : e.host = "shop" /\ e.key = k /\ e.val \in {v, "*"}

TagOnly(l) == IF IsShop(l) THEN {"tag"} ELSE {}

AffiliateParams(l) == {"land"} \cup (IF IsShop(l) THEN {"tag"} ELSE {})

Approved(l, k, v) == IsShop(l) /\ IsWhitelisted(k, v)

\* Step 4: the spelling found first loses the values nobody approved; if it has none
\* to lose, it stays where it is.
StripUnapproved(l, q, k) ==
    LET spelled == SpellingOf(q, k)
        kept == {v \in ValuesOf(q, spelled) : Approved(l, k, v)}
    IN  IF k \in AffiliateParams(l) /\ kept # ValuesOf(q, spelled)
        THEN Keeping(q, spelled, kept) ELSE q

WithoutAffiliates(l, q) ==
    IF prefs.stripAll /\ l.layers = <<>>
    THEN StripUnapproved(l, StripUnapproved(l, q, "tag"), "land") ELSE q

FirstUnapproved(l, q) ==
    LET candidates == Among(q, {p \in Singles :
            /\ p.key = SpellingOf(q, "tag") /\ p.val # ""
            /\ ~Approved(l, "tag", p.val)})
    IN  IF candidates = <<>> THEN None ELSE candidates[1].val

\* Step 3: a foreign tag is reported, and left where it is.
Foreign(l, q) ==
    IF prefs.notify /\ ~prefs.stripAll /\ IsShop(l) THEN FirstUnapproved(l, q) ELSE None

IgnoresApproval(l, v) == IsShop(l) /\ \E e \in prefs.black : e.key = "tag"

Blacklisted(l, v) ==
    /\ IsShop(l) /\ ~Approved(l, "tag", v)
    /\ \E e \in prefs.black : e.key = "tag" /\ e.val \in {v, "*"}

WithoutBlacklisted(l, q) ==
    LET spelled == SpellingOf(q, "tag")
    IN  IF \E v \in ValuesOf(q, spelled) : Blacklisted(l, v)
        THEN Keeping(q, spelled, {v \in ValuesOf(q, spelled) : ~Blacklisted(l, v)})
        ELSE q

NeverForgets(l, v) == v

StillDetected(l, v) == IF v # None /\ Blacklisted(l, v) THEN None ELSE v

-----------------------------------------------------------------------------
(* applyPathStrip and the answers.                                         *)

\* The segment right before /dp/ is taken for the product's name.
PathStripped(path) ==
    IF Len(path) > 1 /\ Last(path) = "dp"
    THEN SubSeq(path, 1, Len(path) - 2) \o <<"dp">> ELSE path

Answers(action, l, junk, detected) ==
    /\ answer' = [action |-> action, junk |-> junk, detected |-> detected]
    /\ link' = l

\* Steps 0a and 0b.
LeavesAlone == LeftAlone(link) /\ Answers("untouched", link, 0, None)

HonorsCreator ==
    /\ ~LeftAlone(link) /\ Honored(link)
    /\ Answers("honored-creator", link, 0, None)

\* The destination behind a wrapper has choke points of its own.
NeverStops(l) == FALSE
StopsAt(l) == IsSiteFullyExempt(EntryHost(l)) \/ IsSigned(l)

IsAuthPath(l) == l.layers = <<>> /\ l.path = <<"auth">>

Proceeds == ~LeftAlone(link) /\ ~Honored(link)

StopsAtDestination ==
    /\ Proceeds /\ StopsAt(Unwrapped(link))
    /\ Answers("cleaned", Unwrapped(link), 0, None)

SparesAuthPath ==
    /\ Proceeds /\ ~StopsAt(Unwrapped(link)) /\ IsAuthPath(Unwrapped(link))
    /\ Answers("untouched", Unwrapped(link), 0, None)

Continues == Proceeds /\ ~StopsAt(Unwrapped(link)) /\ ~IsAuthPath(Unwrapped(link))

PathCleaned(l) == IF IsShop(l) THEN [l EXCEPT !.path = PathStripped(l.path)] ELSE l

One(condition) == IF condition THEN 1 ELSE 0

WipesQuery ==
    LET u == Unwrapped(link)
        cleaned == [PathCleaned(u) EXCEPT !.query = <<>>]
    IN  /\ Continues /\ Site(EntryHost(u)) \in prefs.black
        /\ Answers("blacklisted", cleaned, Len(u.query) + One(cleaned.path # u.path), None)

ActionFor(l, u, q, before, detected) ==
    IF detected # None THEN "detected_foreign"
    ELSE IF u # l \/ q # before \/ PathCleaned(u) # u THEN "cleaned"
    ELSE "untouched"

Strips ==
    LET u == Unwrapped(link)
        tracked == WithoutTracking(u)
        affiliated == WithoutAffiliates(u, tracked)
        query == WithoutBlacklisted(u, affiliated)
        detected == StillDetected(u, Foreign(u, tracked))
        \* landing params stripped with the affiliates count as tracking
        removed == Cardinality(Keys(u.query) \ Keys(tracked))
                   + One("land" \in Keys(tracked) \ Keys(affiliated))
        wiped == One(query # affiliated)
    IN  /\ Continues /\ Site(EntryHost(u)) \notin prefs.black
        /\ Answers(ActionFor(link, u, query, u.query, detected),
                   [PathCleaned(u) EXCEPT !.query = query],
                   removed + wiped + One(PathCleaned(u) # u), detected)

Pass ==
    /\ passes < MaxPasses
    /\ passes' = passes + 1
    /\ UNCHANGED <<prefs, referrer>>
    /\ \/ LeavesAlone \/ HonorsCreator \/ StopsAtDestination \/ SparesAuthPath
       \/ WipesQuery \/ Strips

Next == Pass

Spec == Init /\ [][Next]_vars

-----------------------------------------------------------------------------
(* What cleaning promises.                                                 *)

\* The record's shape, and the junk count within what a link can lose.
TypeOK ==
    /\ passes \in 0 .. MaxPasses
    /\ link.query \in Seq(Singles) /\ link.host \in {"shop", "gateway"}
    /\ answer.junk \in 0 .. 3

\* What follows is said of every step.

\* Cleaning settles: whichever route cleans the link next, with the same
\* preferences, finds nothing left to change.  The click, the network layer and
\* the page's own pass would otherwise rewrite each other's address in turn.
SecondPassIsIdle == passes >= 1 => link' = link

\* A value the user approved for the shop outlives every strip but a
\* blacklisted site's, an item page's and an allowlisted creator's own rules.
ApprovedIsKept ==
    ( /\ IsShop(link) /\ link.path # <<"item">> /\ Site("shop") \notin prefs.black
      /\ Param("tag", "v1") \in ToSet(link.query) /\ Approval \in prefs.white )
    => Param("tag", "v1") \in ToSet(link'.query)

\* What the answer says is what was done: a reported tag is still in the link
\* and nobody ruled on it, junk is counted only for a link that lost something,
\* and an answer that says the link was left alone left it alone.
AnswerIsTrue ==
    /\ answer'.detected # None =>
         /\ answer'.detected \in ValuesOf(link'.query, SpellingOf(link'.query, "tag"))
         /\ ~Blacklisted(link', answer'.detected)
    /\ answer'.junk > 0 => link' # link
    /\ (answer'.action = "untouched" /\ ~IsAuthPath(link')) => link' = link
    /\ answer'.action = "cleaned" => link' # link

\* A site the user exempts and a link that is signed lose nothing of their query,
\* whatever stood in front of them and whichever pass reaches them.
ProtectedIsKept ==
    (Site(link.host) \in prefs.white \/ "sig" \in Keys(link.query))
        => link'.query = link.query

\* With "strip all affiliates" on, no affiliate value the user did not approve
\* is left in a link that was cleaned through.
StripAllIsThorough ==
    (prefs.stripAll /\ answer'.action \in {"cleaned", "blacklisted"}
        /\ ~StopsAt(link') /\ IsShop(link'))
    => \A p \in ToSet(link'.query) :
         Lower(p.key) \in {"tag", "land"} => Approved(link', Lower(p.key), p.val)

\* The locale prefix picks the storefront's language and outlives the slug.
LocaleSurvives ==
    [][ (Len(link.path) > 1 /\ link.path[2] = "en")
            => Len(link'.path) > 1 /\ link'.path[2] = "en" ]_vars
=============================================================================
