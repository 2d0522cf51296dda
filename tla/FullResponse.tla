---------------------------- MODULE FullResponse ----------------------------
(***************************************************************************)
(* What an answer is made of and how it is adjusted to what was asked:     *)
(* FullResponse, HttpConditional, HttpRange, EtagGenerator and the status  *)
(* rules of HttpUtil (src/net-util).                                       *)
(*                                                                         *)
(* Content is known by its version: a number that grows with every change  *)
(* of a file.  Version v was written at time v, and an HTTP date only      *)
(* tells times apart that are not in the same second.  Dates are 0 when    *)
(* there is none (the code takes a date of zero for none).                 *)
(*                                                                         *)
(* A request asks with:                                                    *)
(*   method, noCache, inm (the etags of If-None-Match, or None),           *)
(*   ims (the date of If-Modified-Since, or 0),                            *)
(*   range (its kind: "none", "one" from first to last, "many" that cannot *)
(*   be combined, "bad" for another unit),                                 *)
(*   ifRange (its kind: "none", "tag" or "date").                          *)
(***************************************************************************)
EXTENDS Integers, FiniteSets

CONSTANTS
  PerSecond,   \* how many versions fit into a second
  None         \* null

ASSUME PerSecondAssumption == PerSecond \in Nat \ {0}

SecondOf(time) == (time \div PerSecond) + 1

Etag(of, strong) == [of |-> of, strong |-> strong]

\* EtagGenerator with its default form (vary): what was made from the data is
\* a strong tag, what was made from the file's time and size a weak one.
TagFromData(version)  == Etag(version, TRUE)
TagFromStats(version) == Etag(version, FALSE)

GetOrHead(method) == method \in {"get", "head"}
----------------------------------------------------------------------------
\* A response.  "body" is what the code's #body says: its kind; for a buffer
\* or a file what it is of, and which part.  Of its headers only those about
\* the content matter: whether there is a content-type, and a content-range.
NoBody == [kind |-> "none"]
Message == [kind |-> "message"]
DataBody(kind, of, version, first, length) ==
  [kind |-> kind, of |-> of, version |-> version, first |-> first, length |-> length]

ContentResponse(status, body, headers, etag, date) ==
  [status |-> status, body |-> body, headers |-> headers, etag |-> etag, date |-> date,
   location |-> None]

Response(status, body) == ContentResponse(status, body, {}, None, 0)

BodyAllowed(method, status) ==
  IF method = "head" THEN status >= 400
  ELSE status > 199 /\ status \notin {204, 205, 304}

IsApplicationContent(status) == status \in (200..299) \cup {300, 304}

BodyRequired(status) == status \in {200, 206}

MetaResponse(status) ==
  Response(status,
    IF BodyAllowed("get", status) /\ ~IsApplicationContent(status) THEN Message ELSE NoBody)

Redirect(target, status) == [MetaResponse(status) EXCEPT !.location = target]

\* Without a body, or with a message, there are no headers about the content;
\* only a 416 may say what the range could have been.
HeaderExceptions(status) == IF status = 416 THEN {"content-range"} ELSE {}

Validates(r) ==
  CASE r.body.kind = "none" ->
         /\ ~BodyRequired(r.status)
         /\ r.headers \subseteq HeaderExceptions(r.status)
    [] r.body.kind = "message" ->
         /\ ~IsApplicationContent(r.status) /\ BodyAllowed("get", r.status)
         /\ r.headers \subseteq HeaderExceptions(r.status)
    [] OTHER -> BodyAllowed("get", r.status) /\ "content-type" \in r.headers
----------------------------------------------------------------------------
(* Mutant of IsContentFresh: where no etag matches, the date decides. *)
IsFreshByEither(c, etag, date) ==
  /\ GetOrHead(c.method)
  /\ ~c.noCache
  /\ \/ c.inm # None /\ etag # None /\ etag \in c.inm
     \/ c.ims # 0 /\ date # 0 /\ date <= c.ims

\* A matching etag decides by itself; only without one is the date looked at.
IsContentFresh(c, etag, date) ==
  /\ GetOrHead(c.method)
  /\ ~c.noCache
  /\ IF c.inm # None
     THEN etag # None /\ etag \in c.inm
     ELSE c.ims # 0 /\ date # 0 /\ date <= c.ims

\* A weak etag is not taken for one here: it is read as a date, and is none.
IsRangeApplicable(c, etag, date) ==
  CASE c.ifRange.kind = "none" -> TRUE
    [] c.ifRange.kind = "tag"  -> c.ifRange.tag.strong /\ etag = c.ifRange.tag
    [] c.ifRange.kind = "date" -> date # 0 /\ date <= c.ifRange.date

\* The part that is asked for: <<>> when the whole is to be sent, otherwise
\* its first and last position, the last at most the end of the content.
RangeInfo(c, etag, date, length) ==
  IF \/ ~GetOrHead(c.method)
     \/ c.range.kind \in {"none", "many"}
     \/ ~IsRangeApplicable(c, etag, date)
  THEN [kind |-> "whole"]
  ELSE IF c.range.kind = "bad" \/ c.range.first >= length \/ c.range.first > c.range.last
  THEN [kind |-> "unsatisfiable"]
  ELSE [kind |-> "part", first |-> c.range.first,
        last |-> IF c.range.last >= length THEN length - 1 ELSE c.range.last]

SliceBody(body, first, endExclusive) ==
  DataBody(body.kind, body.of, body.version, body.first + first, endExclusive - first)

\* FullResponse.adjustFor() with both of its options, as all callers pass them.
AdjustFor(r, c) ==
  LET isData == r.body.kind \in {"buffer", "file"}
      info == RangeInfo(c, r.etag, r.date, IF isData THEN r.body.length ELSE 0)
  IN  IF r.status \notin {200, 204} THEN r
      ELSE IF IsContentFresh(c, r.etag, r.date)
           THEN ContentResponse(304, NoBody, {}, r.etag, r.date)
      ELSE IF r.status = 204 \/ ~isData \/ info.kind = "whole" THEN r
      ELSE IF info.kind = "unsatisfiable"
           THEN ContentResponse(416, Message, {"content-range"}, None, 0)
      ELSE ContentResponse(206, SliceBody(r.body, info.first, info.last + 1),
                           r.headers \union {"content-range"}, r.etag, r.date)
============================================================================
