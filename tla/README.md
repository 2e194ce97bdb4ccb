# go_tos_finder in TLA+

`go_tos_finder` is an HTTP service. Given a domain it fetches the homepage,
finds the links that look like legal documents, probes the canonical paths of
the document types the homepage does not link (`/terms`, `/privacy`, ...),
verifies every candidate by fetching it, and answers with one JSON report.
This directory specifies that service: TLA+ modules translated from the Go
source, TLC configurations that check them on small instances, and theorems
with proofs checked by TLAPS. `PROJECT.json` maps every definition to the
source lines it models. Paths below are relative to the repository.

## 1. Inventory

| Component | State | Operations | Interacts with | Hard about it |
|---|---|---|---|---|
| **Admission** `handler_helpers.go:32-108` | `inflightSem` (buffered channel), one timer per waiting request | `acquireSlot`, `releaseSlot` | every request; the request's context | a non-blocking attempt, then a three-way race of slot, timer and context; FIFO hand-over |
| **Request lifecycle** `handler_helpers.go:216-358`, `handler.go` | the response under construction, the budget (a context with a deadline) | parse, admit, pre-check (+retry, +www.), fetch the homepage (+retry, +alternates), block check, JS second look, verification, answer | admission, resolver, fetch client, verification phases | many bounded waits whose sum exceeds the budget; fallbacks that replace part of what was already recorded |
| **Verification phases** `handler_helpers.go:367-521` | `probedHits`, counters, `linkResults`; `scanState`: rate-limit flag, fingerprint table, once-only control page | two launchers (`errgroup` with a limit) and their workers | share the fetch client, the flag and the table; joined by a `WaitGroup` | check-then-act on shared state, ordering of answers, deadlines against late answers |
| **Page verification** `verify.go`, `handler_helpers.go:818-903` | none (a memo of analyses) | `classifyView`, probe rejections, `isTemplateEcho`, `verifyLink` | called by the workers | what a refusal, a wildcard page or the homepage again may count for |
| **Wrap-up** `handler_helpers.go:522-629`, `handler.go:500-659` | the merged map of documents | catch-all pass, dead links, merge, weak-hit filter, disclaimer rule, tallies, verdict | runs alone, after both phases | five filters over one map, and eight figures that must describe its final state |
| **Link discovery** `discover.go`, `patterns*.go` | the map of hits under construction | `scanAnchors`, `classifyLinkEvidence`, `staticScriptLegalTarget`, `footerBounds`, `linkScan` | produces the link hits | malformed markup; selection among several links of a type; paths and texts that name several types |
| **Visible text** `fastre.go:189-356` | a position and a buffer | `visibleText` | every vocabulary decision | unclosed tags, comments and elements; the bound |
| **Block detection** `patterns_block.go` | none | `isHomepageBlocked` | request lifecycle | text patterns only |
| **Prefilter and path matcher** `fastre.go:24-187`, `patterns_path.go` | the literals of an expression; the tokens of a type | `newFastRE`, `Match`, `newPathMatcher`, `match` | every text pattern, every link and probe path | a fast form stands in for a regular expression and must not be narrower: nested operators, case folding outside ASCII, slashes and dots |
| **Imprint extraction** `imprint*.go` | the candidates and the `Imprint` under construction | `extractImprintCandidates`, `normalizeCandidates`, `mergeImprintCandidates`, `bestImprintCandidate`, `backfillWinnerIdentifiers`, `refineDEATCountry`, `refineCountry`, `scoreImprint` | wrap-up, checksums | a pipeline in which each stage overwrites what an earlier one decided from weaker evidence: whose number, whose name, which country |
| **Checksums** `imprint_checksum.go`, `imprint_vat.go` | none | `validateIdentifier`, `validateVAT`, `cleanIdentifierValue`, check digits of some thirty registries | imprint extraction | remainders 10 and 11, lengths, prefixes; one number in several written forms |
| **Shell** `main.go`, `selftest.go`, `charset.go` | none | wiring, self-test, decoding | | |

Interaction in one line: a request passes *admission*, spends its budget in the
*request lifecycle*, runs the two *verification phases* side by side, and the
*wrap-up* turns their results into the answer; the release of the slot is the
last thing that happens.

What makes each correct:

- Admission: the channel holds exactly one value per scan in progress; nobody
  waits beside a free slot, nobody overtakes, nobody is refused without cause;
  every request is answered.
- Lifecycle: the answer is inside the budget on every path; an unreachable
  answer is about the origin that was asked for.
- Phases: the hit kept is the best accepted one in every interleaving; a page
  that answers two types is a document of neither; counters agree with what
  happened; throttling stops speculation; nothing outlives the scan, and every
  scan ends.
- Prefilter and path matcher: a text or path the expression matches is never
  turned away.
- Link discovery and visible text: the scanners see in malformed markup what
  their definitions say; the link reported for a type depends on the rule
  "first footer link, else first link" and on nothing else; a document off the
  site needs two witnesses.
- Checksums: an error the arithmetic can notice is noticed; a number gets one
  verdict in whichever form it is written; a verdict is withheld only where none
  could be given.
- Imprint: a name is found on its line whole and alone, and comes out of its
  wrapping as it is; an address is that of one mention of the company; a company
  that is only mentioned is not the operator; the numbers of the page reach the entity,
  those of another company on it do not; a country that a number proves is not
  overruled by a guess.
- Verification and wrap-up: a link that could not be seen is neither dropped
  nor called dead; a dead link does not come back; the response agrees with
  itself, and says so when it is incomplete.

`PROJECT.json` lists the hazards one by one, at the line where each bites.

## 2. Modules

| Module | Models | State and actions |
|---|---|---|
| `DocTypes` | document types, confidence bands, page views, findings | operators only |
| `Verification` | `classifyView`, probe rejections, `isTemplateEcho`, `verifyLink` | operators only |
| `Report` | the sequential wrap-up and the verdict | operators only; `BuildResponse` is the whole of it |
| `ScanPhases` | both phases and the wrap-up of one scan | a program counter per planned probe (`probePc`) and per link (`linkPc`), the kept hits, the counters, the flag, the table, the control page; one action per step of a goroutine between two points where another can matter |
| `ScanProperties` | what the phases promise | invariants and properties over `ScanPhases` |
| `ScanHistory` | the same with history variables: what the site refused, which links were never seen, which probes came in under throttling, which pages each type's probes met | wraps the actions in which an answer arrives |
| `SiteScan` | a scan of a site that does not change | the `site`, which gives each path, link and the control page its answer; the steps of `ScanPhases` but the deadlines |
| `ScanTwice` | two scans of one such site | two instances of `SiteScan`, stepping independently |
| `DocumentSearch` | abstract: what a scan promises | `open` searches, what is `standing` for each type, the `report`; `Close` and `DrawUp`; refined by `ScanPhases` (`ImplementsSearch`) |
| `Admission` | the in-flight semaphore and its users | `Arrive`, the first select's `TryAcquire` and `FindFull`, the second's `SelectSlot`, `SelectEnd` and `JoinLine`, `GiveUp`, `Release`, `HangUp`, `Tick`, `ComeBack` |
| `SlotPool` | abstract: what admission promises | refined by `Admission` (`ImplementsPool`) |
| `Handler` | one request against its budget | `stage` and a clock; one action per way a step can end |
| `AnchorScan` | `scanAnchors` beside `anchorRE`, the expression that defines it | where the next search begins, the anchors found; one action per way an iteration of the outer loop ends. The reference is `Match`, the expression's match at a place (alternatives in order, with backtracking), and `FoundInTurn`, leftmost match first |
| `VisibleText` | `visibleText` | position, output, `lastSpace`; one action per branch of the loop. `StateAt` is the reference: a reader of one token at a time |
| `Letters` | `strings.ToLower` and case folding | tables, external |
| `Prefilter` | `requiredLiterals`, `newFastRE`, `Match` beside the expression itself | an expression (a syntax tree) and a text; `Ask`. `requiredLiterals` is the choice of literals; the reference is `Matches`, by the pairs of places between which each node matches |
| `PathMatcher` | `newPathMatcher`, `match` beside `pathRE` and `pathREContains` | a matcher, a path, the place where the next segment begins; `FoundSegment`, `NextSegment`, `AskRegexps`. The reference is `RegexpsMatch` |
| `LinkDiscovery` | `linkScan` and all it decides with | the page, the next anchor, the hit of each type; `Skip`, `Found`, `Again` |
| `Checksums` | one operator per check-digit algorithm | operators over sequences of digits and letters; the code's loops are loops here (`Accumulate`, a recursive function over the digits) |
| `NumberKinds` | the labels a number can stand behind, and what each proves | operators only |
| `Identifiers` | `validateIdentifier`, `validateVAT`, `cleanIdentifierValue` | a number on its way from the authority to the page: issued, copied with or without an error (`Slip`, `Swap`), read (`Read`) |
| `ImprintText` | the candidates of a page and the numbers that go to each | operators only |
| `ImprintChoice` | merging, the winner, what fills its gaps | operators only |
| `Imprint` | `extractImprintFields` | `pc` is the stage to come, `im` the `Imprint` under construction; one action per stage: `Extract`, `Copy`, `PageNumbers`, `NameCountry`, `SettleDEAT`, `Refine`, `Fill`, `scoreImprint`, or `NoBody` |
| `EntityAddress` | `extractAddressNearEntity` | the lines, the mention being read, how far below it, the parts so far; `NextMention`, `ReadLine`, `EndOfMention` |
| `NameOnLine` | `extractEntityAround`, the strippers it calls, `cleanCandidateName` | a line and the candidate cut from it; one action per call, then `Accept`, `AcceptAfterForm` or `Refuse` |
| `CompanyName` | `normalizeLegalName` | a name as it was cut and what is left of it; one action per pass |
| `MCReaders` | the readers of a page and of a path side by side | the variable `reader` says which of `AnchorScan`, `VisibleText`, `LinkDiscovery`, `Prefilter` and `PathMatcher` reads |
| `MCImprintPage` | the parts of an imprint page, each on input of its own | the variable `reader` says which of `Imprint`, `Identifiers`, `EntityAddress`, `NameOnLine` and `CompanyName` reads |
| `MCScan`, `MCHistory`, `MCSiteScan`, `MCTwice`, `MCLinkDiscovery`, `MCLetters`, `MCPrefilter`, `MCIdentifiers`, `MCImprint` | small instances for TLC | constants, symmetry |
| `AdmissionProofs`, `ScanProofs`, `HandlerProofs`, `ReadersProofs`, `ImprintProofs`, `NameOnLineProofs`, `CompanyProofs`, `IdentifierProofs` | the proofs | |

`ScanPhases` EXTENDS `Report`, which EXTENDS `Verification`, which EXTENDS
`DocTypes`. `Handler` treats the phases as one step that lasts at most a phase's
deadline; `ScanPhases` is what happens inside that step. `AnchorScan` says what
the anchors of a page are, `LinkDiscovery` which of them become link hits, and
`ScanPhases` starts from any assignment of link hits to types. `Imprint` EXTENDS
`ImprintChoice`, which EXTENDS `ImprintText`; with `Identifiers`, which EXTENDS
`Checksums`, it shares `NumberKinds`. `NameOnLine` finds a name, `CompanyName` cleans
it, `Imprint` weighs it, and `EntityAddress` looks below it for an address. `Imprint` takes the verdict on each number
from a table (`CheckOf`); that the verdicts are right is what `Identifiers` is
about.

How the state of `ScanPhases` corresponds to the code: `probePc[i]` is where the
goroutine of the i-th entry of `probeList` is — `queued` (the launcher has not
reached it), `blocked` (the launcher waits in `g.Go`), `started` (running, before
its recheck), `fetching`, `echo` (in `isTemplateEcho`), and the final states
`skipped`, `lost`, `rejected`, `accepted`, or `unplanned` when the entry is not
in the list of this scan. `probedHits[t]` holds the rank of the stored
hit. `ctrl` is the `sync.Once` of the control page. `expired` holds the phases
whose context has ended; the end of the request's own context is both.

Definitions named `X_Fault` are variants of `X` with a plausible bug; no
specification uses them. They exist to show that each property can fail: with
the variant in place of the original, TLC finds the property violated.

### Modelling choices

- A page is a *view*: what the classifier asks of a body (which types its title
  names, whether it carries legal vocabulary, its fingerprint, ...), not its
  text. Two views differ only where some decision can tell them apart.
- A fetch may fail at any time, so a fetch begun before a deadline may fail
  because of it; that it may also still succeed after the deadline is a
  superset of what the context allows.
- The launcher's three reads (hit, flag, context) are one step, and so are the
  two of the recheck: each thing read only ever becomes true, so a check that
  passes counts as made at its first read and one that fails at its last.
- The site's base URL parses, so `joinBaseAndPath` never yields the empty string.
- The status of a probe hit is 200, standing for any 2xx or 3xx.
- The control page goes through `probeVerify` without `noteStatus`: a 429 it
  gets is not noted, and it may be fetched after the target has throttled.
- The memo of analyses (`scanState.view`) is not modelled: two workers may
  analyse one body twice, with equal results.
- A Go channel serves blocked senders in order and moves the first one's value
  into the buffer in the same step as the receive; `Admission` relies on it
  (`FirstInLine`). The second select of `acquireSlot` is an action per case that
  may be ready on entry, a free slot or the request's own end, and either may be
  taken when both are; only with neither does the request join the line.
- In `Handler`, time is counted in ticks of 100 ms and a wait lasts one of a few
  `Durations` or exactly until its deadline. `verdict` "sparse" stands for any
  verdict but "none". Code between waits takes no time.
- A page of `AnchorScan` or `VisibleText` is a sequence of tokens, each standing
  for bytes that the code treats alike; `cleanHref` and the decoding of entities
  come after the scan and are left out. The token `<svg` stands for every
  invisible element that can be nested, `<script` for those that cannot.
- The path and text patterns of `LinkDiscovery` are tables from paths and texts
  to the types whose patterns match; the order of the pattern table is kept,
  because the first match counts. Registrable domains are a table too.
- A number of `Identifiers` is the sequence of its characters after the code has
  dropped punctuation; 0 to 9 are digits, 10 to 35 letters. Labels outside ASCII
  are transcribed (`CorporateNumber`, `Adoszam`). An issued number is one the
  patterns capture, as far as the algorithms do not ask the same again
  (`IsMatched`): a VAT number has its prefix, an Italian one eleven digits behind
  it, a Swiss one CHE and nine digits, the other national numbers are digits. What
  is behind any other prefix may be anything, and longer or shorter than the
  patterns allow.
- A page of `Imprint` is a sequence of lines, each with the name, legal form,
  address shape and numbers the patterns find on it, beside what the markup
  declares and what the whole page says (court, script, phone, domain). The
  limits are smaller than the code's, so that pages can exceed them: `MaxHits`
  numbers, `MaxNames` companies, `MaxFooters` copyright lines. A line says at which
  byte of the page the name's line starts (`start`) and each number begins (`at`),
  and a number's distance from a name is counted between the two, as in the code;
  the lines of the run are three bytes long, or six with a second number at the
  end, and `Near` stands for 800 bytes. For a name above a bare form and for the
  operator's row, `start` is where the name itself begins. `FormIn` says what `detectSuffix` finds in a cleaned name
  and which forms' letters occur in it. A name is a model value and `LegalName` what normalisation
  makes of it; two names are equal when the code's comparison, which ignores
  case, says so.
- The code's slices of candidates and of numbers are sets in `ImprintText` and
  `ImprintChoice`; each element carries the place it has in its slice, and
  `Before` compares places. What the code does to the first or the last element
  that passes a test is done to the element with no other before or behind it.
- An expression of `Prefilter` is a syntax tree over literals, classes,
  repetitions, concatenations and alternatives, as `regexp/syntax` gives it,
  written as the sequence of its nodes, each behind its branches: the order in
  which the recursion of `requiredLiterals` leaves them. What it returns for a
  node is then a function of the node's place, and the definitions need no
  recursive operator, for which nothing can be proved; anchors and word boundaries match the empty string and need no literal, like
  the empty expression. Lower case and folding are tables over a dozen letters
  with every kind of trouble outside ASCII.
- In a path the name of a page extension is one character, `ext`; a token is one
  of a few characters.
- A line of `EntityAddress` carries the marks that its labels and digits give it,
  several at once, because the code looks for labels anywhere in a line. Two
  parts of an address stand for the code's `MaxParts`, three lines for its reach.
- A string of `NameOnLine` and `CompanyName` is a sequence of words and signs. A
  word stands for all of its table, and a sequence of words for a table whose
  order matters; spaces follow from the signs. `Window` words stand for 80 bytes,
  and no word is cut in two. A legal form is told by its letters where the code
  asks for letters: `Inside` and `Ending` say of a plain word in which forms' letters
  it bears and ends, and `Uneven` names the words whose lower case has another
  length, beside which the code skips the passes that compare in lower case. In
  `NameOnLine` a bullet bounds what is read to the left of a form and not what is
  read behind one, and a free-standing dash counts as the hyphen before "und" as
  the end of a word does. Domain names, cookie names, HTML entities, slashes
  and control characters in a candidate are left out, and so is a full stop
  inside a name.
- `meshresult` and the fetch client are external; they appear only as the
  outcomes their callers distinguish.

## 3. Runs

States are the distinct states TLC finds.

| Run | Question | Bounds, and why they are enough |
|---|---|---|
| `ScanProbes` | Do the probe workers agree on hits, counters, catch-alls and figures in every interleaving? | four paths for two types, the cap admits three, two workers; seven kinds of page (titled, wildcard, homepage copy, soft 404, thin, two template echoes) and the statuses 404 and 429. Two paths of one type race for its hit, a third probe shares a page with another type, and a worker is left to wait for a slot. 134 k states |
| `ScanLinks` | Do links, dead links, refusals and probes add up to a consistent response, and is the scan the search it is meant to be? | every assignment of two kinds of link to four types (hub and disclaimer included), two probes; titled, thin, homepage and challenge pages, 403, 404 and 429. 955 k states |
| `ScanTermination` | Does every scan end? | two probes over two workers and up to three links over one, so that workers queue for slots and for the control page. 6 k states |
| `TypesOfSites` | Does the order of the workers change which types are found? | 750 sites: three paths for two types, each gone, titled, with legal vocabulary, with no more than a word of its type, or with a page other paths answer too; two control pages; each type linked or not, to a page that is gone, refused or thin. 2.82 M states |
| `Admission` | Do slots leak, does anybody pass the line, wait in vain, or stay unanswered? | three requests, one slot, two ticks: two in line behind a scan, the smallest case with an order in the line. A release between the two looks of a request whose client is gone is among the cases. The theorems of section 4 cover the rest. 191 k states |
| `HandlerAll` | Is every path inside the budget, and honest about failures? | the production constants; waits of 0.1 s, 2.9 s, 9.9 s or up to the deadline, on both sides of the retry window and the reserve. |
| `Readers` | Do the scanners see in a page what their definitions say, and which link is reported for a type; do the fast forms of expressions turn anything away? | the anchor scanner: every sequence of up to four of eleven pieces of markup behind `<a `, closed and unclosed quotes, a word glued to the tag and a whole anchor among them; the visible text: every sequence of up to four of twelve pieces, with raw and nestable elements, comments and a tag that never ends, without a bound and with a bound of two; the links: three anchors in each of three layouts with every competition of six rivals, and all pairs of ninety-six anchors, with six hosts around two suffixes; the prefilter: every expression of up to two operators over letters of each kind against texts of up to three; the path matcher: paths of up to five characters against tokens of both sorts. 884 k states |
| `ImprintPage` | Whose name, address, numbers and country does the imprint report, and are they read right? | the fields: every text of three of eighteen lines beside four kinds of markup, and off the usual addresses; nine texts beside every mix of domain, court, script and phone; every text of two lines in which a credit names the company. Three lines are enough for a number between two names, behind one it does not belong to, or at the end of a line so long that the name below begins nearer. The numbers: thirty-six schemes; of each, the numbers whose digits before the control form an arithmetic progression modulo eleven (a hundred, in which every remainder of the moduli up to 23 occurs, and most of those of 37, 89 and 97), every slip of one character and every swap of two. Addresses: every page of up to five of ten lines, two mentions with a line between and one below each. Lines: seven companies (a compound, a form inside a word, a form that comes first among them) behind any two of twenty-three words and behind every ordered series of six introductions, some longer than the window, and before four endings. Names: nine names (a word that bears the form's letters, one whose lower case has another length among them) behind any two of sixteen words and behind every ordered wrapping, before nine tails, one of them with a form's letters in another word. 2.50 M states |

Four runs end in a violation on purpose. Each states what a comment says and
shows that the code does something else:

- `SameDocuments` — the result does depend on which parallel probe answered
  first (`handler.go:98`): rank breaks ties among hits, but a later, more
  confident path is not tried at all once an earlier one is stored, even one
  the wrap-up drops again as weak: the same site gets the verdict "sparse" or
  "none". `TypesAreTheSites` shows where the types, at least, are the site's.
- `OffsiteDocumentsAreTheTargets` — `offsite_redirect` survives a JS second look
  that went back to the queried site (`handler.go:139`).
- `StructuredDataIsTrusted` — an h-card's company loses its name when the text
  names it once more (`imprint.go:403`): merging takes over the better ranked
  source `imprint_text` (`imprint.go:357`), and that source is asked for an
  address or a number. `MentionIsNoIdentity` shows what the check is there for.
- `AcceptedLanguageUnchanged` — the prefilter does change what an expression
  accepts (`fastre.go:66`): a literal under `(?i)` is compared in lower case, and
  the final sigma is not the lower case of the sigma it folds with. The Greek
  literals of `patterns.go:131`, `352` and `verify.go:84` contain such letters.
  `FilterLosesNothing` shows what remains true: nothing is lost among letters
  whose folding is their lower case.

Also met, without a run:

- The scanner and `anchorRE` differ when a quoted value closes only behind its
  tag, as in `<a href=">"</a>`: the expression backtracks to the unquoted
  alternative and finds an anchor, the scanner finds none (`discover.go:180`,
  `194`). `ScannerIsExpression` shows what remains true.
- The path matcher lowers a path before it looks up its segments and the
  expressions fold case, so that a path with a long s or a dotted capital I gets
  another answer (`patterns_path.go:26-31`); `SetIsEquivalent` is about all other
  letters.
- A page is fetched twice at most, while the comment on the retry speaks of up to
  two extra times (`handler.go:675-684`).
- Words that mark the next field of an imprint ("vat", "uid", "nip") are sought
  anywhere in a line: a street name that contains one ends the address or is
  passed over (`imprint_name.go:405`).
- A form is sought in a line by its letters, though it was recognised as a word
  (`imprint_name.go:699`): in "AGB der Acme AG" the form is found in "AGB", nothing
  precedes it, and the name read is "AG B der Acme AG". `NameOnItsLine` is about
  lines in which the form's letters do not occur before it.
- A role with a dash before a leading form ("Seller - Ltd Acme") is itself a
  candidate that passes, so that the road for leading forms, which a comment
  promises for it (`imprint_name.go:770-775`), is not reached.
- Only the last "und" of a line is tried (`imprint_name.go:1266-1276`): of
  "Shop und Musik- und Acme GmbH" the whole is taken for one company, because the
  last one belongs to a compound; and three conjunctions of three languages leave
  one behind. A free-standing dash counts as the end of a compound too (`1270`),
  while the comment above it speaks of a word that ends in a hyphen: "Acme Shop - und
  Beta GmbH" is taken for one company. `NoneJoined` says what remains true: no
  "and", and an "und" only behind a hyphen or a dash.
- Behind a leading form a name is read past a bullet, which ends every other
  name (`imprint_name.go:813`, `726`).
- A number is given to the name whose line starts nearest to it in bytes
  (`imprint_jsonld.go:697`, `735-753`). At the end of its owner's long line it goes
  to the name below; if that is a service provider's or a credited one, the
  candidate is dropped and the number is lost with it. `NumbersReachTheEntity` and
  `NumbersStayWithTheirOwner` are about the names a number stands with in that
  sense (`Beside`), and an owner in a reader's sense may differ.
- A form is told by its letters when a name is cleaned, not as a word: "Acme AG - AGB"
  keeps its tagline, because the last "AG" is in "AGB" (`imprint_normalize.go:286`), and
  "AGB (Acme AG" is cut to "AGB" and accepted, because that still contains "AG"
  (`216`). A dash behind the last of the form's letters inside a name cuts
  the name there. `IsName`, `OneTail` and `NameUnharmed` leave out such neighbours.
- A letter whose lower case has another length, as a dotted capital I has, leaves
  page labels, phrases and prose on a name (`imprint_normalize.go:170`, `181`);
  `Comparable` excepts such names where one of these stands beside them.
- A second company joined by a conjunction hides the label behind it, as in
  "Shop and Shop und Section 3: Acme GmbH": the label's pass is over when the
  second conjunction goes.
- A name that begins with a word of the boilerplate or function-word tables loses
  it (`imprint_normalize.go:25-60`).
- The same merge takes a copyright line's or a site name's exemption from
  corroboration away (`imprint.go:406`).
- A corporate or invoice number found anywhere on a Japanese page sets the
  country without counting as decisive (`imprint.go:713`, `723`), so that
  `refineCountry` may still overrule it, unlike the same number attached to the
  winner (`imprint_country_signals.go:163`).
- Whether a company is credited ("Webdesign by ...") is decided at the first
  occurrence of its name, for all its candidates from the text
  (`imprint_normalize.go:352`). An operator that is first named in a credit loses
  its numbers in the text; if its markup names it without a VAT number, the
  entity takes over that of another company on the page.
  `NumbersStayWithTheirOwner` is about winners that no credit names.
- The country can become `EL`, which is the VAT prefix of Greece and not its
  ISO code (`imprint.go:67`).
- A VAT number without a prefix and without a verdict, such as a `vatID` of
  JSON-LD, is judged under the winner's country (`imprint.go:736`), which may be
  a guess from the legal form and make it invalid; the rule that a guess must
  never do so (`imprint.go:785`) is kept by the second judgement only.
- A bot challenge answered to a probe does not set `rate_limited`
  (`handler.go:132`); `LimitIsReal` shows the converse holds.
- 400 answers carry the status "ok" (`README.md:66`).
- A dead origin can cost more than 10 s, or 12 (`handler.go:43`); `WithinBudget`
  shows what bounds it.
- Nested elements of one invisible name leak the content behind the first close
  tag (`fastre.go:196`), and behind a self-closing one (`<svg/>`) everything is
  dropped up to the next close tag of that name or the end of the page
  (`fastre.go:190`, `282`); `WordsAreSeen` is about all other pages (`Regular`).
- `visibleText` decodes entities after its bound has been applied, and some
  entities decode to more bytes than they are written with (`fastre.go:198`).
- A path that names two types hides that text and path agree on the second
  (`patterns_classify.go:23`): `/terms/privacy` with the text "Privacy Policy" is
  terms of service with a low floor.
- The comment on `Status` (`handler.go:146`) says all four statuses are returned
  at HTTP 200, while the write helpers below it follow the fleet contract (404,
  502, 503, 504).
- The README's account of the verdict `comprehensive` asks for a third document
  beside terms and privacy, which `verdictOf` does not.

### Fairness

- `ScanPhases`: weak fairness of each probe's own steps, of the control page, of
  each link's own steps and of the wrap-up. Goroutines that can run do, and
  every fetch returns because its context has a deadline and the client a
  timeout. Deadlines themselves need not pass.
- `Admission`: weak fairness of each request's own progress (a scan ends because
  of its budget) and of time. Arrivals and hang-ups are not forced.
- `Handler`: none of the checked properties needs its fairness; `WF(Next)` says
  only that the code does not stop short, so that a counterexample is a run the
  program can finish.

## 4. Proofs

The theorems hold for every value of the constants that satisfies the named
assumptions of the modules (`TypesAssumption`, `AnswersAssumption`,
`PlanAssumption`, `SitesAssumption`, `AdmissionAssumption`, `TimesAssumption`, `LinkAssumption`,
`PagesAssumption`, `AnchorTextsAssumption`, `TextsAssumption`, `PathsAssumption`,
`RegexpsAssumption`, `AddressAssumption`, `NamesAssumption`, `LimitsAssumption`,
`LegalNameAssumption`): any number of types, pages, paths, workers, requests and
slots, any deadlines and pauses, any pattern table, tokens, expressions, hosts,
homepages and texts.
`LinkAssumption` says that the table lists its own types, that the site root
names none, and that no text names none; the `PagesAssumption` of each of two modules, what shape a page
has to the link scan and to the imprint (there, that a line which names something
names it, and that each number of a line has a place); `AnchorTextsAssumption` and `TextsAssumption`, that a page is a
sequence of the model's tokens and a bound is a number. `PathsAssumption` says
that a token of a path pattern has a letter at least, as each one in
`patterns_path.go` has, and that lowering neither makes nor takes away a slash, a
dot or the name of an extension; nothing is assumed of how other letters are
lowered or fold. `AddressAssumption` says that an address may have one line at
least; `NamesAssumption`, that what was cut consists of the model's words and
signs, that a plain word is in no table, that letters a word ends in are letters in
it, and that a label's words are counted by a number, whichever words bear which
forms and whichever change their length; `LinesAssumption`, that a line consists of the model's words and signs and
has a form, that the words added are in no table, and that the two limits are
numbers; `LimitsAssumption`, that the limits of the imprint are numbers, and
`LegalNameAssumption`, that no name becomes none.

**Admission** (`AdmissionProofs`). `SlotsMatchScans` is not inductive on its
own: a release either frees its slot or hands it to the first in line, and a
hand-over keeps the count right only if the one served was not scanning already
and the line formed while the pool was full. `IInv` joins the types, the count,
`LineOnlyWhenFull` and the cause of each refusal, and is inductive. From it
follow `AdmissionTyped`, `SlotsAreExact`, `LineFormsOnlyWhenFull`,
`RefusalsHaveCause` and the refinement
`AdmissionImplementsPool`, one step per action: `GiveUp` and `SelectEnd` map to
`Refuse`, which may turn a newcomer away beside a free slot but one of the line
only while the pool is full, and `TryAcquire` and `SelectSlot` to `Take`, which
asks that nobody be in line. Both guards are `LineOnlyWhenFull`: it is what keeps
a newcomer from passing the line, though the two selects do not look at it.

**Scan** (`ScanProofs`). `KeptIsBest` compares an accepted
probe with the stored one, so storing must know that the stored rank is itself
accepted and of the right type (`HitsAccepted`), and that pages of accepted
probes do not change. `HitsInv` joins it with two facts needed later: a page
that reached the control comparison has left its fingerprint for its type
(`PagesNoted`), and whoever was passed over has a reason that stays true
(`SkipExplained`). `ResultInv` adds the control page (someone waits for it), the
two worker limits, the counters, the origin of link results, and that the
response is a function of the final state. `ScanInvariance` proves all of it;
the rest are consequences:

- `NobodyOutlivesTheScan`, `FetchesAreBounded`, `ProbesAreCounted`,
  `SilenceIsExplained`, `DeadLinksStayDead`.
- `ThrottlingStopsSpeculation` counts the probes that come in under the flag.
  `ThrottledInv` says of a raised flag that those counted and those still in
  flight are together no more than the workers: nobody joins the second, because
  a worker that starts or waits looks at the flag again.
- `WildcardPagesAreNoDocuments`: whatever page answered a probe is in the table
  under its type, for the rest of the scan (`MetInv`), whether the probe was
  accepted or not. A page that a second type met, even after it was stored for
  the first, has two entries at the end, and the catch-all pass removes it.

**Search** (`ScanProofs`). `ScanImplementsSearch`: every behaviour of
`ScanPhases` is one of `DocumentSearch`, under the mapping in `ScanProperties`
(`OpenSearches`, `Standing`). `ScanInv` is needed together with `VerifiedInv`,
that a link which ended alive has one of the three confidences and is either
unseen or answered with success (`LinksVerified`). A step in which
a probe or a link ends maps to `Close`: `HitsAccepted` makes what it leaves
standing no worse than what stood there. Any other step of the phases maps to a
stutter, and `WrapUp` to `DrawUp`: the filters only remove, so whatever is
reported stood before.

**Report** (`ScanProofs`). The response is a function of the final state
(`ResultInv`), so `ProbeFiguresAgree` and `ResponseAgreesWithItself` are facts
about that state. The cap is one about the plan: the number of candidates before
a planned one is below `MaxProbes` and no two planned ones share it, which makes
it an injection (`PlanIsCapped`). The rejected, the catch-all and the reported
probes are three disjoint parts of those made (`ThreeParts`), because a reported
type has one rank and that rank was accepted. No document has another confidence
than the three that are tallied, which is where `VerifiedInv` is needed again.
`LimitsAreReal` and `UnseenLinksSurvive` are about `ScanHistory`, whose history
variables only watch: `HistoryWatches` shows that each of its steps is one of
`ScanPhases` or a stutter, so every invariant above holds of it. `UnseenInv` says
that the verification of an unseen link is over and kept what the homepage says
of it; `LiveLinkSurvives`, that no filter of the wrap-up but the lone
disclaimer's takes a live link that is not weak away.

**Unchanging site** (`ScanProofs`). `SiteInv` says that everything the
scan holds is what the site answered: the control page, the pages of probes and
the table of fingerprints, and that a probe was accepted, rejected or lost as
its page deserves. When the phases are over, a planned path with an acceptable
page was either accepted or passed over for a hit of its type, there being no
flag and no deadline to blame (`HitsAtSite`); if such pages last, the catch-all
pass and the filters take none of them back (`LastingHits`).

**Link discovery** (`ReadersProofs`). `KeptInv`: the hit of a type is that
of the first eligible anchor, eligible being the footer links that name the type
if there are any, else all that do. Looking at one more anchor adds it at the
end; it becomes the first eligible one only if nothing was, or if it is the
first footer link. `FirstFooterLinkIsKept` is that with `Min` for "the first".
For `OffsiteLinksAgree` the table is followed backwards: a specific type named
by a path without a text is one of the path's own (`PathNames`), one named at
the root is one of the text's own (`TextNames`), and a page function's URL is
one the page has for it (`FunctionURLs`).

**Paths** (`ReadersProofs`). A segment may hold a token at its beginning
(`ExactIsLookup`: what stands before its first dot is in the set, and an
extension or nothing behind it, exactly if the anchored expression matches at the
slash before) or anywhere (`ContainsIsSearch`), and the tokens a set cannot hold
are asked in the end. `AnswerInv`: no expression of the set matches at a segment
already passed, and an answer given is that of all the expressions. It is
inductive because the places the pass visits are the very places at which an
expression may begin: the segment behind a slash is the next one, and there is no
slash inside a segment. `MatcherIsTheExpressions` assumes nothing of the letters
but what the property itself does, that they fold as they are lowered.

**Anchors** (`ReadersProofs`). The scanner takes the first `href` of a tag
that has a value; the expression tries every `href`, every way to read its value,
and every ">" behind. `MatchIsFirstValue` shows that these choices come to the
same: if something closes the element behind the first `href`'s value, the
expression takes that value too, and the first ">" behind it. `PassedInv` says that the anchors found are the matches one after
another, and that no match begins between the last of them and the place where
the search goes on. A tag skipped for want of a value is no match (`PassTag`);
where the scanner stops, nothing behind closes an element (`ScanStops`,
`MatchClosesLater`). It stops too early only at a quoted value that runs past
the end of its tag with nothing behind it to close the element: there the
expression goes back and reads the value as an unquoted one. Hence
`NothingMissed` is about pages whose quoted values close inside their tag
(`EndBehindValue`). That gives `ScannerFindsTheAnchors`.

**Address** (`CompanyProofs`). `CollectedInv`: while lines below a mention
are read, no line so far repeats the name or starts another field (`Uncut`), the
parts are, in the order of the page, exactly what the mention states above the
line to be read, and no mention before states anything. Reading one more line
adds what it states (`LineCollected`); where reading ends, either the address is
full or the rest of the page states nothing for this mention (`EndIsReached`), so
a mention that gave nothing states nothing and the search may go on.
`AddressIsOneMentions` is what the invariant says of the end.

**Country** (`ImprintProofs`). `FixedInv`: a register number that fixes the
country fixes neither Germany nor Austria, because no kind of number is used by
one of them alone (`SingleCountries`), and a VAT prefix is the prefix of a VAT
number. So the pass that settles between the two by court, postcode or domain
leaves both alone, which its own conditions do not say for a register number;
the pass behind it asks the two flags. That is `FixedCountryIsKept`.

**Name and numbers** (`ImprintProofs`). Places are pairs or triples of numbers
compared part by part, so of some candidates one comes first and of some numbers
one (`LeastTriple`): every choice the code makes has something to choose
(`FirstIsIn`, `BestExists`, `NearestExists`, `FirstHitIsIn`). `Origin` says where
a candidate comes from, a declaration, a copyright line or a line of text, and
with which numbers; it is followed through extraction and normalisation
(`ExtractedIs`), merging (`MergedIs`: a merged candidate has what one of its
group has, and nothing if none has) and the filling of gaps (`BackfillIs`).
`ChoiceInv` keeps the candidates, the winner among them, and that the numbers the
winner has or takes over stay in the result; `NameInv` adds that the name has
more on the page than its mention.

- `NumbersAreNotLost`: "nearest" is told by the bytes between a number and the
  start of a name's line, of any lengths. A number within the limit goes to a
  nearest name (`NumberIsExtracted`), whose candidate is kept under its legal name or for its
  numbers only, is merged under that name (`NumberIsMerged`), and is the winner
  or one the winner can take from.
- `NumbersAreTheWinners`: the candidates of the winner's name come from lines
  that bear it, and each number of theirs stands with such a line
  (`NumbersOfTheGroup`); there is one merged candidate for each name
  (`OneForEachName`), and a gap is filled only where there is one.
- `MentionNeverWins`: a corroborated candidate has its address or its numbers
  from its line's neighbourhood (`CorroboratedIsAnchored`), and a merged one is
  corroborated only if one of its group is (`MergedIsAnchored`). Numbers taken
  over come after the choice and so corroborate nothing.

**Visible text** (`ReadersProofs`). The reference is a recursive function
over the page, so its equations come first: that it exists for every length
(`ReaderExists`) is shown by the least length for which it would not, and that
it stays in a tag, a comment or an element over a stretch of tokens (`Stretch`)
by the least position at which it would not. `SeenInv`: the pass stands where
the reader is outside of everything, and what it has written is what was to be
seen so far. It is inductive as it stands: each jump is a stretch over which
nothing is seen, and a jump that finds no end leaves a rest in which nothing
is. `SpaceInv` adds to `OneSpaceBetween` what `lastSpace` means and that a word
written last is the one just passed. They give `TextIsWhatIsSeen`;
`TextStaysWithinLimit` is inductive with the types.

**Prefilter** (`ReadersProofs`). `FilterIsSound` holds of every tree, every text
and every table of letters, and of every `MinAnchorBytes` and `PrefilterAbove`;
`RegexpsAssumption` asks of a tree only that branches come before their node and
that a node with one branch has one. The inductive invariant (`FilterInv`) is
short, as there is one step; the work is in what that step computes.
`LiteralsAreRequired`: where a node matches a text and literals were found for
it, one of them occurs in the lower-cased text (`Sound`), shown along the nodes.

- What is found for a node is a function of what was found for its branches, on
  both sides (`LiteralsStep`, `SpansStep`); that these functions exist comes from
  the least number of nodes for which they would not.
- A literal: the letters it matches are lowered as its own are, by the
  assumption of the property under `(?i)` and as the same letters otherwise
  (`LiteralIsSound`). That the code keeps no capitals of a case-sensitive
  literal is not needed for it.
- A concatenation or a repetition matches only where each link does
  (`ChainNeedsAll`), so the literals of the one branch chosen will do; that the
  loop over the scores ends with a branch that has literals, or none, is
  `BestHasLiterals`. The scores decide how good the literals are, never whether
  they are right, and the proof does not look at them.
- An alternation matches where some branch does, and all branches' literals are
  among those joined (`JoinedHasAll`).

**Request** (`HandlerProofs`). `BudgetKept`: every wait is cut off at what is
left of the budget. The pause before a second attempt is two steps in the model;
the code leaves it as soon as the budget ends, so `BudgetInv` adds that a pause
that runs out had more than its length left when it began. `FirstFailureStands`: `ErrorInv` adds that a
response has no status before it is an answer (otherwise a later homepage could
leave one behind), and that no error is kept before the first check, which is
what makes a request turned away for want of a slot no failure of the site.

**Numbers** (`IdentifierProofs`). `NumberInv`: the number issued is genuine and
has what its pattern asks (`IssuedIsGenuine`), what stands on the page is it or
has one error in it, a character misread for another of its sort or two digits
swapped (`OneErrorAtMost`), and the verdict is the one these characters get
(`VerdictIsOnThePage`). It is inductive as it stands; the work is in the
arithmetic, which has to be shown of numbers of any digits.

- A loop over the digits is a recursive function on `0..Len(s)`: that its values
  exist is shown by the least length at which they would not, and its value after
  one digit more is one more step (`LoopRuns`, `LoopGrows`). From that come the
  equations of sums (`TotalAdds`, `TotalGrows`), of remainders and of ISO 7064.
- A weighted sum changes by the weight times the difference of the digits
  (`WeightedChanges`), and two swapped digits by the difference of the weights
  times theirs (`SwapChanges`). That no such product is a multiple of the modulus
  is a fact about each row of weights (`RowTells11`, ...). Where a weighted sum
  modulo eleven shares a control among two remainders, only the control itself
  and what leaves the remainder to it is covered, and no more is proved than the
  property states.
- A loop that tells the digits and the values it has got apart never forgets a
  difference (`LoopTellsApart`); that covers the remainders of whole numbers, the
  ISO 7064 check and the numbers with two control digits, in which an error that
  lies across the body and its control is a case of its own (`TwoControlsTell`).
- One lemma per algorithm states what it notices (`PLNotices` to `IENotices`). An
  error in a number is then an error in the part that is checked: behind the
  prefix (`BehindPrefixWrong`), without an Austrian U, in the first nine digits of
  a Dutch or the first eleven of a Swedish number, among the digits that
  `extractDigits` finds (`DigitsBehindLetters`), or at another place of an old
  Irish number (`IEOldBodyWrong`). `ErrorsNeverPass` joins them per country
  (`CountryNotices`) and per label (`NationalSlipNoticed`).
- `AbstentionsAreHonest` goes through the three schemes that withhold a verdict
  and shows of each that no control character in the place of the one written
  earns a good one.
- `OneVerdictPerNumber`: the algorithm behind a label is the algorithm behind the
  country's prefix (`DomesticVerdicts`), the label proves that country alone
  (`LabelsProve`), and cleaning keeps the digits that are asked for.

Of the properties of the run `ImprintPage` these need no sample of numbers any
more; the run still shows that the numbers sampled reach every branch.

**A name on its line** (`NameOnLineProofs`). A pass only takes words off the left,
so the candidate between two passes is told by one number: the place at which it
begins in what is written up to the form (`upTo`, `Rest(upTo, lo)`). `CopyrightTo`,
`ConjunctionTo`, `RoleTo` and their like restate each pass as what it does to that
place, with every search for a word turned into a fact about the word at a place
(`FirstWordAt`, `JoinsAt`, `RoleAt`, `ContactTo`). `LineInv` then says of the place
before each pass, in four parts:

- `Passed`, of an ordered introduction: where the candidate begins among the seven
  parts (`Parts`: earlier text, signs, a joined name, a role, a trading name, an
  award, labels). It has to leave room: of two joined names the first pass over
  conjunctions may stop between the two, where every pass until the second one
  leaves it (`Pending`), and years or signs may be taken by either of two passes.
- `Whole`, of any line on which the form is itself: the candidate does not begin
  behind the name's beginning. Each pass ends where it began or behind a word that
  no name has (`cutWords`), or, at a conjunction, behind one that is no compound's.
- `Apart`: what the passes over conjunctions leave has no "and" between words, and
  the last "und" in it, if any, stands behind a hyphen or a dash, for which alone the
  code leaves it. Before the second pass only the first half holds.
- `Alone`: of dates and dashes before a form that comes first nothing remains, so
  that the candidate is empty, is refused, and the name is sought behind the form.

`PartsOfLine` to `IntroducedParts` go from the definition of an introduction to
the places of its parts, `CopyrightPass` to `LabelPass` have one case for each
part of the invariant, and `JudgedName`, `JudgedWhole`, `JudgedApart` and
`JudgedBehind` draw the conclusion when the candidate is judged.

**Passes over a name** (`CompanyProofs`). `NameSurvives` says two things of the
dozen passes of `normalizeLegalName`, of any plain words, any name and whatever
stands around it, and each needs an invariant of its own.

- *An orderly wrapping comes off* (`RecoverInv`). Before the name stand, in this
  order, what a front pass takes off, connectives, a copyright notice, articles
  and page labels, a phrase, and a label with a colon, any of them absent; behind
  it one tail at most. `Shape` names the five places at which these parts meet,
  once and for all in the string as it was cut. `Stage` says before each pass
  which stretch of that string is left: `SubSeq(w, lo, hi)`, where `lo` is the
  beginning of a part and `hi` its end or that of the name. It has to leave room:
  "words" may begin within the labels (the pass peels one at a time), a page label
  with the dash behind it may take the front of a label too, and the pass that
  cuts at a colon may leave signs (`again`), which is why the code cuts the front
  twice. `StageStep` has one case per pass; `PartsStart` and its like say which
  token a pass finds where it looks. In the end the string is the name.
- *No name is cut short* (`UnharmedInv`), in any disorder, if no word around the
  name has a legal form's letters: `Held` says that the name is in the string with
  all letters of a legal form inside it, or that no such letters are left. Each pass
  takes a piece off one end and so spares the name, removes it, or cuts it
  (`Spares`). A cut from the front ends in front of it or behind a word that no
  name has; one from the back takes the legal form along or, at a separator or
  bracket, begins behind it. `Judge` accepts no string that lost its form.

The tables of words are short ones, with each word standing for all of its table;
the proof uses no more of them than that they are disjoint where the code's are,
and the order of the passes.

**Model-checked only.** Liveness (`ScanAnswers`, `EveryoneAnswered`), which is
outside the prover's reach, as is ENABLED.

## 5. Not modelled

Text: the regular expressions themselves, decoding, URL and host arithmetic; in
the imprint, the patterns that find names without a legal form, numbers, courts,
phones and scripts, and the test whether a provider's name is that of the site's
own host. The order of the arrays in the response. `ResolvedIP`, a best-effort
look-up taken only if it is ready. The fleet fetch cache. The HTTP server and
the self-test.

## 6. Plan

1. The remaining decisions over text: homepage blocks, service providers and
   their own hosts, names introduced by a label instead of a legal form.
2. One composition of `NameOnLine`, `CompanyName` and `EntityAddress` on one
   page, in place of `Imprint`'s table of names.
