------------------------------ MODULE Palette ------------------------------
(***************************************************************************)
(* What the command palette makes of its sources (palette/items.ts): pure   *)
(* functions from a query and the candidates to the list on the screen, and *)
(* the selection of the list (components/CommandPalette.tsx).  A text is a   *)
(* sequence of letters, a letter a number.                                  *)
(***************************************************************************)
EXTENDS Naturals, Sequences, FiniteSets, SequencesExt, Services

CONSTANTS
  Letters,      \* 1..n, in the order of the alphabet
  MaxText,      \* bound: length of a query; a label may have one letter more
  MaxItems,     \* bound: candidates
  ResultLimit,  \* RESULT_LIMIT
  EmptyLimit    \* EMPTY_QUERY_LIMIT

ASSUME PaletteAssumption ==
  /\ Letters \subseteq Nat /\ {MaxText, MaxItems} \subseteq Nat
  /\ {ResultLimit, EmptyLimit} \subseteq Nat \ {0}

Groups == <<"command", "session", "workspace", "file", "timeline">>
Far    == 10000  \* what a scattered match has to add

VARIABLES
  typed,       \* the query
  candidates,  \* the items of the sources
  selected     \* CommandPalette.cursor: the index of the selected item, from 0

paletteItemVars == <<typed, candidates, selected>>

PaletteInit == typed = <<>> /\ candidates = <<>> /\ selected = 0

-----------------------------------------------------------------------------
(* scoreMatch *)
Letter(text, letter, from) == {p \in from..Len(text) : text[p] = letter}
Least(places)  == CHOOSE p \in places : \A q \in places : p <= q
Contained(text, query) ==
  {p \in 1..(Len(text) + 1) : p + Len(query) <= Len(text) + 1
                              /\ SubSeq(text, p, p + Len(query) - 1) = query}

(* subsequenceSpan, as a set that is empty if there is none: every letter at its first place after
   the one before; a letter that is not there is past the end. *)
SubsequenceSpan(text, query) ==
  LET After(at, letter) == Least(Letter(text, letter, at + 1) \cup {Len(text) + 1}) IN
  {last - Least(Letter(text, query[1], 1)) + 1 :
     last \in {FoldLeft(After, 0, query)} \cap (1..Len(text))}

(* The score of a text, as a set that is empty if it does not match. *)
ScoreMatch(text, query) ==
  IF query = <<>> THEN {0}
  ELSE IF Contained(text, query) # {} THEN {Least(Contained(text, query)) - 1}
  ELSE {Far + span : span \in SubsequenceSpan(text, query)}

(* A candidate with its score: of its label or else of its detail; a hit in a timeline has none. *)
Score(item, query) ==
  [item |-> item,
   score |-> IF item.group = "timeline" THEN {0}
             ELSE IF ScoreMatch(item.label, query) # {} THEN ScoreMatch(item.label, query)
             ELSE ScoreMatch(item.detail, query)]

-----------------------------------------------------------------------------
(* rankItems *)
GroupRank(group) == CHOOSE i \in DOMAIN Groups : Groups[i] = group
LabelBefore(a, b) ==
  \E k \in 1..Len(b) : /\ \A j \in 1..(k - 1) : j <= Len(a) /\ a[j] = b[j]
                       /\ k > Len(a) \/ a[k] < b[k]

Ahead(a, b) ==
  \/ Least(a.score) < Least(b.score)
  \/ a.score = b.score
     /\ \/ GroupRank(a.item.group) < GroupRank(b.item.group)
        \/ a.item.group = b.item.group /\ LabelBefore(a.item.label, b.item.label)

Scored(items, query) ==
  SelectSeq([i \in DOMAIN items |-> Score(items[i], query)], LAMBDA row : row.score # {})

(* The sort is stable; what is equal stays in the order of the sources. *)
Precedes(rows, i, j) == Ahead(rows[i], rows[j]) \/ (~Ahead(rows[j], rows[i]) /\ i <= j)
Sorted(rows) ==
  [n \in DOMAIN rows |-> rows[CHOOSE i \in DOMAIN rows :
                                Cardinality({j \in DOMAIN rows : Precedes(rows, j, i)}) = n]]

Limit(query) == IF query = <<>> THEN EmptyLimit ELSE ResultLimit
Smaller(m, n) == IF m < n THEN m ELSE n
TopOf(rows, n) == SubSeq(rows, 1, Smaller(Len(rows), n))

RankItems(items, query) == TopOf(Sorted(Scored(items, query)), Limit(query))

OnList == RankItems(candidates, typed)

-----------------------------------------------------------------------------
(* A new query selects the first item; another list for the same query leaves the index. *)
TypeQuery ==
  /\ \/ \E letter \in Letters : Len(typed) < MaxText /\ typed' = Append(typed, letter)
     \/ typed # <<>> /\ typed' = Front(typed)
  /\ selected' = 0
  /\ UNCHANGED candidates

TextsUpTo(n) == UNION {[1..k -> Letters] : k \in 1..n}

(* Bounds: a file has its path besides, and a hit in a timeline is not matched by its label. *)
LongestLabel(group) ==
  CASE group = "command" -> MaxText + 1 [] group = "file" -> MaxText [] group = "timeline" -> 1

SourcesChange ==
  /\ \/ /\ Len(candidates) < MaxItems
        /\ \E group \in {"command", "file", "timeline"} :
             \E label \in TextsUpTo(LongestLabel(group)) :
             \E detail \in IF group = "file" THEN {<<1>> \o label} ELSE {<<>>} :
               candidates' = Append(candidates, [group |-> group, label |-> label, detail |-> detail])
     \/ candidates # <<>> /\ candidates' = Front(candidates)
  /\ UNCHANGED <<typed, selected>>

(* The arrows go round. *)
Move(list) ==
  /\ list # <<>>
  /\ \E step \in {1, Len(list) - 1} : selected' = (selected + step) % Len(list)
Select == Move(OnList) /\ UNCHANGED <<typed, candidates>>

PaletteNext == TypeQuery \/ SourcesChange \/ Select

-----------------------------------------------------------------------------
(* Reference: the letters of the query are in the text, in their order. *)
Embeds(text, query) ==
  \E places \in [1..Len(query) -> 1..Len(text)] :
    /\ \A i \in 1..Len(query) : text[places[i]] = query[i]
    /\ \A i, j \in 1..Len(query) : i < j => places[i] < places[j]

Wanted(item) ==
  item.group = "timeline" \/ Embeds(item.label, typed) \/ Embeds(item.detail, typed)

(* items.ts 123-139, 167-173: an item is on the list when its letters are in its label or its
   detail, and nothing else is; a label that has the query in one piece is ahead of all that have
   it scattered; and what the limit cuts off is not ahead of anything that stays. *)
HasWhole(text) == Contained(text, typed) # {}
RanksTruly(list, fitting) ==
  /\ Len(list) = Smaller(Cardinality(fitting), Limit(typed))
  /\ \A n \in DOMAIN list : \E i \in fitting : list[n].item = candidates[i]
  /\ \A m, n \in DOMAIN list :
       m < n /\ HasWhole(list[n].item.label) =>
         list[m].item.group = "timeline" \/ HasWhole(list[m].item.label)
           \/ HasWhole(list[m].item.detail)
  /\ \A i \in fitting : (\A n \in DOMAIN list : list[n].item # candidates[i]) =>
       \A n \in DOMAIN list : ~Ahead(Score(candidates[i], typed), list[n])

ListRanks == RanksTruly(OnList, {i \in DOMAIN candidates : Wanted(candidates[i])})

(* items.ts 170-172: the hits of a search of the timelines stay in the order the daemon gave. *)
Hits(items) == SelectSeq(items, LAMBDA item : item.group = "timeline")
KeepsOrderOfHits ==
  LET listed == Hits([n \in DOMAIN OnList |-> OnList[n].item]) IN
  IsPrefix(listed, Hits(candidates))

(* CommandPalette.tsx 39-40: when the list changes the selection goes back to the top. *)
SelectionResets == [][OnList' # OnList => selected' = 0]_paletteItemVars
=============================================================================
