----------------------------- MODULE Documents ------------------------------
(***************************************************************************)
(* How a store crate turns the several keys of a source into one document   *)
(* (dynamic-config-store-core, documents.rs), on the trees of Trees.        *)
(*                                                                         *)
(* A key's text is a tree, or Garbage when it does not parse in the         *)
(* source's format; rendering a tree and parsing it again is the tree.      *)
(***************************************************************************)
EXTENDS Trees

CONSTANTS Texts,      \* what a key may hold: trees, and Garbage
          MostTexts   \* bound: keys of a source

VARIABLE texts        \* what the keys of a source hold, in their order

Garbage == [t \in {<<>>} |-> <<"garbage">>]
Failed == [t \in {<<>>} |-> <<"error">>]

ASSUME TextsAssumption ==
    /\ MostTexts \in Nat
    /\ \A t \in Texts : t = Garbage \/ IsTree(t, STRING)

\* Mutant: a prefix's keys are folded like a list's.
FoldedAnyway(documents, overlap) ==
    LET upTo[n \in 1..Len(documents)] ==
            IF n = 1 THEN documents[1]
            ELSE MergeTrees(upTo[n - 1], documents[n])
    IN  IF \E i \in 1..Len(documents) : documents[i] = Garbage
        THEN Failed ELSE upTo[Len(documents)]

\* folded: every text is parsed before any is merged; under Refused the
\* first key that meets what was folded before it fails the whole read.
Folded(documents, overlap) ==
    LET upTo[n \in 1..Len(documents)] ==
            IF n = 1 THEN documents[1]
            ELSE IF upTo[n - 1] = Failed THEN Failed
            ELSE IF /\ overlap = "Refused"
                    /\ OverlappingPaths(upTo[n - 1], documents[n]) # {}
            THEN Failed
            ELSE MergeTrees(upTo[n - 1], documents[n])
    IN  IF \E i \in 1..Len(documents) : documents[i] = Garbage
        THEN Failed
        ELSE upTo[Len(documents)]

\* merged: nothing is an error, one text passes through untouched (whether
\* or not it parses), several are folded.
Merged(documents, overlap) ==
    CASE Len(documents) = 0 -> Failed
      [] Len(documents) = 1 -> documents[1]
      [] OTHER -> Folded(documents, overlap)

\* collision: the key blamed together with key n is the last one before it
\* that has something at the first of the clashing paths.
Blamed(documents, n, path) ==
    LET holders == {i \in 1..(n - 1) :
                       \E p \in DOMAIN documents[i] :
                           p = path \/ Under(p, path)}
    IN  IF holders = {} THEN 0
        ELSE CHOOSE i \in holders : \A j \in holders : j <= i

\* agreed_format over the formats the keys' names end in ("none" for a name
\* without one): the first that is named, unless a later key names another.
AgreedFormat(formats) ==
    LET upTo[n \in 0..Len(formats)] ==
            IF n = 0 THEN "none"
            ELSE CASE formats[n] = "none" -> upTo[n - 1]
                   [] formats[n] # "none" /\ upTo[n - 1] = "none" ->
                         formats[n]
                   [] OTHER -> IF upTo[n - 1] = formats[n]
                               THEN formats[n] ELSE "disagree"
    IN  upTo[Len(formats)]

-----------------------------------------------------------------------------
DocumentsInit == texts \in UNION {[1..n -> Texts] : n \in 0..MostTexts}

\* What the keys hold is read once, and then put together.
DocumentsSpec == DocumentsInit /\ [][UNCHANGED texts]_texts

Orders(n) == {o \in [1..n -> 1..n] : \A i, j \in 1..n : o[i] = o[j] => i = j}

\* Under a prefix the order in which a store lists the keys decides nothing:
\* neither whether the document is refused nor what it is, nor the format
\* the names agree on.  In a list, every leaf is the one of the last key
\* that has something there.  And a refusal names two keys: an earlier
\* one has something at every path where the last one clashes.
OrderDecidesOnlyInLists ==
    LET n == Len(texts)
        result == Merged(texts, "LaterWins")
        before == SubSeq(texts, 1, n - 1)
    IN  /\ \A o \in Orders(n) :
              /\ Merged([i \in 1..n |-> texts[o[i]]], "Refused")
                   = Merged(texts, "Refused")
              /\ \A formats \in [1..n -> {"none", "json", "yaml"}] :
                    AgreedFormat([i \in 1..n |-> formats[o[i]]])
                      = AgreedFormat(formats)
        /\ (n > 1 /\ result # Failed) =>
              \A p \in DOMAIN result :
                  \E i \in 1..n :
                      /\ p \in DOMAIN texts[i] /\ texts[i][p] = result[p]
                      /\ \A j \in (i + 1)..n : \A q \in DOMAIN texts[j] :
                            Touch(p, q) => MeetInTables(texts[i], p,
                                                        texts[j], q)
        /\ (/\ n > 1 /\ Merged(before, "Refused") # Failed
            /\ \A i \in 1..n : texts[i] # Garbage) =>
              \A path \in OverlappingPaths(Merged(before, "Refused"),
                                          texts[n]) :
                  Blamed(texts, n, path) # 0
=============================================================================
