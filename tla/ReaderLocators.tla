--------------------------- MODULE ReaderLocators ---------------------------
(* Where a writer sends a sample (matchedReaderLocators and                 *)
(* readerLocator.matches, rtps/participant.go): the remote readers of the   *)
(* topic are visited in map order and merged into one entry per locator,    *)
(* each with the content filters of the readers behind it.  The readers,    *)
(* their partitions and filters are chosen at the start; the order is free. *)
EXTENDS Integers, FiniteSets

CONSTANTS Readers,    \* remote readers SEDP knows
          Locators,   \* data-unicast locators of remote participants
          Filters,    \* content filters
          NoFilter,   \* a reader without one
          NoLocator   \* a reader of another topic or partition, or with no usable locator

VARIABLES reader,    \* reader -> its locator and content filter
          passes,    \* the filters the sample satisfies
          left,      \* readers not visited yet
          entries    \* locator -> the entry built so far

fvars == <<reader, passes, left, entries>>

Reader == [loc : Locators, filter : Filters \cup {NoFilter}]
              \cup {[loc |-> NoLocator, filter |-> NoFilter]}

NoEntry == [present |-> FALSE, all |-> FALSE, filters |-> {}]

Init ==
    /\ reader \in [Readers -> Reader]
    /\ passes \in SUBSET Filters
    /\ left = Readers
    /\ entries = [l \in Locators |-> NoEntry]

\* The three "continue" tests before a reader counts.
Wanted(r) == reader[r].loc # NoLocator

\* (a bug for the checks: an unconditional entry becomes conditional again)
MergeRevives(e, f) == [present |-> TRUE, all |-> f = NoFilter,
                    filters |-> IF f = NoFilter THEN {} ELSE e.filters \cup {f}]

\* The OR-merge of one reader into the entry of its locator.  An entry whose
\* filter slice is nil is unconditional and stays so.
Merge(e, f) ==
    IF f = NoFilter THEN [present |-> TRUE, all |-> TRUE, filters |-> {}]
    ELSE IF e.present /\ e.all THEN e
    ELSE [present |-> TRUE, all |-> FALSE, filters |-> e.filters \cup {f}]

\* The loop of matchedReaderLocators visits one more reader.
matchedReaderLocators(r) ==
    /\ r \in left
    /\ left' = left \ {r}
    /\ entries' = IF Wanted(r)
                  THEN [entries EXCEPT ![reader[r].loc] = Merge(@, reader[r].filter)]
                  ELSE entries
    /\ UNCHANGED <<reader, passes>>

\* readerLocator.matches: no filters, or one of them holds.
matches(e) == e.present /\ (e.filters = {} \/ e.filters \cap passes # {})

Next == \E r \in Readers : matchedReaderLocators(r)

Spec == Init /\ [][Next]_fvars

-----------------------------------------------------------------------------
\* Entries carry filters only when they are conditional.
LocatorsTypeOK ==
    /\ reader \in [Readers -> Reader]
    /\ passes \subseteq Filters /\ left \subseteq Readers
    /\ \A l \in Locators : entries[l].filters \subseteq Filters

\* In every visiting order, the sample is sent to a locator exactly when some
\* matched reader behind it wants the sample: an unfiltered one, or one whose
\* content filter it satisfies.
SentIffWanted ==
    left = {} => \A l \in Locators :
        matches(entries[l]) <=> \E r \in Readers : /\ Wanted(r) /\ reader[r].loc = l
                                                   /\ reader[r].filter \in passes \cup {NoFilter}
=============================================================================
