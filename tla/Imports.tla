------------------------------- MODULE Imports -------------------------------
(***************************************************************************)
(* What a scrape of the CLI sends: the requests it makes of a page.        *)
(***************************************************************************)
EXTENDS Naturals, Sequences, SequencesExt

\* _split_exposition_payload, of a list: a message that has a type and a
\* trace_id is an event.
IsEvent(item) == {"type", "trace_id"} \subseteq item.fields

\* The bodies of the items that satisfy Test.
Bodies(items, Test(_)) ==
    LET chosen == SelectSeq(items, Test)
    IN  [i \in DOMAIN chosen |-> chosen[i].body]

\* scrape posts the traces first, and nothing of an empty kind.
ScrapeRequests(items) ==
    SelectSeq(<<Bodies(items, LAMBDA i : ~IsEvent(i)), Bodies(items, IsEvent)>>,
              LAMBDA request : request # <<>>)

=============================================================================
