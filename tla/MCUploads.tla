----------------------------- MODULE MCUploads -----------------------------
(* TLC instance of Uploads: part and archive limits scaled down to units.   *)
EXTENDS Uploads

Member(size) == [dir |-> FALSE, safe |-> TRUE, size |-> size]
Directory == [dir |-> TRUE, safe |-> TRUE, size |-> 0]
Unsafe(size) == [dir |-> FALSE, safe |-> FALSE, size |-> size]

Archive(size, members) ==
    [zip |-> TRUE, size |-> size, readable |-> TRUE, members |-> members]

\* One of each kind: accepted, and rejected for each reason.
MCFiles ==
    {Plain(0), Plain(4), Plain(5),
     Archive(1, <<Member(1), Directory, Member(3)>>),
     Archive(1, <<Member(2)>>),
     Archive(1, <<Directory>>),
     Archive(1, <<Member(1), Unsafe(1)>>),
     Archive(1, <<Member(1), Member(1), Member(1)>>),
     Archive(2, <<Member(3), Member(2)>>),
     [Archive(1, <<Member(1)>>) EXCEPT !.readable = FALSE]}
=============================================================================
