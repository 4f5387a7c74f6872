------------------------- MODULE MCSegmentPublisher -------------------------
(***************************************************************************)
(* SegmentPublisher on a small instance: one good file with a blank row, a *)
(* header and a repeated member, and files that must be refused.           *)
(***************************************************************************)
EXTENDS SegmentPublisher

CONSTANTS alice, bob

GoodFile == <<Header, Blank, alice, alice>>

MCFiles == {GoodFile, <<bob, Header>>, <<alice, Quoted>>, <<Blank>>,
            <<alice, bob>>, <<TooLong>>}
MCDrafts == {{bob}, {bob, TooLong}}
=============================================================================
