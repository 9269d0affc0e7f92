------------------------------- MODULE MCCodec -------------------------------
(* Every angle of a knob, a panel of six by two pixels, texts of up to     *)
(* three of the characters that matter.                                    *)
EXTENDS Codec

MCAngles == 0 .. 549
MCNoises == -2 .. 2
MCChars == {"a", "2", " ", "%", "&", "=", "+"}
MCTexts == UNION {[1 .. n -> MCChars] : n \in 0 .. 3}
MCOthers == {<<>>, <<"%">>, <<"a", "&">>}
=============================================================================
