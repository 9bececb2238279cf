------------------------------ MODULE MCServer ------------------------------
(* Small instances of Server for TLC.                                       *)
EXTENDS Server

TwoTypes == {MULTIMEDIA, "net"}
OneCodec == {"mp3"}

Full == [input |-> {MULTIMEDIA}, output |-> {MULTIMEDIA}, encInput |-> {MULTIMEDIA},
         encOutput |-> {MULTIMEDIA}, decoder |-> OneCodec, capture |-> TRUE]

(* An input for "net" without an output, and an encoder output without its   *)
(* input; no output at all; and an output for each input.                   *)
Bare == [Full EXCEPT !.input = TwoTypes, !.encInput = {}, !.decoder = {}, !.capture = FALSE]
NoOutput == [Full EXCEPT !.output = {}]
TwoOutputs == [Full EXCEPT !.input = TwoTypes, !.output = TwoTypes, !.encOutput = {},
                           !.decoder = {}]

AnyInstallation == {Full, Bare, NoOutput, TwoOutputs}
FullInstallation == {Full}
TwoOutputsInstallation == {TwoOutputs}
PalOnly == {"PAL"}
NoMode == {}
=============================================================================
