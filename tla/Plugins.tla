------------------------------ MODULE Plugins -------------------------------
(***************************************************************************)
(* The plugin wrappers of the media server: nms-plugin.c, input-plugin.c   *)
(* and output-plugin.c.                                                    *)
(*                                                                         *)
(* Plugins of one kind are in a list, and one pointer per kind, actv, says  *)
(* which of them the wrappers call: there is one for the whole server,     *)
(* whoever calls.  A plugin is known by what it is chosen for: its type, or *)
(* its codec.  The plugins' own state is external: who has them open.      *)
(* Nothing here takes a mutex; when the wrappers run is up to Server.      *)
(***************************************************************************)

CONSTANTS
  Types,           \* types of input, output and encoder plugins
  Codecs,          \* audio codecs a file may have
  Installations    \* what NMS_PLUGIN_DIR may hold

NULL == "NULL"
MULTIMEDIA == "multimedia"   \* NMS_PLUGIN_MULTIMEDIA
PICTURE == "picture"         \* NMS_VC_JPEG
NO_AUDIO == "no audio"       \* NMS_AC_NO_AUDIO

Lists == [input : SUBSET Types, output : SUBSET Types, encInput : SUBSET Types,
          encOutput : SUBSET Types, decoder : SUBSET Codecs, capture : BOOLEAN]

ASSUME InstallationsAssumption == Installations \subseteq Lists /\ MULTIMEDIA \in Types
ASSUME NamesAssumption ==
  NULL \notin Types \cup Codecs /\ {PICTURE, NO_AUDIO} \cap Codecs = {}

VARIABLES
  loaded,                        \* the lists of PluginLoad
  inActv, decActv, outActv,      \* actv of the lists
  encInActv, encOutActv,
  inOpen, decOpen, encOutOpen,   \* external: plugins that are initialised
  outUser, encInUser             \* external: who has initialised each of these

inVars  == <<inActv, decActv, inOpen, decOpen>>
outVars == <<outActv, outUser>>
encVars == <<encInActv, encOutActv, encOutOpen, encInUser>>
pluginVars == <<loaded, inVars, outVars, encVars>>

-----------------------------------------------------------------------------
(* nms-plugin.c                                                             *)

NothingOpen ==
  /\ inActv = NULL /\ decActv = NULL /\ outActv = NULL
  /\ encInActv = NULL /\ encOutActv = NULL
  /\ inOpen = {} /\ decOpen = {} /\ encOutOpen = {}
  /\ outUser = [t \in Types |-> "nobody"] /\ encInUser = [t \in Types |-> "nobody"]

(* Each library is put in a list.  That the mandatory ones are missing is    *)
(* reported, and the report is not looked at.                               *)
PluginLoad == loaded \in Installations /\ NothingOpen

-----------------------------------------------------------------------------
(* input-plugin.c and the output, for playback                              *)

OutputSelect(type) == outActv' = IF type \in loaded.output THEN type ELSE outActv

(* A plugin takes the file, and the output goes by the plugin's type.  When *)
(* it says that there is no such output the input has been chosen already.  *)
InputIsOurFile(type) ==
  /\ type \in loaded.input
  /\ inActv' = type
  /\ OutputSelect(type)

(* Mutation: the decoder of the last file stays when the file has none.     *)
InputInitKeepsDecoder(codec) ==
  /\ inOpen' = inOpen \cup {inActv}
  /\ decActv' = IF codec \in loaded.decoder THEN codec ELSE decActv
  /\ decOpen' = decOpen \cup (loaded.decoder \cap {codec})
  /\ UNCHANGED inActv

(* Success.  A picture leaves the decoder as it was; sound nobody decodes   *)
(* goes to the output as it is.                                             *)
InputInit(codec) ==
  /\ inOpen' = inOpen \cup {inActv}
  /\ decActv' = IF codec = PICTURE THEN decActv
                ELSE IF codec \in loaded.decoder THEN codec ELSE NULL
  /\ decOpen' = decOpen \cup (loaded.decoder \cap {codec})
  /\ UNCHANGED inActv

(* The decoder fails, or the input itself, which is then forgotten.         *)
InputInitFails ==
  /\ \/ inOpen' = inOpen \cup {inActv} /\ decActv' = NULL /\ UNCHANGED inActv
     \/ inActv' = NULL /\ UNCHANGED <<inOpen, decActv>>
  /\ UNCHANGED decOpen

InputFinish ==
  /\ decOpen' = decOpen \ {decActv}
  /\ inOpen' = inOpen \ {inActv}
  /\ UNCHANGED <<inActv, decActv>>

(* External: "1 if output already locked by others".                        *)
OutputFree == outUser[outActv] = "nobody"

OutputInit(user) ==
  /\ OutputFree
  /\ outUser' = [outUser EXCEPT ![outActv] = user]
  /\ UNCHANGED outActv

OutputFinish ==
  /\ outUser' = [outUser EXCEPT ![outActv] = "nobody"]
  /\ UNCHANGED outActv

-----------------------------------------------------------------------------
(* The encoder plugins                                                      *)

EncInputSelect(type) ==
  encInActv' = IF type \in loaded.encInput THEN type ELSE encInActv

(* External: an encoder input that is in use refuses to be initialised.     *)
EncInputInit(user) ==
  /\ encInUser[encInActv] = "nobody"
  /\ encInUser' = [encInUser EXCEPT ![encInActv] = user]

EncInputFinish == encInUser' = [encInUser EXCEPT ![encInActv] = "nobody"]

(* An encoder output takes the format, and the input goes by its type.  When *)
(* it says that there is no such input the output has been chosen already.  *)
EncOutputIsOurFormat(type) ==
  /\ type \in loaded.encOutput
  /\ encOutActv' = type
  /\ EncInputSelect(type)

=============================================================================
