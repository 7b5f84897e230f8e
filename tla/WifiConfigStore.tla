--------------------------- MODULE WifiConfigStore ---------------------------
(***************************************************************************)
(* src/wifi/wifi_config.cpp: the station's credentials, one blob in NVS    *)
(* that holds a configuration and the CRC of it.                           *)
(*                                                                         *)
(* A blob is "none", a configuration with the CRC it was written with, or  *)
(* a part of one.  The CRC of a configuration stands for the configuration *)
(* itself: different ones are taken to have different sums.                *)
(***************************************************************************)
EXTENDS Integers

CONSTANTS
    Configs             \* configurations the application saves

VARIABLES
    blob,               \* NVS_KEY in the namespace
    config,             \* what the application's last load() returned
    expected            \* history: what a load may return

storeVars == <<blob, config, expected>>

Default  == "createDefault"
Unopened == "createDefault, the namespace did not open"
Unread   == "unread"
Mixed    == "bytes of two configurations"

NoBlob == [size |-> 0, config |-> Default, crc |-> Default]

(* Mutant of Blob: the sum is of the configuration that is replaced.       *)
BlobOldSum(c) == [size |-> 1, config |-> c, crc |-> blob.config]

Blob(c) == [size |-> 1, config |-> c, crc |-> c]

StoreTypeOK ==
    /\ blob \in [size : {0, 1, 2}, config : Configs \cup {Default, Mixed},
                 crc : Configs \cup {Default}]
    /\ config \in Configs \cup {Default, Unopened, Unread}
    /\ expected \in SUBSET (Configs \cup {Default})

StoreInit == blob = NoBlob /\ config = Unread /\ expected = {Default}

(* Mutant of Loaded: the sum is not compared.                              *)
LoadedUnchecked == IF blob.size = 1 THEN blob.config ELSE Default

(* The blob has another size, as one of an older layout of the structure,  *)
(* or the sum does not fit: the defaults.                                  *)
Loaded == IF blob.size = 1 /\ blob.crc = blob.config THEN blob.config ELSE Default

Load ==
    /\ config' \in {Loaded, Unopened}
    /\ UNCHANGED <<blob, expected>>

(* The namespace does not open: nothing is written, and nothing returned   *)
(* says so; this step is no change of state.                               *)
Save(c) ==
    /\ blob' = Blob(c)
    /\ expected' = {c}
    /\ UNCHANGED config

(* What a write leaves that did not come to its end.                       *)
Torn(c) ==
    {blob, Blob(c), [Blob(c) EXCEPT !.size = 2], [Blob(c) EXCEPT !.config = Mixed]}

(* putBytes() reports that it failed, which save() only logs.              *)
SaveFails(c) ==
    /\ blob' \in Torn(c)
    /\ expected' = expected \cup {c, Default}
    /\ UNCHANGED config

Clear ==
    /\ blob' = NoBlob
    /\ expected' = {Default}
    /\ UNCHANGED config

(* The power goes in putBytes(): the restart finds a part of the blob.     *)
SaveInterrupted(c) ==
    /\ blob' \in Torn(c)
    /\ expected' = expected \cup {c, Default}
    /\ config' = Unread

StoreRestart == config' = Unread /\ UNCHANGED <<blob, expected>>

(* A load returns the configuration that was saved whole last, or, if a    *)
(* write failed since, that one, the new one or the defaults; never the    *)
(* bytes of a blob that was cut or mixed ("corrupted NVS blobs fall back   *)
(* to defaults").                                                          *)
ConfigWhole ==
    [][config' # config => config' \in expected \cup {Unread, Unopened}]_storeVars
=============================================================================
