------------------------------ MODULE Settings ------------------------------
(***************************************************************************)
(* SettingsManager (src/src/app/services/settings_manager.py): one JSON    *)
(* file of settings.  Older versions named two settings otherwise; they    *)
(* are renamed when the process starts and whenever the file is read.  A   *)
(* save reads the file, merges and writes, with no lock between the two.   *)
(***************************************************************************)
EXTENDS ServerThreads

CONSTANTS
    Keys,          \* the names of the settings
    Legacy,        \* those that had another name in older versions
    Endpoint,      \* stream_public_endpoint, whose value is checked
    Values,        \* values of settings
    Canonical,     \* normalize_public_endpoint: a function on Values, which
                   \* leaves alone what it has rewritten (it does, but for
                   \* blanks between trailing slashes)
    Invalid,       \* its result on what is no URL: it raises
    Defaults,      \* the settings of a new file
    NoFile,        \* there is no settings.json
    FirstSettings, \* the files a first start may find
    Updates        \* the bodies POST /api/settings is called with

Document == [current: UNION {[K -> Values] : K \in SUBSET Keys},
             legacy: UNION {[K -> Values] : K \in SUBSET Legacy}]

ASSUME SettingsAssumption ==
    /\ Legacy \subseteq Keys
    /\ Endpoint \in Keys
    /\ Invalid \notin Values
    /\ NoFile \notin Document
    /\ Canonical \in [Values -> Values \cup {Invalid}]
    /\ \A v \in Values : Canonical[v] # Invalid =>
                            Canonical[Canonical[v]] = Canonical[v]
    /\ Defaults \in [Keys -> Values]
    /\ Canonical[Defaults[Endpoint]] # Invalid
    /\ FirstSettings \subseteq Document \cup {NoFile}
    /\ Updates \subseteq Document

VARIABLES
    settings,      \* settings.json
    asked          \* history: the value last asked for each setting, the
                   \* settings some save carried, whether a save started from
                   \* a file it could not read, or from one already replaced

settingsVars == <<settings, asked>>

Nothing == [k \in {} |-> {}]

(* _normalize(): a value under the current name wins over the legacy one,  *)
(* and the endpoint is rewritten, or refused.                              *)
LegacyWins(d) == Over(d.legacy, d.current)
Renamed(d) == Over(d.current, d.legacy)

Readable(d) ==
    Endpoint \in DOMAIN Renamed(d) => Canonical[Renamed(d)[Endpoint]] # Invalid

Normalize(d) ==
    LET r == Renamed(d)
    IN  [k \in DOMAIN r |-> IF k = Endpoint THEN Canonical[r[k]] ELSE r[k]]

File(s) == [current |-> s, legacy |-> Nothing]

(* get_all(): a file that is missing, unreadable or refused is no settings.*)
GetAll == IF settings # NoFile /\ Readable(settings)
          THEN Normalize(settings) ELSE Nothing

-----------------------------------------------------------------------------
SettingsInit ==
    /\ settings \in FirstSettings
    /\ asked = [value |-> IF settings = NoFile THEN Nothing
                          ELSE Over(settings.current, settings.legacy),
                keys |-> {}, blind |-> FALSE, overtaken |-> FALSE]

(* ensure_file_exists(): a new file gets the defaults, an old one its      *)
(* legacy names replaced; a file that cannot be read or normalised, or     *)
(* whose replacement fails, stays as it is.                                *)
StartSettings(ok) ==
    IF settings = NoFile
    THEN /\ settings' = IF ok THEN File(Normalize(File(Defaults))) ELSE NoFile
         /\ asked' = IF ok THEN [asked EXCEPT !.value = Defaults] ELSE asked
    ELSE /\ settings' = IF ok /\ Readable(settings)
                        THEN File(Normalize(settings)) ELSE settings
         /\ UNCHANGED asked

(* save() reads: get_all() answers {} when the read fails.  A body whose   *)
(* endpoint is refused ends with 400 and changes nothing.                  *)
ReadSettings(t, new, ok) ==
    /\ Readable(new)
    /\ Serve(t, [at |-> "saveSettings", new |-> Normalize(new),
                 base |-> IF ok THEN GetAll ELSE Nothing,
                 blind |-> settings # NoFile /\ (~ok \/ ~Readable(settings))])
    /\ Works(ok)
    /\ UNCHANGED settingsVars

(* save() merges and writes.                                               *)
Merged(base, new) == Over(new, base)

SaveSettings(t, ok) ==
    /\ th[t].at = "saveSettings"
    /\ Return(t)
    /\ Works(ok)
    /\ IF ok
       THEN /\ settings' = File(Merged(th[t].base, th[t].new))
            /\ asked' = [value |-> Over(th[t].new, asked.value),
                         keys |-> asked.keys \cup DOMAIN th[t].new,
                         blind |-> asked.blind \/ th[t].blind,
                         overtaken |-> asked.overtaken \/ th[t].base # GetAll]
       ELSE UNCHANGED settingsVars

SettingsStep(t) ==
    \/ \E new \in Updates, ok \in BOOLEAN : ReadSettings(t, new, ok)
    \/ \E ok \in BOOLEAN : SaveSettings(t, ok)

-----------------------------------------------------------------------------
SettingsTypeOK ==
    /\ settings \in Document \cup {NoFile}
    /\ \A t \in Threads : th[t].at = "saveSettings" =>
          /\ File(th[t].base) \in Document
          /\ File(th[t].new) \in Document

(* What a file means for a setting: its value under the current name, else *)
(* the one under the legacy name; an endpoint counts in canonical form.    *)
Means(d, k, v) ==
    /\ k \in DOMAIN d.current \cup DOMAIN d.legacy
    /\ LET w == IF k \in DOMAIN d.current THEN d.current[k] ELSE d.legacy[k]
       IN  w = v \/ (k = Endpoint /\ Canonical[w] = Canonical[v])

(* A setting no request has carried keeps its value through renaming,      *)
(* failed writes, crashes and saves that overtake each other, unless a     *)
(* save started from a file it could not read (get_all() answers {}).      *)
UntouchedSettingsKept ==
    settings # NoFile /\ ~asked.blind =>
        \A k \in DOMAIN asked.value \ asked.keys : Means(settings, k, asked.value[k])

(* While every save wrote over the very settings it had read, each setting *)
(* has the value last asked for: save() "merges with existing".  Requests  *)
(* that overlap lose updates, since nothing holds a lock from the read to  *)
(* the write.                                                              *)
SerialSavesKept ==
    settings # NoFile /\ ~asked.blind /\ ~asked.overtaken =>
        \A k \in DOMAIN asked.value : Means(settings, k, asked.value[k])
=============================================================================
