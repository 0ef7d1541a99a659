---------------------------- MODULE ConfigReader ----------------------------
(***************************************************************************)
(* What the native plugin reads when it is loaded: BotInfo::Load of        *)
(* config.json, ReadCssServerLanguage of CounterStrikeSharp's core.json,   *)
(* SelectBotList, and BotInfo::LoadBots of the list that was selected, with *)
(* the fallback of BotIdentityPlugin::Load (src/src/bot_info.cpp and       *)
(* plugin.cpp).  The files are read by a JSON reader of its own, which     *)
(* knows where it is only by its position: a value that is not consumed to *)
(* its end makes the rest of the file something else.                      *)
(*                                                                         *)
(* A text is a sequence of tokens: punctuation, quotes, white space (which *)
(* the reader does not skip everywhere), words, numbers and Booleans.  A   *)
(* string is what stands between two quotes, and may hold any token but a  *)
(* quote; some of the reader's loops know that, and some do not.  Each     *)
(* iteration of a reading loop is one action.                              *)
(***************************************************************************)
EXTENDS Integers, SequencesExt

CONSTANTS
    Disks,               \* what may be on disk, see Disk
    MaxBotIdentities,    \* kMaxBotIdentities
    UInt64Range,         \* 2^64
    IntRange,            \* 2^32
    TruncateUtf8(_),     \* to kMaxPersonaNameBytes
    Subtags(_)           \* of a NormalizeLanguageTag'd string

VARIABLES
    disk,
    at,             \* the loop that runs next, or the file to be opened
    text, i,        \* json and i
    features,       \* m_Features
    mapBlacklist,   \* m_MapBlacklist
    matched,        \* BotListSelection: "zh-CN" or "default"
    bots,           \* m_Bots
    bot,            \* the entry that is being read
    dropped, truncated,
    fellBack        \* the second LoadBots of Load has been reached

vars == <<disk, at, text, i, features, mapBlacklist, matched, bots, bot, dropped, truncated,
          fellBack>>

\* A text is a sequence of tokens, and a number (the reader knows no sign) a natural.
IsText(x) ==
    /\ x \in Seq(ToSet(x))
    /\ \A k \in DOMAIN x : x[k][1] = "number" => x[k][2] \in Nat

SteamIdBase == 1000

(***************************************************************************)
(* The files config, core, zh and default, each with its text, Missing if  *)
(* there is none, what its author meant by it, and its form:               *)
(*   whole    a JSON document, or no file; its numbers fit what they are   *)
(*            read into, and the settings of config.json that this version *)
(*            does not know are scalars without a comma or a closing brace *)
(*   unknown  the same, but with other values of such settings             *)
(*   cut      what is left of a whole one that was cut between two tokens  *)
(*   other    anything else                                                *)
(***************************************************************************)
ASSUME ReaderAssumption ==
    /\ MaxBotIdentities \in Nat
    /\ IntRange \in Nat /\ 2 * 32 < IntRange
    /\ UInt64Range \in Nat
    /\ SteamIdBase + MaxBotIdentities < UInt64Range
    /\ \A d \in Disks, f \in {"config", "core", "zh", "default"} : IsText(d[f].text)

Missing == <<>>

DefaultFeatures == [enableFakePing |-> TRUE, fakePingMin |-> 20, voteTransactionHoldFrames |-> 3]

NoBot == [name |-> <<>>, steamid |-> 0, ping |-> 0]

\* A 32-bit signed integer.
IsInt(n) == n \in Int /\ 2 * n \in -IntRange .. IntRange - 1

TypeOK ==
    /\ i \in Nat
    /\ at \in {"config", "top", "feature", "token", "core", "setting", "list", "entry",
               "bot", "field", "listed", "done"}
    /\ DOMAIN features = DOMAIN DefaultFeatures
    /\ features.enableFakePing \in BOOLEAN
    /\ IsInt(features.fakePingMin)
    /\ at \notin {"top", "feature", "token"} => features.voteTransactionHoldFrames \in 1 .. 32
    /\ matched \in {"zh-CN", "default"}
    /\ Len(bots) <= MaxBotIdentities
    /\ \A b \in ToSet(bots) \cup {bot} :
          DOMAIN b = DOMAIN NoBot /\ b.steamid \in 0 .. UInt64Range - 1 /\ IsInt(b.ping)
    /\ dropped \in Nat /\ truncated \in Nat
    /\ fellBack => matched = "default"

Init ==
    /\ disk \in Disks
    /\ at = "config"
    /\ text = <<>> /\ i = 1
    /\ features = DefaultFeatures
    /\ mapBlacklist = <<>>
    /\ matched = "default"
    /\ bots = <<>> /\ bot = NoBot
    /\ dropped = 0 /\ truncated = 0
    /\ fellBack = FALSE

-----------------------------------------------------------------------------
(* The reader.  Each operator takes the position it starts from.           *)

Kind(n) == IF n \in DOMAIN text THEN text[n][1] ELSE "end"

SkipWhitespace[n \in Nat] == IF Kind(n) = "space" THEN SkipWhitespace[n + 1] ELSE n

SkipTo(stops, n) ==
    LET to[m \in Nat] == IF Kind(m) \in stops \cup {"end"} THEN m ELSE to[m + 1]
    IN  to[n]

(***************************************************************************)
(* Behind the token that closes what was open `depth` times.  A loop that  *)
(* knows strings has their quotes for `quotes`; one that does not has none *)
(* and counts the brackets in a string as well.                            *)
(***************************************************************************)
SkipNested(open, close, quotes, n, depth) ==
    LET behind[p \in Nat \X Nat \X BOOLEAN] ==
            LET m == p[1]
                d == p[2]
                quoted == p[3]
            IN  CASE d = 0 \/ Kind(m) = "end" -> m
                  [] d > 0 /\ Kind(m) \in quotes -> behind[<<m + 1, d, ~quoted>>]
                  [] d > 0 /\ ~quoted /\ Kind(m) \in open -> behind[<<m + 1, d + 1, quoted>>]
                  [] d > 0 /\ ~quoted /\ Kind(m) \in close -> behind[<<m + 1, d - 1, quoted>>]
                  [] OTHER -> behind[<<m + 1, d, quoted>>]
    IN  behind[<<n, depth, FALSE>>]

\* MatchChar: [ok, i], where i is behind the character or at what is there instead.
MatchChar(n, c) ==
    LET match[m \in Nat] == [ok |-> Kind(m) = c, i |-> IF Kind(m) = c THEN m + 1 ELSE m]
    IN  match[SkipWhitespace[n]]

\* The tokens up to the next quote, or the end; none if there is no string.
ReadString(n) ==
    LET open  == MatchChar(n, "quote")
        close == SkipTo({"quote"}, open.i)
    IN  IF open.ok
        THEN [ value |-> SubSeq(text, open.i, close - 1),
               i |-> IF Kind(close) = "end" THEN close ELSE close + 1 ]
        ELSE [value |-> <<>>, i |-> open.i]

\* The name that a string of one word spells.
Spelled(x) == IF Len(x) = 1 /\ x[1][1] = "text" THEN x[1][2] ELSE ""

\* Without the white space around it.
TrimAscii(x) ==
    LET inner == {k \in DOMAIN x : x[k][1] # "space"}
    IN  IF inner = {} THEN <<>> ELSE SubSeq(x, Min(inner), Max(inner))

\* Also ReadDouble, whose fraction nothing here depends on.
ReadUInt64(n) ==
    LET read[m \in Nat] == IF Kind(m) = "number"
                           THEN [value |-> text[m][2] % UInt64Range, i |-> m + 1]
                           ELSE [value |-> 0, i |-> m]
    IN  read[SkipWhitespace[n]]

\* (int): the lower half of the bits, the upper one of them the sign.
ToInt(v) ==
    LET low == v % IntRange
    IN  IF 2 * low < IntRange THEN low ELSE low - IntRange

ReadInt(n) == [ReadUInt64(n) EXCEPT !.value = ToInt(@)]

FirstDigit[n \in Nat] == IF n < 10 THEN n ELSE FirstDigit[n \div 10]

ReadBool(n) ==
    LET read[m \in Nat] ==
            [value |-> Kind(m) = "true" \/ (Kind(m) = "number" /\ FirstDigit[text[m][2]] = 1),
             i |-> SkipTo({",", "}"}, m)]
    IN  read[SkipWhitespace[n]]

SkipJsonValue(n) ==
    LET skip[m \in Nat] ==
            CASE Kind(m) = "quote"      -> ReadString(m).i
              [] Kind(m) \in {"{", "["} -> SkipNested({"{", "["}, {"}", "]"}, {"quote"}, m + 1, 1)
              [] OTHER                  -> SkipTo({",", "}", "]"}, m)
    IN  skip[SkipWhitespace[n]]

(***************************************************************************)
(* The loops over the members of an object have one head and one tail:     *)
(* while there is a key and a colon; until there is no comma.  A loop that *)
(* ends takes the closing brace, if it is there.                           *)
(***************************************************************************)
Behind(close, n) == MatchChar(n, close).i

NextMember[n \in Nat] ==
    LET k == ReadString(n)
        c == MatchChar(k.i, ":")
        b == Behind("}", IF k.value = <<>> THEN k.i ELSE c.i)
    IN  IF k.value # <<>> /\ c.ok
        THEN [more |-> TRUE, key |-> k.value, name |-> Spelled(k.value), i |-> c.i]
        ELSE [more |-> FALSE, key |-> <<>>, name |-> "", i |-> b]

\* Mutant: a comma is skipped if it is there.
AfterValueAnyway(close, n) == [more |-> TRUE, i |-> MatchChar(n, ",").i]

AfterValue(close, n) ==
    LET after[m \in Nat] ==
            LET c == MatchChar(m, ",")
            IN  [more |-> c.ok, i |-> IF c.ok THEN c.i ELSE Behind(close, c.i)]
    IN  after[n]

\* Mutant: a value that was read is taken to be all of it.
RestUnskipped(n) == n

\* What ReadBlock skips behind the value that its callback has read, or has not.
BlockRest(n) ==
    LET rest[m \in Nat] ==
            CASE Kind(m) = "{" -> SkipNested({"{"}, {"}"}, {}, m, 1)
              [] Kind(m) = "[" -> SkipNested({"["}, {"]"}, {}, m, 1)
              [] OTHER         -> SkipTo({",", "}"}, m)
    IN  rest[n]

-----------------------------------------------------------------------------
(* config.json                                                             *)

OpenConfig ==
    /\ at = "config"
    /\ text' = disk.config.text
    /\ LET c == MatchChar(1, "{")' IN
          IF c.ok
          THEN at' = "top" /\ i' = c.i /\ mapBlacklist' = <<>>
          ELSE at' = "core" /\ UNCHANGED <<i, mapBlacklist>>
    /\ UNCHANGED <<disk, features, matched, bots, bot, dropped, truncated, fellBack>>

HoldClamped(n) == IF n < 1 THEN 1 ELSE IF n > 32 THEN 32 ELSE n

\* Mutant: Load returns where a closing brace is missing, before it clamps.
TopReturns(next, f) ==
    IF next.more
    THEN at' = "top" /\ i' = next.i /\ features' = f
    ELSE /\ at' = "core"
         /\ i' = 1
         /\ features' = IF Kind(next.i - 1) = "}"
                        THEN [f EXCEPT !.voteTransactionHoldFrames = HoldClamped(@)]
                        ELSE f

\* The loop of Load goes on at next.i, or Load returns; f is what it has read.
TopContinues(next, f) ==
    IF next.more
    THEN at' = "top" /\ i' = next.i /\ features' = f
    ELSE /\ at' = "core"
         /\ i' = 1
         /\ features' = [f EXCEPT !.voteTransactionHoldFrames = HoldClamped(@)]

\* Where Load stops skipping the value of a key it does not know.
SkipUnknown(n) ==
    CASE Kind(n) = "{" -> SkipNested({"{"}, {"}"}, {}, n + 1, 1) + 1
      [] Kind(n) = "[" -> SkipNested({"["}, {"]"}, {}, n + 1, 1) + 1
      [] OTHER         -> SkipTo({",", "}"}, n)

TopKey ==
    /\ at = "top"
    /\ LET m == NextMember[i]
           block == MatchChar(m.i, "{")
           array == MatchChar(m.i, "[")
       IN  CASE ~m.more -> TopContinues(m, features)
             [] m.more /\ m.name = "features" ->
                  IF block.ok
                  THEN at' = "feature" /\ i' = block.i /\ features' = features
                  ELSE TopContinues(AfterValue("}", block.i), features)
             [] m.more /\ m.name = "mapBlacklist" ->
                  IF array.ok
                  THEN at' = "token" /\ i' = array.i /\ features' = features
                  ELSE TopContinues(AfterValue("}", SkipJsonValue(array.i)), features)
             [] m.more /\ m.name \notin {"features", "mapBlacklist"} ->
                  TopContinues(AfterValue("}", SkipUnknown(m.i)), features)
    /\ UNCHANGED <<disk, text, mapBlacklist, matched, bots, bot, dropped, truncated, fellBack>>

BooleanFeatures == {"enableFakePing", "enableScoreboardFlair", "enableCrosshair"}

NumberFeatures == {"fakePingMin", "fakePingMax", "scoreboardFlairProbability",
                   "defaultScoreboardFlair", "pingJitterPercent", "voteTransactionHoldFrames"}

\* ReadBlock with the callback of Load; the settings of DefaultFeatures stand for all.
FeatureKey ==
    /\ at = "feature"
    /\ LET m == NextMember[i]
           r == CASE m.name \in BooleanFeatures -> ReadBool(m.i)
                  [] m.name \in NumberFeatures -> ReadInt(m.i)
                  [] OTHER -> [i |-> m.i]
           f == IF m.name \in DOMAIN features
                THEN [features EXCEPT ![m.name] = r.value] ELSE features
           next == AfterValue("}", BlockRest(r.i))
       IN  IF m.more /\ next.more
           THEN at' = at /\ i' = next.i /\ features' = f
           ELSE TopContinues(AfterValue("}", IF m.more THEN next.i ELSE m.i), f)
    /\ UNCHANGED <<disk, text, mapBlacklist, matched, bots, bot, dropped, truncated, fellBack>>

MapToken ==
    /\ at = "token"
    /\ LET k    == SkipWhitespace[i]
           item == TrimAscii(ReadString(k).value)
           next == AfterValue("]", SkipJsonValue(k))
       IN  IF Kind(k) \in {"]", "end"}
           THEN /\ TopContinues(AfterValue("}", Behind("]", k)), features)
                /\ UNCHANGED mapBlacklist
           ELSE /\ mapBlacklist' = IF item # <<>> THEN Append(mapBlacklist, item) ELSE mapBlacklist
                /\ IF next.more
                   THEN at' = at /\ i' = next.i /\ features' = features
                   ELSE TopContinues(AfterValue("}", next.i), features)
    /\ UNCHANGED <<disk, text, matched, bots, bot, dropped, truncated, fellBack>>

-----------------------------------------------------------------------------
(* The language, and the list of bots it selects                           *)

OpenCore ==
    /\ at = "core"
    /\ text' = disk.core.text
    /\ LET c == MatchChar(1, "{")' IN
          at' = (IF c.ok THEN "setting" ELSE "list") /\ i' = c.i
    /\ UNCHANGED <<disk, features, mapBlacklist, matched, bots, bot, dropped, truncated, fellBack>>

\* Mutant: every Chinese is.
IsChinese(tag) == Subtags(tag) # <<>> /\ Head(Subtags(tag)) = "zh"

IsSimplifiedChinese(tag) ==
    /\ Subtags(tag) # <<>>
    /\ Head(Subtags(tag)) = "zh"
    /\ \A k \in 2 .. Len(Subtags(tag)) : Subtags(tag)[k] \notin {"tw", "hk", "mo", "hant"}

\* ReadCssServerLanguage, and SelectBotList when it returns.
CoreSetting ==
    /\ at = "setting"
    /\ LET m == NextMember[i]
           language == ReadString(m.i).value
           next == AfterValue("}", SkipJsonValue(m.i))
       IN  IF m.more /\ m.name # "ServerLanguage" /\ next.more
           THEN at' = at /\ i' = next.i /\ matched' = matched
           ELSE /\ at' = "list"
                /\ i' = 1
                /\ matched' = IF m.name = "ServerLanguage" /\ language # <<>>
                                 /\ IsSimplifiedChinese(language)
                              THEN "zh-CN" ELSE matched
    /\ UNCHANGED <<disk, text, features, mapBlacklist, bots, bot, dropped, truncated, fellBack>>

OpenList ==
    /\ at = "list"
    /\ text' = IF matched = "zh-CN" THEN disk.zh.text ELSE disk.default.text
    /\ LET c == MatchChar(1, "{")' IN
          IF c.ok
          THEN at' = "entry" /\ i' = c.i /\ bots' = <<>> /\ dropped' = 0 /\ truncated' = 0
          ELSE at' = "listed" /\ UNCHANGED <<i, bots, dropped, truncated>>
    /\ UNCHANGED <<disk, features, mapBlacklist, matched, bot, fellBack>>

\* The loop of LoadBots.
EntryContinues(next) ==
    at' = (IF next.more THEN "entry" ELSE "listed") /\ i' = next.i

ListEntry ==
    /\ at = "entry"
    /\ LET m == NextMember[i]
           block == MatchChar(m.i, "{")
       IN  CASE ~m.more -> EntryContinues(m)
             [] m.more /\ m.name = "bots" ->
                  IF block.ok
                  THEN at' = "bot" /\ i' = block.i
                  ELSE EntryContinues(AfterValue("}", block.i))
             [] m.more /\ m.name # "bots" ->
                  EntryContinues(AfterValue("}", SkipJsonValue(m.i)))
    /\ UNCHANGED <<disk, text, features, mapBlacklist, matched, bots, bot, dropped, truncated,
                   fellBack>>

\* Mutant: one more than the pool has room for.
IsFullByOne == Len(bots) > MaxBotIdentities

IsFull == Len(bots) >= MaxBotIdentities

\* The end of the callback of LoadBots, and of the iteration of ReadBlock around it.
PushBot(b, n) ==
    LET short == [b EXCEPT !.name = TruncateUtf8(@)]
        next  == AfterValue("}", BlockRest(n))
    IN  /\ bots' = IF IsFull THEN bots ELSE Append(bots, short)
        /\ dropped' = IF IsFull THEN dropped + 1 ELSE dropped
        /\ truncated' = IF short # b THEN truncated + 1 ELSE truncated
        /\ IF next.more THEN at' = "bot" /\ i' = next.i ELSE EntryContinues(AfterValue("}", next.i))

BotKey ==
    /\ at = "bot"
    /\ LET m == NextMember[i]
           b == [name |-> m.key, steamid |-> SteamIdBase + Len(bots), ping |-> 0]
           block == MatchChar(m.i, "{")
       IN  CASE ~m.more ->
                  /\ EntryContinues(AfterValue("}", m.i))
                  /\ UNCHANGED <<bots, bot, dropped, truncated>>
             [] m.more /\ block.ok ->
                  /\ at' = "field" /\ i' = block.i /\ bot' = b
                  /\ UNCHANGED <<bots, dropped, truncated>>
             [] m.more /\ ~block.ok ->
                  /\ PushBot(b, block.i)
                  /\ bot' = bot
    /\ UNCHANGED <<disk, text, features, mapBlacklist, matched, fellBack>>

BotField ==
    /\ at = "field"
    /\ LET m == NextMember[i]
           r == CASE m.name \in {"name", "crosshair"} -> ReadString(m.i)
                  [] m.name \in {"steamid", "scoreboardFlair"} -> ReadUInt64(m.i)
                  [] m.name = "ping" -> ReadInt(m.i)
                  [] OTHER -> [i |-> m.i]
           b == IF m.name \in DOMAIN bot THEN [bot EXCEPT ![m.name] = r.value] ELSE bot
           next == AfterValue("}", r.i)
       IN  IF m.more /\ next.more
           THEN at' = at /\ i' = next.i /\ bot' = b /\ UNCHANGED <<bots, dropped, truncated>>
           ELSE PushBot(b, IF m.more THEN next.i ELSE m.i) /\ bot' = NoBot
    /\ UNCHANGED <<disk, text, features, mapBlacklist, matched, fellBack>>

\* The list failed or has nobody in it, and there is another.
ListFailed == bots = <<>> /\ matched # "default"

\* BotIdentityPlugin::Load: what the second LoadBots returns is not looked at.
FallBack ==
    /\ at = "listed"
    /\ IF ~fellBack /\ ListFailed
       THEN at' = "list" /\ matched' = "default" /\ fellBack' = TRUE
       ELSE at' = "done" /\ UNCHANGED <<matched, fellBack>>
    /\ UNCHANGED <<disk, text, i, features, mapBlacklist, bots, bot, dropped, truncated>>

Next ==
    \/ OpenConfig \/ TopKey \/ FeatureKey \/ MapToken
    \/ OpenCore \/ CoreSetting
    \/ OpenList \/ ListEntry \/ BotKey \/ BotField
    \/ FallBack

\* Load runs to its end: nothing else runs meanwhile.
Spec == Init /\ [][Next]_vars /\ WF_vars(Next)

-----------------------------------------------------------------------------
(* Properties                                                              *)

Done == at = "done"

Hold(n) == Max({1, Min({n, 32})})

SettingsMeant ==
    [disk.config.means.features EXCEPT !.voteTransactionHoldFrames = Hold(@)]

ConfigAsMeant ==
    /\ features = SettingsMeant
    /\ mapBlacklist = disk.config.means.mapBlacklist

(***************************************************************************)
(* config.json as its author meant it, in any order of its members and any *)
(* layout: every setting has its value, or the default if it has none, the *)
(* hold is clamped, and the blacklist holds the names that are not blank   *)
(* ("voteTransactionHoldFrames ... clamped 1-32", "Top-level (not inside   *)
(* `features`)": src/README.md).  The exceptions are those of "whole":     *)
(* unknown settings with other values than plain scalars, and numbers that *)
(* are too wide for the type they are cast to.                             *)
(***************************************************************************)
ConfigIsRead == Done /\ disk.config.form = "whole" => ConfigAsMeant

(***************************************************************************)
(* The bots are those of the list of the server's language, and of         *)
(* bots.json if that list has none; the ones that fit, in the list's       *)
(* order, each with the fields it was given and a SteamID of its own if it *)
(* was given none; and what does not fit is counted.                       *)
(***************************************************************************)
Selected ==
    IF disk.core.means = "zh-CN" /\ disk.zh.means # <<>>
    THEN disk.zh ELSE disk.default

Meant(k) == Selected.means[k]

BotsAreRead ==
    Done /\ disk.core.form = "whole" /\ Selected.form = "whole" =>
        LET kept == Min({Len(Selected.means), MaxBotIdentities})
        IN  /\ Len(bots) = kept
            /\ dropped = Len(Selected.means) - kept
            /\ \A k \in 1 .. kept :
                  /\ bots[k].name = TruncateUtf8(Meant(k).name)
                  /\ bots[k].ping = Meant(k).ping
                  /\ bots[k].steamid = IF Meant(k).steamid # 0 THEN Meant(k).steamid
                                       ELSE SteamIdBase + k - 1
            /\ truncated = Cardinality({k \in DOMAIN Selected.means :
                                            TruncateUtf8(Meant(k).name) # Meant(k).name})

\* What a setting is whose value the file ends before.
Unwritten == [enableFakePing |-> FALSE, fakePingMin |-> 0, voteTransactionHoldFrames |-> 1]

(***************************************************************************)
(* A file cut short anywhere between two tokens loses its end only: every  *)
(* setting has its value or the default, the clamped hold too, but for the *)
(* one that the file ends before the value of; and the blacklist and the   *)
(* bots are the first ones of the file's, all but the last as written.     *)
(***************************************************************************)
CutLosesTheEnd ==
    Done =>
        /\ disk.config.form \in {"whole", "cut"} =>
              /\ \A f \in DOMAIN features :
                    features[f] \in {DefaultFeatures[f], SettingsMeant[f], Unwritten[f]}
              /\ Cardinality({f \in DOMAIN features :
                     features[f] \notin {DefaultFeatures[f], SettingsMeant[f]}}) <= 1
              /\ Len(mapBlacklist) <= Len(disk.config.means.mapBlacklist)
              /\ \A k \in 1 .. Len(mapBlacklist) - 1 :
                    mapBlacklist[k] = disk.config.means.mapBlacklist[k]
        /\ {disk.zh.form, disk.default.form} \subseteq {"whole", "cut"} =>
              \E list \in {disk.zh.means, disk.default.means} :
                 /\ Len(bots) <= Len(list)
                 /\ \A k \in 1 .. Len(bots) - 1 :
                       bots[k].name = TruncateUtf8(list[k].name) /\ bots[k].ping = list[k].ping

(***************************************************************************)
(* Reading ends, whatever the files hold: no loop stays where it is.       *)
(***************************************************************************)
ReadingEnds == <>Done

(***************************************************************************)
(* Why it does: every iteration of a loop brings Load closer to its end.   *)
(* It goes on to a later stage, of which falling back repeats only the     *)
(* last ones and only once, or it stays in its file and has consumed a     *)
(* token of it that exists.                                                *)
(***************************************************************************)
StagesLeft ==
    CASE at = "config"                      -> 10
      [] at \in {"top", "feature", "token"} -> 9
      [] at = "core"                        -> 8
      [] at = "setting"                     -> 7
      [] OTHER -> (IF fellBack THEN 0 ELSE 3)
                  + CASE at = "list"                      -> 3
                      [] at \in {"entry", "bot", "field"} -> 2
                      [] at = "listed"                    -> 1
                      [] at = "done"                      -> 0

Advances ==
    \/ StagesLeft' < StagesLeft
    \/ StagesLeft' = StagesLeft /\ text' = text /\ i < i' /\ i' <= Len(text) + 1

ReadingAdvances == [][Advances]_vars

(***************************************************************************)
(* bot_info.cpp:138, :146 and :222: a key that is not known is skipped     *)
(* with its value ("skip nested object", "skip nested array", "Unknown     *)
(* top-level key: skip it"), so the keys around it are read all the same.  *)
(***************************************************************************)
UnknownKeysAreSkipped ==
    Done /\ disk.config.form \in {"whole", "unknown"} => ConfigAsMeant

=============================================================================
