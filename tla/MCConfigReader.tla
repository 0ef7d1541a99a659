--------------------------- MODULE MCConfigReader ---------------------------
(* Values of the constants for TLC: files written in several layouts. *)
EXTENDS ConfigReader

P(c) == <<<<c>>>>
Word(x) == <<<<"text", x>>>>
Num(n) == <<<<"number", n>>>>
Bool(b) == IF b THEN P("true") ELSE P("false")

Long == Word("a name of more than 31 bytes")

MCTruncateUtf8(x) == IF x = Long THEN Word("a name of") ELSE x

MCSubtags(x) ==
    CASE x = Word("zh-Hans") -> <<"zh", "hans">>
      [] x = Word("ZH_Hant-TW") -> <<"zh", "hant", "tw">>
      [] x = Word("zh") -> <<"zh">>
      [] x = Word("en") -> <<"en">>
      [] OTHER -> <<>>

-----------------------------------------------------------------------------
(* JSON. *)

Quoted(x) == P("quote") \o x \o P("quote")
Str(x) == Quoted(Word(x))

\* Names that hold what means something outside of a string.
Odd == Word("a") \o P(",") \o P("space") \o P("{") \o P("[") \o P(":") \o Word("b")
OddEnd == Word("a") \o P("}") \o P("]") \o Num(1)

\* The items, each a text, with commas between them.
Listed(items) ==
    FlattenSeq([k \in 1 .. Len(items) |-> IF k = 1 THEN items[k] ELSE P(",") \o items[k]])

Member(key, value) == Str(key) \o P(":") \o value
Obj(members) == P("{") \o Listed(members) \o P("}")
Arr(items) == P("[") \o Listed(items) \o P("]")

InString(tokens, k) == Cardinality({j \in 1 .. k : tokens[j] = <<"quote">>}) % 2 = 1

\* The layout of config.json, without its indentation.
Spaced(tokens) ==
    FlattenSeq([k \in 1 .. Len(tokens) |->
        CASE InString(tokens, k) -> <<tokens[k]>>
          [] tokens[k][1] \in {"{", ",", ":"} /\ ~InString(tokens, k) -> <<tokens[k], <<"space">>>>
          [] tokens[k][1] = "}" /\ ~InString(tokens, k) -> <<<<"space">>, tokens[k]>>
          [] OTHER -> <<tokens[k]>>])

Layouts(tokens) == {tokens, Spaced(tokens)}

File(tokens, means) == [text |-> tokens, means |-> means, form |-> "whole"]
Cut(file, n) == [file EXCEPT !.text = SubSeq(@, 1, n), !.form = "cut"]
NoFile(means) == File(Missing, means)

-----------------------------------------------------------------------------
(* config.json *)

\* Settings that are given, in one of two orders, with an unknown scalar in one place.
Features(enable, min, hold, extra) ==
    Obj(extra \o <<Member("enableFakePing", Bool(enable)), Member("fakePingMin", Num(min)),
                   Member("voteTransactionHoldFrames", Num(hold))>>)

FeaturesReversed(enable, min, hold, extra) ==
    Obj(<<Member("voteTransactionHoldFrames", Num(hold)), Member("fakePingMin", Num(min))>>
            \o extra \o <<Member("enableFakePing", Bool(enable))>>)

Settings(enable, min, hold) ==
    [DefaultFeatures EXCEPT !.enableFakePing = enable, !.fakePingMin = min,
                            !.voteTransactionHoldFrames = hold]

Blacklist == Arr(<<Quoted(P("space") \o Word("cabin")), Num(7), Quoted(P("space")),
                   Quoted(Odd), Quoted(OddEnd)>>)

Blacklisted == <<Word("cabin"), Odd, OddEnd>>

\* The documents with the extra members x in front, between and behind.
Around(x, a, b) ==
    {Obj(x \o <<a, b>>), Obj(<<a>> \o x \o <<b>>), Obj(<<b, a>> \o x), Obj(x \o <<b, a>>)}

Config(tokens, hold) ==
    File(tokens, [features |-> Settings(FALSE, 5, hold), mapBlacklist |-> Blacklisted])

ConfigFiles(holds, extras, inner) ==
    UNION {
        UNION {{Config(t, h) : t \in Layouts(doc)} :
            doc \in UNION {Around(x, Member("features", f), Member("mapBlacklist", Blacklist)) :
                x \in extras,
                f \in UNION {{Features(FALSE, 5, h, y), FeaturesReversed(FALSE, 5, h, y)} :
                                y \in inner}}} :
        h \in holds}

NoConfig == NoFile([features |-> DefaultFeatures, mapBlacklist |-> <<>>])

Empty == File(Obj(<<>>), [features |-> DefaultFeatures, mapBlacklist |-> <<>>])

\* Members that this version does not know.
Scalars == {<<>>, <<Member("x", Num(3))>>, <<Member("x", Quoted(Word("y") \o P("{") \o P(":")))>>}

OneConfig ==
    Config(Spaced(Obj(<<Member("mapBlacklist", Blacklist),
                        Member("features", Features(FALSE, 5, 33, <<>>))>>)), 33)

-----------------------------------------------------------------------------
(* core.json and the lists. *)

Nested == <<Member("x", Obj(<<Member("y", Arr(<<Quoted(Odd), Quoted(OddEnd)>>)),
                              Member("ServerLanguage", Str("en"))>>)),
            Member("y", Quoted(OddEnd))>>

CoreFiles ==
    {File(Spaced(Obj(Nested \o <<Member("ServerLanguage", Quoted(x))>>)),
          IF x \in {Word("zh"), Word("zh-Hans")} THEN "zh-CN" ELSE "default") :
        x \in {Word("zh"), Word("zh-Hans"), Word("ZH_Hant-TW"), Word("en"), <<>>}}
        \cup {NoFile("default"), File(Obj(Nested), "default")}

\* Three bots for a pool of two; the fields in the order the mask gives.
Entry(b) ==
    Member(b.key, Obj(b.fields))

B1 == [key |-> "Bot01", name |-> Word("a"), steamid |-> 7, ping |-> 5,
       fields |-> <<Member("steamid", Num(7)), Member("crosshair", Quoted(Odd)),
                    Member("name", Str("a")), Member("ping", Num(5))>>]
B2 == [key |-> "Bot02", name |-> Long, steamid |-> 0, ping |-> 9,
       fields |-> <<Member("ping", Num(9)), Member("name", Quoted(Long))>>]
B3 == [key |-> "Bot03", name |-> Word("Bot03"), steamid |-> 0, ping |-> 0, fields |-> <<>>]
B4 == [key |-> "Bot04", name |-> OddEnd, steamid |-> 0, ping |-> 0,
       fields |-> <<Member("scoreboardFlair", Num(2)), Member("name", Quoted(OddEnd))>>]

ListText(list, extra) ==
    Obj(extra \o <<Member("bots", Obj([k \in 1 .. Len(list) |-> Entry(list[k])]))>>)

ListFiles(lists) ==
    UNION {{File(ListText(l, <<>>), l), File(Spaced(ListText(l, Nested)), l)} : l \in lists}

ZhLists == ListFiles({<<>>, <<B1>>, <<B3, B2>>}) \cup {NoFile(<<>>)}
DefaultLists == ListFiles({<<B4>>, <<B4, B3, B2, B1>>, <<B2, B2, B2>>}) \cup {NoFile(<<>>)}

OneZh == File(ListText(<<B3, B1>>, <<>>), <<B3, B1>>)
OneDefault == File(Spaced(ListText(<<B4, B2>>, <<>>)), <<B4, B2>>)
OneCore == File(Obj(<<Member("ServerLanguage", Str("zh"))>>), "zh-CN")

Disk(config, core, zh, default) ==
    [config |-> config, core |-> core, zh |-> zh, default |-> default]

Cuts(file) == {Cut(file, n) : n \in 0 .. Len(file.text)}

WholeDisks ==
    {Disk(c, OneCore, OneZh, OneDefault) :
        c \in ConfigFiles({0, 33}, Scalars, Scalars) \cup {NoConfig, Empty}}
    \cup {Disk(OneConfig, k, z, d) : k \in CoreFiles, z \in ZhLists, d \in DefaultLists}

CutDisks ==
    {Disk(c, OneCore, OneZh, OneDefault) :
        c \in UNION {Cuts(x) : x \in ConfigFiles({33}, {<<>>}, {<<>>})}}
    \cup {Disk(OneConfig, OneCore, z, d) : z \in Cuts(OneZh), d \in {OneDefault, NoFile(<<>>)}}
    \cup {Disk(OneConfig, k, NoFile(<<>>), OneDefault) : k \in Cuts(OneCore)}
    \cup {Disk(OneConfig, OneCore, NoFile(<<>>), d) : d \in Cuts(OneDefault)}

-----------------------------------------------------------------------------
(* Texts that are not what the reader expects. *)

Other(tokens, file) == [file EXCEPT !.text = tokens, !.form = "other"]

\* Numbers that wrap around, are cast to a negative one, or begin with a digit 1.
Wide(min, hold) ==
    Obj(<<Member("features", Obj(<<Member("enableFakePing", Num(10)),
                                   Member("fakePingMin", Num(min)),
                                   Member("voteTransactionHoldFrames", Num(hold))>>))>>)

\* A list that is closed by a brace, a value of another kind, no value, and so on.
OtherConfigs ==
    { Wide(min, hold) : min \in {250, 4100}, hold \in {255, 270} }
    \cup
    { P("{") \o Str("mapBlacklist") \o P(":") \o P("[") \o Str("cabin") \o P("}") \o P("}"),
      P("{") \o Str("mapBlacklist") \o P(":") \o P("[") \o P(",") \o P("]") \o P("}"),
      P("{") \o P(":") \o P("}"),
      P("}"),
      Obj(<<Member("features", Arr(<<Num(1), Num(2)>>)), Member("mapBlacklist", Obj(<<>>))>>),
      Obj(<<Member("features", Obj(<<Member("fakePingMin", P("-") \o Num(5)),
                                     Member("enableFakePing", Obj(<<Member("x", Num(1))>>))>>))>>) }

OtherLists ==
    { Obj(<<Member("bots", Arr(<<Str("a")>>))>>),
      Obj(<<Member("bots", Str("a"))>>),
      Obj(<<Member("bots", Obj(<<Member("Bot01", Num(7)), Entry(B3)>>))>>),
      Obj(<<Member("bots", Obj(<<Member("Bot01", Obj(<<Member("x", Obj(<<Member("y", Num(1))>>)),
                                                       Member("ping", Num(300))>>)),
                                 Member("Bot02", Obj(<<Member("steamid", Num(5000)),
                                                       Member("name", Num(3))>>))>>))>>) }

OtherDisks ==
    {Disk(Other(c, NoConfig), OneCore, OneZh, OneDefault) : c \in OtherConfigs}
    \cup {Disk(OneConfig, OneCore, Other(z, OneZh), Other(d, OneDefault)) :
            z \in OtherLists, d \in OtherLists}
    \cup {Disk(OneConfig, Other(Obj(<<Member("ServerLanguage", Num(7))>>), OneCore),
               OneZh, OneDefault)}

MCDisks == WholeDisks \cup CutDisks \cup OtherDisks

\* Settings that this version does not know, with values that are not plain scalars.
Unplain == {<<Member("x", Obj(<<Member("y", Num(1)), Member("z", Num(2))>>))>>,
            <<Member("x", Arr(<<Str("y"), Str("z")>>))>>,
            <<Member("x", Quoted(Word("y") \o P(",") \o Word("z")))>>}

MCUnknownDisks ==
    {Disk([c EXCEPT !.form = "unknown"], OneCore, OneZh, OneDefault) :
        c \in ConfigFiles({5}, Unplain, {<<>>}) \cup ConfigFiles({5}, {<<>>}, Unplain)}

=============================================================================
