---------------------------- MODULE PlaylistParsing ----------------------------
(***************************************************************************)
(* The m3u and pls parsers (helpers.py) as functions of what they read,    *)
(* and what their results mean, stated without a parser. A line is what    *)
(* the parser takes it for; lengths, which nothing uses, are left out.     *)
(***************************************************************************)
EXTENDS Naturals, Sequences, SequencesExt

CONSTANTS
    Urls,       \* what passes for a URL in a playlist
    Titles,     \* titles that are not empty
    None        \* no title, or an empty one

Url(title, url) == [kind |-> "url", title |-> title, url |-> url]
Bare(kind) == [kind |-> kind, title |-> None, url |-> None]

\* "ignored": blank lines, comments and an #EXTINF without a comma. "raises": what
\* urlparse refuses with a ValueError, as it does a bracket that is not closed.
M3uLine ==
    {[kind |-> "extinf", title |-> t, url |-> None] : t \in Titles \cup {None}}
    \cup {Url(None, u) : u \in Urls}
    \cup {Bare(kind) : kind \in {"hls", "not_url", "raises", "ignored"}}

\* What File1 .. FileN of a pls file hold, each with its title. "raises": ConfigParser
\* finds a % in File, Title or Length that it cannot interpolate, or urlparse refuses File.
PlsEntry ==
    {Url(t, u) : t \in Titles \cup {None}, u \in Urls}
    \cup {Bare(kind) : kind \in {"not_url", "raises", "missing"}}

Item(title, url) == [title |-> title, url |-> url]

\* outcome: a list, "supported" for PlaylistSupported, "error" for PlaylistError, "raised"
\* for an exception that is neither.
Playlist(items) == [outcome |-> "items", items |-> items]
Raised(outcome) == [outcome |-> outcome, items |-> <<>>]

Reading == [outcome |-> "items", items |-> <<>>, title |-> None]

\* One turn of parse_m3u's loop; a raise ends it. Slip: the title of one item is
\* kept for the next.
ReadKeepingTitle(state, line) ==
    IF state.outcome # "items" THEN state
    ELSE CASE line.kind = "extinf"  -> [state EXCEPT !.title = line.title]
           [] line.kind = "hls"     -> [state EXCEPT !.outcome = "supported"]
           [] line.kind = "not_url" -> [state EXCEPT !.outcome = "error"]
           [] line.kind = "raises"  -> [state EXCEPT !.outcome = "raised"]
           [] line.kind = "url"     ->
                 [state EXCEPT !.items = Append(@, Item(state.title, line.url))]
           [] OTHER                 -> state
ReadLine(state, line) ==
    IF state.outcome # "items" THEN state
    ELSE CASE line.kind = "extinf"  -> [state EXCEPT !.title = line.title]
           [] line.kind = "hls"     -> [state EXCEPT !.outcome = "supported"]
           [] line.kind = "not_url" -> [state EXCEPT !.outcome = "error"]
           [] line.kind = "raises"  -> [state EXCEPT !.outcome = "raised"]
           [] line.kind = "url"     ->
                 [state EXCEPT !.items = Append(@, Item(state.title, line.url)), !.title = None]
           [] OTHER                 -> state

\* parse_pls, its loop over File1 .. FileN.
ReadEntry(state, entry) ==
    IF state.outcome # "items" THEN state
    ELSE CASE entry.kind = "not_url" -> [state EXCEPT !.outcome = "error"]
           [] entry.kind = "raises"  -> [state EXCEPT !.outcome = "raised"]
           [] entry.kind = "url"     ->
                 [state EXCEPT !.items = Append(@, Item(entry.title, entry.url))]
           [] OTHER                  -> state

\* parse_playlist: a list without items is an error.
Finished(state) ==
    IF state.outcome # "items" THEN Raised(state.outcome)
    ELSE IF state.items = <<>> THEN Raised("error") ELSE Playlist(state.items)

ParseM3u(lines) == Finished(FoldLeft(ReadLine, Reading, lines))
ParsePls(entries) == Finished(FoldLeft(ReadEntry, Reading, entries))

-----------------------------------------------------------------------------
(* What a playlist means, line by line and without a state that is read along. *)

IsUrl(line) == line.kind = "url"

\* The #EXTINF lines that belong to the URL at i: those with no other URL between.
TitledBy(lines, i) ==
    {j \in 1 .. i - 1 : lines[j].kind = "extinf" /\ \A k \in j .. i - 1 : ~IsUrl(lines[k])}

M3uItem(lines, i) ==
    Item(IF TitledBy(lines, i) = {} THEN None ELSE lines[Max(TitledBy(lines, i))].title,
         lines[i].url)

UrlLines(lines) == {i \in DOMAIN lines : IsUrl(lines[i])}

\* The item that each URL line stands for, by its line.
M3uItems(lines) == [i \in UrlLines(lines) |-> M3uItem(lines, i)]
PlsItems(entries) == [i \in UrlLines(entries) |-> Item(entries[i].title, entries[i].url)]

\* A list holds the items of a file, each once and in the order of their lines.
InOrder(list, items) ==
    \E line \in [DOMAIN list -> DOMAIN items] :
       /\ \A i \in DOMAIN items : \E n \in DOMAIN list : line[n] = i
       /\ \A m, n \in DOMAIN list : m < n => line[m] < line[n]
       /\ \A n \in DOMAIN list : list[n] = items[line[n]]

\* What ends the reading: the first line that is neither an item nor passed over.
Stops(lines) == {i \in DOMAIN lines : lines[i].kind \in {"hls", "not_url", "raises"}}

StoppedBy(line) ==
    IF line.kind = "hls" THEN "supported" ELSE IF line.kind = "raises" THEN "raised" ELSE "error"

\* Nothing in the file can be played.
Barren(lines) == Stops(lines) # {} \/ UrlLines(lines) = {}

\* The reading ends in an exception that is no PlaylistError.
Escapes(lines) == Stops(lines) # {} /\ lines[Min(Stops(lines))].kind = "raises"

Means(parsed, lines, items) ==
    IF Stops(lines) # {} THEN parsed = Raised(StoppedBy(lines[Min(Stops(lines))]))
    ELSE IF UrlLines(lines) = {} THEN parsed = Raised("error")
    ELSE parsed.outcome = "items" /\ InOrder(parsed.items, items)
=============================================================================
