---------------------------- MODULE MediaResolution ----------------------------
(***************************************************************************)
(* async_play_media (media_player.py): from the service call to what       *)
(* quick_play is given. It awaits the media source, the cast platforms and *)
(* the playlist, and the options may change at each of them. urls.py       *)
(* decides what is rewritten to the device's override.                     *)
(***************************************************************************)
EXTENDS OptionsFlow, Naturals, Sequences

CONSTANTS
    Titles,         \* titles that are not empty
    Hosts,          \* scheme, host and port of a URL
    Pinned,         \* those is_hass_url knows
    Automatic,      \* this instance's by get_url alone
    Lookalikes,     \* others whose text begins with what get_url returns
    ItemHosts,      \* those that playlists name
    MaxLines        \* bound: lines of a playlist

ASSUME HostsAssumption ==
    /\ Bases \cup ItemHosts \cup Pinned \cup Automatic \cup Lookalikes \subseteq Hosts
    /\ (Pinned \cup Automatic) \cap Lookalikes = {}
    /\ MaxLines \in Nat

\* hls: a path under /api/hls/, which ends in .m3u8.
MediaUrl == [host : Hosts, path : {"hls", "m3u", "pls", "plain"}]
ItemUrls == [host : ItemHosts, path : {"plain"}]

INSTANCE PlaylistParsing WITH Urls <- ItemUrls

Lists(lines) == UNION {[1 .. n -> lines] : n \in 0 .. MaxLines}

VARIABLE play       \* the call, or None

resolutionVars == <<optionsVars, play>>

\* asked and caller: the URL once a media source is resolved, and the title in the
\* caller's metadata; url, title, live: what app_data holds; lines: of the playlist, None
\* unless one was fetched.
Call ==
    [stage : {"platforms", "fetching", "handed"}, device : Devices,
     asked : MediaUrl, caller : Titles \cup {None},
     url : MediaUrl, title : Titles \cup {None}, live : BOOLEAN,
     lines : Lists(M3uLine) \cup Lists(PlsEntry) \cup {None}]

-----------------------------------------------------------------------------
(* URLs. *)

\* _is_own_url: known to is_hass_url, or begins with what get_url returns.
IsOwnUrl(url) == url.host \in Pinned \cup Automatic \cup Lookalikes

\* Slip: every URL is rewritten.
RewriteAny(url, base) == [url EXCEPT !.host = base]
RewriteHassUrl(url, base) == IF IsOwnUrl(url) THEN [url EXCEPT !.host = base] ELSE url

\* _apply_url_override, with the options of this moment.
ApplyUrlOverride(d, url) ==
    IF overrides[d] = None THEN url ELSE RewriteHassUrl(url, overrides[d])

IsHassUrl(url) == url.host \in Pinned

\* Slips: a stream is a playlist by its ending, or live by its path.
EndsAsPlaylist(url) == url.path # "plain"
HlsPath(url) == url.path = "hls"
IsPlaylist(url) == ~IsHassUrl(url) /\ url.path # "plain"
IsStream(url) == IsHassUrl(url) /\ url.path = "hls"

-----------------------------------------------------------------------------
(* The call. *)

PlayMedia(d, asked, caller) ==
    /\ play = None
    /\ play' = [stage |-> "platforms", device |-> d, asked |-> asked, caller |-> caller,
                url |-> asked, title |-> caller, live |-> FALSE, lines |-> None]
    /\ UNCHANGED optionsVars

At(stage) == play # None /\ play.stage = stage

\* The media source cannot be resolved, a platform raises or plays it itself, or it
\* names a cast app, whose data go to quick_play as they are.
Elsewhere ==
    /\ At("platforms")
    /\ play' = None
    /\ UNCHANGED optionsVars

\* No platform wants it. Unless it is a playlist it goes to the default media receiver.
Resolve ==
    /\ At("platforms")
    /\ LET url == ApplyUrlOverride(play.device, play.asked)
       IN  play' = [play EXCEPT !.stage = IF IsPlaylist(url) THEN "fetching" ELSE "handed",
                                !.url = url, !.live = IsStream(url)]
    /\ UNCHANGED optionsVars

\* The first item of a list is played; its title, if it has one, takes the place of the
\* caller's metadata. After PlaylistSupported or PlaylistError the URL is forwarded. Any
\* other exception passes the except clauses, and the call ends with nothing sent.
PlayItem(parsed, lines) ==
    IF parsed.outcome = "raised" THEN None
    ELSE IF parsed.outcome # "items" THEN [play EXCEPT !.stage = "handed", !.lines = lines]
    ELSE LET first == Head(parsed.items)
         IN  [play EXCEPT !.stage = "handed", !.lines = lines, !.url = first.url,
                          !.title = IF first.title = None THEN @ ELSE first.title]

IsM3u(url) == url.path \in {"m3u", "hls"}

\* parse_playlist chooses the parser by the ending.
Fetched(lines) ==
    /\ At("fetching")
    /\ lines \in IF IsM3u(play.url) THEN Lists(M3uLine) ELSE Lists(PlsEntry)
    /\ play' = PlayItem(IF IsM3u(play.url) THEN ParseM3u(lines) ELSE ParsePls(lines), lines)
    /\ UNCHANGED optionsVars

\* No line is read. "error": not found, no answer in time, not text, or no valid pls;
\* "supported": an HLS content type; "raised": a charset nobody knows, or a pls whose
\* Version is no number or whose Version or NumberOfEntries holds a stray %.
NotFetched ==
    /\ At("fetching")
    /\ \E outcome \in {"supported", "error", "raised"} : play' = PlayItem(Raised(outcome), None)
    /\ UNCHANGED optionsVars

\* quick_play has taken it.
Taken ==
    /\ At("handed")
    /\ play' = None
    /\ UNCHANGED optionsVars

ResolutionInit == OptionsInit /\ play = None

\* What the call does by itself, and what a playlist may hold.
Proceed == Elsewhere \/ Resolve \/ NotFetched \/ Taken
PlaylistRead == \E lines \in Lists(M3uLine) \cup Lists(PlsEntry) : Fetched(lines)

ResolutionNext ==
    \/ OptionsNext /\ UNCHANGED play
    \/ \E d \in Devices, asked \in MediaUrl, caller \in Titles \cup {None} :
          PlayMedia(d, asked, caller)
    \/ Proceed
    \/ PlaylistRead

ResolutionSpec == ResolutionInit /\ [][ResolutionNext]_resolutionVars

\* Bound: from the reading of a playlist until its item is taken no flow is open and
\* none has raced. What follows the override reads no options.
AtRest == raced = {} /\ \A f \in Flows : flow[f] = None

BoundedResolutionNext ==
    \/ OptionsNext /\ UNCHANGED play /\ (At("handed") => play.lines = None)
    \/ \E d \in Devices, asked \in MediaUrl, caller \in Titles \cup {None} :
          PlayMedia(d, asked, caller)
    \/ Proceed
    \/ AtRest /\ PlaylistRead

BoundedResolutionSpec == ResolutionInit /\ [][BoundedResolutionNext]_resolutionVars

-----------------------------------------------------------------------------
(* Properties. *)

Resolved == At("platforms") /\ play' # None /\ play'.stage # "platforms"

Mine == Pinned \cup Automatic

\* A call that begins after an edit of its device's override was finished, and was not
\* raced, is rebased onto it, and nobody else's URL is: what stands between the user's
\* last word and the device is one read of the options, after the last await
\* (_apply_url_override).
RebasedAsEdited ==
    [][Resolved /\ play.device \notin raced
          => LET base == intended[play.device]
                 host == play.asked.host
             IN  play'.url.host = IF base # None /\ host \in Mine THEN base ELSE host
      ]_resolutionVars

\* The parsers return what a file says, each item once, in order, under its own title.
\* A playlist plays its first item, under its title or else the caller's, one that means
\* nothing to the parser goes out as it is, and none goes out whose reading ends in any
\* other exception (parse_m3u, parse_pls).
PlaysFirstItem ==
    At("handed") /\ play.lines # None =>
       LET lines == play.lines
           m3u == IsM3u(play.asked)
           items == IF m3u THEN M3uItems(lines) ELSE PlsItems(lines)
           first == items[Min(DOMAIN items)]
       IN  /\ Means(IF m3u THEN ParseM3u(lines) ELSE ParsePls(lines), lines, items)
           /\ ~Escapes(lines)
           /\ IF Barren(lines)
              THEN play.url.path = play.asked.path /\ play.title = play.caller
              ELSE /\ play.url = first.url
                   /\ play.title = IF first.title = None THEN play.caller ELSE first.title

\* The user's last word on a device decides how every stream of this instance reaches it:
\* at once and as live if the address the stream is left at, or rebased onto, is one that
\* is_hass_url knows, and otherwise through the playlist parser that its ending calls for
\* and never as live; nobody else's stream is live (stream_type, hlsVideoSegmentFormat).
LiveAsEdited ==
    [][Resolved /\ play.asked.path = "hls" /\ play.device \notin raced
          => LET base == intended[play.device]
                 own == play.asked.host \in Mine
                 host == IF own /\ base # None THEN base ELSE play.asked.host
             IN  /\ play'.live <=> host \in Pinned
                 /\ play'.stage = IF host \in Pinned THEN "handed" ELSE "fetching"
      ]_resolutionVars
=============================================================================
