----------------------------- MODULE Transcripts -----------------------------
(***************************************************************************)
(* Where the transcript of a video comes from: the cascade of providers    *)
(* (app/adapters/youtube/transcripts/base.py) and the providers            *)
(* (providers.py), each asked once and in order.                           *)
(*                                                                         *)
(* A body is what a provider is sent: kind "speech", "manifest" (a list of *)
(* URLs), "empty", or "broken" (JSON that does not parse), with its        *)
(* caption lines.  An answer is a text, or why there is none.              *)
(***************************************************************************)
EXTENDS Integers, Sequences, FiniteSets, FiniteSetsExt, SequencesExt

Text(lines) == [kind |-> "text", chars |-> Len(FlattenSeq(lines)), lines |-> lines]
Failure(why) == [kind |-> "failed", why |-> why]
Nothing == [kind |-> "nothing"]

----------------------------------------------------------------------------
(* Captions.  A line is a sequence of words; an empty one is markup only.  *)

Continues(line, last) == IsPrefix(last, line) \/ IsSuffix(line, last)

Longer(line, last) == IF Len(line) > Len(last) THEN line ELSE last

\* clean_captions: a rolling line takes the place of the line it continues.
CleanCaptions(lines) ==
  FoldLeft(LAMBDA kept, line :
             IF line = <<>> THEN kept
             ELSE IF kept # <<>> /\ Continues(line, Last(kept))
               THEN Append(Front(kept), Longer(line, Last(kept)))
               ELSE Append(kept, line),
           <<>>, lines)

\* What a provider makes of a body it has.
Read(body) ==
  CASE body.kind = "empty" -> Failure("empty")
    [] body.kind = "broken" -> Failure("crashed")
    [] body.kind = "manifest" -> Failure("not-subtitles")
    [] body.kind = "speech" ->
         IF CleanCaptions(body.lines) = <<>> THEN Failure("no-text")
         ELSE Text(CleanCaptions(body.lines))

----------------------------------------------------------------------------
(* The providers.  A video has two sequences of tracks, written and automatic; *)
(* a track has its language, the codes that language begins with, whether it   *)
(* has a format that is readable, and a body.                                  *)

Languages(tracks) == {tracks[i].lang : i \in DOMAIN tracks}

\* The two dictionaries in one: an automatic track takes the place of a written one.
Tracks(video) ==
  LET automatic(lang) == SelectSeq(video.automatic, LAMBDA t : t.lang = lang)
      replaced == [i \in DOMAIN video.written |->
                     Head(Append(automatic(video.written[i].lang), video.written[i]))]
  IN  replaced \o SelectSeq(video.automatic,
                            LAMBDA t : t.lang \notin Languages(video.written))

\* YtDlpProvider.fetch: the first track with a readable format whose language begins
\* with the first code that has one, English being the last resort.  The codes come
\* from a frozenset: languages is one order of it.
YtDlp(video, languages) ==
  LET codes == Append(languages, "en")
      wanted == [i \in DOMAIN codes |->
                   SelectSeq(Tracks(video), LAMBDA t : codes[i] \in t.begins /\ t.readable)]
      candidates == FlattenSeq(wanted)
  IN  CASE ~video.reachable -> Failure("unreachable")
        [] video.reachable /\ candidates = <<>> -> Nothing
        [] video.reachable /\ candidates # <<>> -> Read(candidates[1].body)

\* HostedApiProvider.fetch
HostedApi(video) == Read(video.hosted)

\* AsrProvider.fetch raises, and MetadataOnlyProvider.fetch has nothing.
Asr == Failure("not-wired")
MetadataOnly == Nothing

\* build_transcript_providers: names it does not know are left out.
Build(names) ==
  SelectSeq(names, LAMBDA n : n \in {"ytdlp", "hosted_api", "asr", "metadata_only"})

Ask(provider, video, languages) ==
  CASE provider = "ytdlp" -> YtDlp(video, languages)
    [] provider = "hosted_api" -> HostedApi(video)
    [] provider = "asr" -> Asr
    [] provider = "metadata_only" -> MetadataOnly

----------------------------------------------------------------------------
(* The cascade *)

Genuine(answer, minimum) == answer.kind = "text" /\ answer.chars >= minimum

\* _attempt
Attempt(provider, enabled, answer, minimum) ==
  [provider |-> provider,
   ok |-> provider \in enabled /\ Genuine(answer, minimum),
   error |-> IF provider \notin enabled THEN "disabled"
             ELSE IF answer.kind = "failed" THEN answer.why
             ELSE IF Genuine(answer, minimum) THEN "none" ELSE "too-short"]

\* TranscriptCascade.fetch
Cascade(names, enabled, video, languages, minimum) ==
  LET providers == Build(names)
      answer(i) == Ask(providers[i], video, languages)
      good == {i \in DOMAIN providers :
                 providers[i] \in enabled /\ Genuine(answer(i), minimum)}
      asked == IF good = {} THEN Len(providers) ELSE Min(good)
  IN  [result |-> IF good = {} THEN <<>> ELSE <<answer(asked)>>,
       attempts |-> [i \in 1..asked |-> Attempt(providers[i], enabled, answer(i), minimum)]]
=============================================================================
