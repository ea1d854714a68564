---------------------------- MODULE MCTranscripts ----------------------------
(***************************************************************************)
(* What TLC evaluates of Transcripts before a run of MCLetsPlay, which     *)
(* extends this module.                                                    *)
(***************************************************************************)
LOCAL INSTANCE Integers
LOCAL INSTANCE Sequences
LOCAL INSTANCE FiniteSets
T == INSTANCE Transcripts

LOCAL Lines == [1..3 -> UNION {[1..n -> {"a", "b"}] : n \in 0..2}]

LOCAL Rolling == <<<<"a">>, <<"a", "b">>, <<"a", "b", "a">>>>

LOCAL Speech(lines) == [kind |-> "speech", lines |-> lines]
LOCAL Bodies == {Speech(<<<<"a", "b">>>>), Speech(<<<<>>>>), [kind |-> "manifest"],
                 [kind |-> "empty"], [kind |-> "broken"]}

LOCAL Track(lang, readable, body) ==
  [lang |-> lang, begins |-> IF lang = "en-GB" THEN {"en"} ELSE {lang},
   readable |-> readable, body |-> body]

LOCAL Clip(written, automatic, hosted) ==
  [reachable |-> TRUE, written |-> written, automatic |-> automatic, hosted |-> hosted]

LOCAL Videos ==
  {Clip(<<>>, <<Track("en-GB", r, b), Track("de", TRUE, c)>>, h) :
     r \in BOOLEAN, b \in Bodies, c \in Bodies, h \in Bodies}

LOCAL Orders == {<<"en", "de">>, <<"de", "en">>}

LOCAL Cascaded(video, enabled, languages, minimum) ==
  T!Cascade(<<"ytdlp", "hosted_api", "other", "asr", "metadata_only">>, enabled, video,
            languages, minimum)

\* Captions that roll come out once, and taking the repeats out loses no word that was
\* said (clean_captions).
ASSUME NothingSaidIsLost ==
  /\ T!CleanCaptions(Rolling) = <<<<"a", "b", "a">>>>
  /\ \A lines \in Lines :
       LET words(ls) == UNION {{ls[i][k] : k \in DOMAIN ls[i]} : i \in DOMAIN ls}
       IN  words(T!CleanCaptions(lines)) = words(lines)

\* An attempt is recorded for each provider asked; the last one succeeded or none did,
\* and a result is text as long as it must be, whatever the providers were sent
\* (TranscriptCascade.fetch).
ASSUME EveryAttemptIsRecorded ==
  \A video \in Videos, enabled \in SUBSET {"ytdlp", "hosted_api", "asr"}, minimum \in {1, 2} :
    LET outcome == Cascaded(video, enabled \cup {"metadata_only"}, <<"en", "de">>, minimum)
        n == Len(outcome.attempts)
    IN  /\ \A i \in 1..n : outcome.attempts[i].ok <=> (outcome.result # <<>> /\ i = n)
        /\ outcome.result = <<>> => n = 4
        /\ outcome.result # <<>> => outcome.result[1].chars >= minimum
        /\ \A i \in 1..n : outcome.attempts[i].ok \/ outcome.attempts[i].error # "none"

\* The first readable track decides: when what it has is not speech, a good track in
\* another language is not read, and the provider fails (YtDlpProvider.fetch).
ASSUME FirstTrackDecides ==
  \A video \in Videos :
    LET outcome == Cascaded(video, {"ytdlp"}, <<"en", "de">>, 1)
        first == video.automatic[1]
    IN  first.readable =>
          ((outcome.result # <<>>) <=> (T!Read(first.body).kind = "text"))

\* The languages are a set, walked in the order of one process: with two of them, whether
\* a video has a transcript may differ from one process to another.
ASSUME OrderOfLanguagesDecides ==
  /\ \E video \in Videos :
       {Cascaded(video, {"ytdlp"}, order, 1).result = <<>> : order \in Orders} = BOOLEAN
  /\ \A video \in Videos :
       \A order \in Orders :
         Cascaded(video, {"ytdlp"}, order, 1).result # <<>>
           => \E i \in DOMAIN video.automatic :
                T!Read(video.automatic[i].body).kind = "text"

\* English captions are read where no English is allowed, when there are no others.
ASSUME EnglishIsTheLastResort ==
  \A b \in Bodies :
    LET video == Clip(<<>>, <<Track("en-GB", TRUE, b)>>, [kind |-> "empty"])
    IN  T!YtDlp(video, <<"de">>) = T!Read(b)

\* Captions somebody wrote are never read when there are automatic ones in the language.
ASSUME AutomaticReplacesWritten ==
  \A b \in Bodies, c \in Bodies :
    LET video == Clip(<<Track("en", TRUE, b)>>, <<Track("en", TRUE, c)>>, [kind |-> "empty"])
    IN  T!YtDlp(video, <<"en">>) = T!Read(c)
=============================================================================
