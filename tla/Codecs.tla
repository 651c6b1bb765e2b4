------------------------------- MODULE Codecs -------------------------------
(***************************************************************************)
(* src/stream.rs: the codec tags this wire knows and what each makes of a  *)
(* stream.  A stream here is its media and its tag; a tag is its text, or  *)
(* for bytes that are none, their hexadecimal.                             *)
(***************************************************************************)
EXTENDS TLC

PixFmts ==
  "RGBA" :> "rgba" @@ "I420" :> "yuv420p" @@ "Y42B" :> "yuv422p" @@
  "444P" :> "yuv444p" @@ "Y800" :> "gray"

SampleFmts == "PFD " :> "f32" @@ "50534410" :> "s16"

(* Each codec under every tag it is known by.                              *)
CodedVideo ==
  [tag \in {"H264", "h264", "avc1", "AVC1"} |-> "h264"] @@
  [tag \in {"HEVC", "hevc", "hev1", "hvc1"} |-> "hevc"] @@
  [tag \in {"AV01", "av01"} |-> "av1"]

CodedAudio == [tag \in {"ff000000", "mp4a", "MP4A"} |-> "aac"]

(* The tags above that are not four printable bytes.                       *)
Unprintable == {"ff000000", "50534410"}

NoName == "none"

IsJson(s) == s.media = "data" /\ s.tag = "JSON"

IsAnnotations(s) == s.media = "data" /\ s.tag = "FRWD"

NameAmong(table, other, raw, tag) ==
  IF tag \in DOMAIN table THEN table[tag]
  ELSE IF tag \in DOMAIN raw \cup DOMAIN other \cup Unprintable THEN NoName
  ELSE tag

(* codec_name: a tag that no table names is a codec by its own text.       *)
CodecName(s) ==
  CASE s.media = "video" -> NameAmong(CodedVideo, CodedAudio, PixFmts, s.tag)
    [] s.media = "audio" -> NameAmong(CodedAudio, CodedVideo, SampleFmts, s.tag)
    [] OTHER             -> IF IsJson(s) THEN "json" ELSE NoName
=============================================================================
