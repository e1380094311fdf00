------------------------------- MODULE MCRtc -------------------------------
(* Rtc for TLC: noon and midnight in the twelve-hour settings.             *)
EXTENDS Rtc

MCLengths == <<3, 2, 24, 2>>
MCTwelve == {<<0, 0, h, 0>> : h \in {0, 12}}
TwelveHourFormats == {f \in Format : ~f.hours24}
=============================================================================
