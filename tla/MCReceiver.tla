----------------------------- MODULE MCReceiver -----------------------------
(* Instances of Receiver: the callbacks a run lets UxPlay make. *)
EXTENDS Receiver

MCAllHttp == {"conn_init", "conn_teardown", "on_video_play", "on_video_stop",
              "video_reset", "video_shutdown"}
MCAllStream == {"conn_reset", "video_reset", "video_shutdown", "video_set_codec"}
MCConnect == {"conn_init"}
MCNone == {}
=============================================================================
