----------------------------- MODULE MCToolCall ------------------------------
(***************************************************************************)
(* A user that need not be in the users file, settings that are recognized,*)
(* that are misspelt, and that turn encryption off.                        *)
(***************************************************************************)
EXTENDS ToolCall

MCUsers == {"alice"}
MCCompressionSettings == {"zstd", "ztsd"}
MCEncryptionSettings == {"aes_256_gcm", "aes-256", "off"}
==============================================================================
