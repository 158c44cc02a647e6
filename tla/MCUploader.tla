----------------------------- MODULE MCUploader -----------------------------
EXTENDS Uploader
=============================================================================
