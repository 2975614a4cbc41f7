----------------------------- MODULE NasEmmIes -----------------------------
(***************************************************************************)
(* NAS information elements of 24.301 sections 9.9.2 and 9.9.3: the common *)
(* ones and those of mobility management.  Half-octet elements are layouts *)
(* of four bits.                                                           *)
(* One layout per function of liblte_mme.cc, named without the prefix      *)
(* liblte_mme_.                                                            *)
(***************************************************************************)
EXTENDS BitLayout

(* A PLMN: the digits of the country code and of the network code, two per *)
(* octet, the third octet half being 15 when the network code has two      *)
(* digits.                                                                 *)
PackPlmn(mcc, mnc) ==
  <<Digits(mcc, <<10, 100>>),
    Case(Below(mnc, 100),
      <<Fill(15, 4), Digits(mcc, <<1>>), Digits(mnc, <<1, 10>>)>>,
      <<Digits(mnc, <<1>>), Digits(mcc, <<1>>), Digits(mnc, <<10, 100>>)>>)>>
UnpackPlmn(mcc, mnc) ==
  <<Digits(mcc, <<10, 100>>),
    Peek(4, 15,
      <<Skip(4), Add(mcc, <<1>>), Digits(mnc, <<1, 10>>)>>,
      <<Digits(mnc, <<1>>), Add(mcc, <<1>>), Add(mnc, <<10, 100>>)>>)>>

(* The digits 1 to 14 of an identity, two per octet. *)
IdDigits(id) ==
  [k \in 1..14 |-> Fld(id \o "[" \o ToString(IF k % 2 = 1 THEN k + 1 ELSE k - 1) \o "]", 4)]

pack_additional_information_ie ==
  <<Cnt("N_octets", 8, 0), Each("N_octets", "info", <<Fld("", 8)>>)>>

unpack_additional_information_ie ==
  <<Cnt("N_octets", 8, 0), Each("N_octets", "info", <<Fld("", 8)>>)>>

pack_device_properties_ie == <<Enum("", 4, 2)>>

unpack_device_properties_ie == <<Skip(3), Fld("", 1)>>

pack_eps_bearer_context_status_ie ==
  <<Fill(2, 8), Flags(<<"ebi[7]", "ebi[6]", "ebi[5]">>), Fill(0, 5),
    Flags(<<"ebi[15]", "ebi[14]", "ebi[13]", "ebi[12]", "ebi[11]", "ebi[10]", "ebi[9]", "ebi[8]">>)>>

unpack_eps_bearer_context_status_ie ==
  <<Skip(8), Flags(<<"ebi[7]", "ebi[6]", "ebi[5]">>), Skip(5),
    Flags(<<"ebi[15]", "ebi[14]", "ebi[13]", "ebi[12]", "ebi[11]", "ebi[10]", "ebi[9]", "ebi[8]">>)>>

pack_location_area_id_ie ==
  PackPlmn("mcc", "mnc") \o <<Fld("lac", 16)>>

unpack_location_area_id_ie ==
  UnpackPlmn("mcc", "mnc") \o <<Fld("lac", 16)>>

pack_mobile_id_ie ==
  <<Switch("type_of_id",
      <<Arm({1}, <<Fill(8, 8), Fld("imsi[0]", 4), Fill(1, 1), Fld("type_of_id", 3)>> \o IdDigits("imsi")),
        Arm({2}, <<Fill(8, 8), Fld("imei[0]", 4), Fill(1, 1), Fld("type_of_id", 3)>> \o IdDigits("imei")),
        Arm({3}, <<Fill(9, 8), Fld("imeisv[0]", 4), Fill(0, 1), Fld("type_of_id", 3)>>
                 \o IdDigits("imeisv") \o <<Fill(15, 4), Fld("imeisv[15]", 4)>>)>>, <<Fail>>)>>

unpack_mobile_id_ie ==
  <<Skip(8), Look("type_of_id", 5, 3),
    Switch("type_of_id",
      <<Arm({1}, <<Fld("imsi[0]", 4), Skip(4)>> \o IdDigits("imsi")),
        Arm({2}, <<Fld("imei[0]", 4), Skip(4)>> \o IdDigits("imei")),
        Arm({3}, <<Fld("imeisv[0]", 4), Skip(4)>> \o IdDigits("imeisv")
                 \o <<Skip(4), Fld("imeisv[15]", 4)>>)>>, <<Fail>>)>>

pack_mobile_station_classmark_2_ie ==
  <<Fill(3, 8), Fill(0, 1), Fld("rev_lev", 2), Flags(<<"es_ind", "a5_1">>), Fld("rf_power_cap", 3),
    Enum("ps_cap", 2, 2), Fld("ss_screen_ind", 2), Flags(<<"sm_cap", "vbs", "vgcs", "fc", "cm3">>),
    Enum("lcsva_cap", 2, 2), Flags(<<"ucs2", "solsa", "cmsp", "a5_3", "a5_2">>)>>

unpack_mobile_station_classmark_2_ie ==
  <<Skip(9), Fld("rev_lev", 2), Flags(<<"es_ind", "a5_1">>), Fld("rf_power_cap", 3), Skip(1),
    Fld("ps_cap", 1), Fld("ss_screen_ind", 2), Flags(<<"sm_cap", "vbs", "vgcs", "fc", "cm3">>),
    Skip(1), Flags(<<"lcsva_cap", "ucs2", "solsa", "cmsp", "a5_3", "a5_2">>)>>

pack_mobile_station_classmark_3_ie == <<>>

unpack_mobile_station_classmark_3_ie == <<>>

pack_nas_security_parameters_from_eutra_ie == <<Fill(0, 4), Fld("", 4)>>

unpack_nas_security_parameters_from_eutra_ie == <<Fld("", 8)>>

pack_nas_security_parameters_to_eutra_ie ==
  <<Fld("nonce_mme", 32), Fill(0, 1), Fld("eea", 3), Fill(0, 1), Fld("eia", 3), Fill(0, 4),
    Fld("tsc_flag", 1), Fld("nas_ksi", 3)>>

unpack_nas_security_parameters_to_eutra_ie ==
  <<Fld("nonce_mme", 32), Skip(1), Fld("eea", 3), Skip(1), Fld("eia", 3), Skip(4),
    Fld("tsc_flag", 1), Fld("nas_ksi", 3)>>

pack_plmn_list_ie ==
  (* The first PLMN is written over the octet count.  plmn[i].mcc stands for *)
  (* mcc[i], plmn[i].mnc for mnc[i].                                         *)
  <<When(Some("N_plmns"), <<Each("N_plmns", "plmn", PackPlmn("mcc", "mnc"))>>), Fill(0, 8)>>

unpack_plmn_list_ie ==
  <<Counted(1, <<Look("N_plmns", 0, 8), Quotient("N_plmns", 3),
                 Each("N_plmns", "plmn", UnpackPlmn("mcc", "mnc"))>>)>>

pack_supported_codec_list_ie ==
  <<Mul("N_supported_codecs", 8, 4, 0),
    Each("N_supported_codecs", "supported_codec",
      <<Fld("sys_id", 8), Fill(2, 8), Fld("codec_bitmap", 16)>>)>>

unpack_supported_codec_list_ie ==
  <<Mul("N_supported_codecs", 8, 4, 0),
    Each("N_supported_codecs", "supported_codec",
      <<Fld("sys_id", 8), Skip(8), Fld("codec_bitmap", 16)>>)>>

pack_additional_update_result_ie == <<Enum("", 4, 4)>>

unpack_additional_update_result_ie == <<Skip(2), Fld("", 2)>>

pack_additional_update_type_ie == <<Enum("", 4, 2)>>

unpack_additional_update_type_ie == <<Skip(3), Fld("", 1)>>

pack_authentication_failure_parameter_ie == <<Fill(14, 8), Times(14, "", <<Fld("", 8)>>)>>

unpack_authentication_failure_parameter_ie == <<Skip(8), Times(14, "", <<Fld("", 8)>>)>>

pack_authentication_parameter_autn_ie == <<Fill(16, 8), Times(16, "", <<Fld("", 8)>>)>>

unpack_authentication_parameter_autn_ie == <<Skip(8), Times(16, "", <<Fld("", 8)>>)>>

pack_authentication_parameter_rand_ie == <<Times(16, "", <<Fld("", 8)>>)>>

unpack_authentication_parameter_rand_ie == <<Times(16, "", <<Fld("", 8)>>)>>

pack_authentication_response_parameter_ie == <<Fill(8, 8), Times(8, "", <<Fld("", 8)>>)>>

unpack_authentication_response_parameter_ie ==
  <<Fld("length", 8), Each("length", "", <<Fld("", 8)>>)>>

pack_ciphering_key_sequence_number_ie == <<Fill(0, 1), Fld("", 3)>>

unpack_ciphering_key_sequence_number_ie == <<Skip(1), Fld("", 3)>>

pack_csfb_response_ie == <<Fill(0, 1), Fld("", 3)>>

unpack_csfb_response_ie == <<Skip(1), Fld("", 3)>>

pack_daylight_saving_time_ie == <<Fill(1, 8), Fill(0, 6), Fld("", 2)>>

unpack_daylight_saving_time_ie == <<Skip(14), Fld("", 2)>>

pack_detach_type_ie == <<Fld("switch_off", 1), Fld("type_of_detach", 3)>>

unpack_detach_type_ie == <<Fld("switch_off", 1), Fld("type_of_detach", 3)>>

pack_drx_parameter_ie ==
  <<Fld("split_pg_cycle_code", 8), Fld("drx_cycle_len_coeff_and_value", 4),
    Fld("split_on_ccch", 1), Fld("non_drx_timer", 3)>>

unpack_drx_parameter_ie ==
  <<Fld("split_pg_cycle_code", 8), Fld("drx_cycle_len_coeff_and_value", 4),
    Fld("split_on_ccch", 1), Fld("non_drx_timer", 3)>>

pack_emm_cause_ie == <<Fld("", 8)>>

unpack_emm_cause_ie == <<Fld("", 8)>>

pack_eps_attach_result_ie == <<Enum("", 4, 8)>>

unpack_eps_attach_result_ie == <<Skip(1), Fld("", 3)>>

pack_eps_attach_type_ie == <<Enum("", 4, 8)>>

unpack_eps_attach_type_ie == <<Skip(1), Fld("", 3)>>

pack_eps_mobile_id_ie ==
  <<Switch("type_of_id",
      <<Arm({6}, <<Fill(11, 8), Fill(15, 4), Fill(0, 1), Fld("type_of_id", 3)>>
                 \o PackPlmn("guti.mcc", "guti.mnc")
                 \o <<Fill(0, 4), Part("guti.mme_group_id", 8, 4),
                      Fill(0, 4), Part("guti.mme_group_id", 0, 4),
                      Fld("guti.mme_code", 8), Fld("guti.m_tmsi", 32)>>),
        Arm({1}, <<Fill(8, 8), Fld("imsi[0]", 4), Fill(1, 1), Fld("type_of_id", 3)>> \o IdDigits("imsi"))>>,
      <<Fill(8, 8), Fld("imei[0]", 4), Fill(1, 1), Fld("type_of_id", 3)>> \o IdDigits("imei"))>>

unpack_eps_mobile_id_ie ==
  <<Skip(8), Look("type_of_id", 5, 3),
    Switch("type_of_id",
      <<Arm({6}, <<Skip(8)>> \o UnpackPlmn("guti.mcc", "guti.mnc")
                 \o <<Fld("guti.mme_group_id", 16), Fld("guti.mme_code", 8), Fld("guti.m_tmsi", 32)>>),
        Arm({1}, <<Fld("imsi[0]", 4), Skip(4)>> \o IdDigits("imsi"))>>,
      <<Fld("imei[0]", 4), Skip(4)>> \o IdDigits("imei"))>>

pack_eps_network_feature_support_ie ==
  <<Fill(1, 8), Enum("esrps", 3, 2), Fld("cs_lcs", 2), Flags(<<"epc_lcs", "emc_bs", "ims_vops">>)>>

unpack_eps_network_feature_support_ie ==
  <<Skip(10), Fld("esrps", 1), Fld("cs_lcs", 2), Flags(<<"epc_lcs", "emc_bs", "ims_vops">>)>>

pack_eps_update_result_ie == <<Fill(0, 1), Fld("", 3)>>

unpack_eps_update_result_ie == <<Skip(1), Fld("", 3)>>

pack_eps_update_type_ie == <<Fld("active_flag", 1), Fld("type", 3)>>

unpack_eps_update_type_ie == <<Fld("active_flag", 1), Fld("type", 3)>>

pack_esm_message_container_ie == <<Cnt("N_bytes", 16, 0), Each("N_bytes", "msg", <<Fld("", 8)>>)>>

unpack_esm_message_container_ie == <<Cnt("N_bytes", 16, 0), Each("N_bytes", "msg", <<Fld("", 8)>>)>>

pack_gprs_timer_ie == <<Fld("unit", 3), Fld("value", 5)>>

unpack_gprs_timer_ie == <<Fld("unit", 3), Fld("value", 5)>>

pack_gprs_timer_2_ie == <<Fill(1, 8), Fld("", 8)>>

unpack_gprs_timer_2_ie == <<Skip(8), Fld("", 8)>>

pack_gprs_timer_3_ie == <<Fill(1, 8), Fld("unit", 3), Fld("value", 5)>>

unpack_gprs_timer_3_ie == <<Skip(8), Fld("unit", 3), Fld("value", 5)>>

pack_identity_type_2_ie == <<Enum("", 4, 8)>>

unpack_identity_type_2_ie == <<Skip(1), Fld("", 3)>>

pack_imeisv_request_ie == <<Enum("", 4, 8)>>

unpack_imeisv_request_ie == <<Skip(1), Fld("", 3)>>

pack_ksi_and_sequence_number_ie == <<Fld("ksi", 3), Fld("seq_num", 5)>>

unpack_ksi_and_sequence_number_ie == <<Fld("ksi", 3), Fld("seq_num", 5)>>

pack_ms_network_capability_ie ==
  <<Fill(3, 8), Flags(<<"gea[1]", "sm_cap_ded", "sm_cap_gprs", "ucs2">>), Fld("ss_screening", 2),
    Flags(<<"solsa", "revision", "pfc", "gea[2]", "gea[3]", "gea[4]", "gea[5]", "gea[6]", "gea[7]",
      "lcsva", "ho_g2u_via_iu", "ho_g2e_via_s1", "emm_comb", "isr", "srvcc", "epc", "nf">>),
    Fill(0, 1)>>

unpack_ms_network_capability_ie ==
  <<Counted(1,
      <<Skip(8), Flags(<<"gea[1]", "sm_cap_ded", "sm_cap_gprs", "ucs2">>), Fld("ss_screening", 2),
        Flags(<<"solsa", "revision", "pfc", "gea[2]", "gea[3]", "gea[4]", "gea[5]", "gea[6]",
          "gea[7]", "lcsva", "ho_g2u_via_iu", "ho_g2e_via_s1", "emm_comb", "isr", "srvcc", "epc",
          "nf">>),
        Skip(1)>>)>>

pack_nas_key_set_id_ie == <<Fld("tsc_flag", 1), Fld("nas_ksi", 3)>>

unpack_nas_key_set_id_ie == <<Fld("tsc_flag", 1), Fld("nas_ksi", 3)>>

pack_nas_message_container_ie == <<Cnt("N_bytes", 8, 0), Each("N_bytes", "msg", <<Fld("", 8)>>)>>

unpack_nas_message_container_ie == <<Cnt("N_bytes", 8, 0), Each("N_bytes", "msg", <<Fld("", 8)>>)>>

pack_nas_security_algorithms_ie == <<Enum("type_of_eea", 4, 8), Enum("type_of_eia", 4, 8)>>

unpack_nas_security_algorithms_ie ==
  <<Skip(1), Fld("type_of_eea", 3), Skip(1), Fld("type_of_eia", 3)>>

pack_network_name_ie ==
  <<Septets("size", "name")>>

unpack_network_name_ie ==
  <<Septets("size", "name")>>

pack_nonce_ie == <<Fld("", 32)>>

unpack_nonce_ie == <<Fld("", 32)>>

pack_paging_identity_ie == <<Fill(0, 7), Fld("", 1)>>

unpack_paging_identity_ie == <<Skip(7), Fld("", 1)>>

pack_p_tmsi_signature_ie == <<Fld("", 32)>>

unpack_p_tmsi_signature_ie == <<Fld("", 32)>>

pack_service_type_ie == <<Fld("", 4)>>

unpack_service_type_ie == <<Fld("", 4)>>

pack_short_mac_ie == <<Fld("", 16)>>

unpack_short_mac_ie == <<Fld("", 16)>>

pack_time_zone_ie == <<Fld("", 8)>>

unpack_time_zone_ie == <<Fld("", 8)>>

pack_time_zone_and_time_ie ==
  <<Digits("year", <<1, 10>>), Digits("month", <<1, 10>>), Digits("day", <<1, 10>>),
    Digits("hour", <<1, 10>>), Digits("minute", <<1, 10>>), Digits("second", <<1, 10>>),
    Fld("tz", 8)>>

unpack_time_zone_and_time_ie ==
  <<Digits("year", <<1, 10>>), Plus("year", 2000), Digits("month", <<1, 10>>),
    Digits("day", <<1, 10>>), Digits("hour", <<1, 10>>), Digits("minute", <<1, 10>>),
    Digits("second", <<1, 10>>), Fld("tz", 8)>>

pack_tmsi_status_ie == <<Enum("", 4, 2)>>

unpack_tmsi_status_ie == <<Skip(3), Fld("", 1)>>

pack_tracking_area_id_ie ==
  PackPlmn("mcc", "mnc") \o <<Fld("tac", 16)>>

unpack_tracking_area_id_ie ==
  UnpackPlmn("mcc", "mnc") \o <<Fld("tac", 16)>>

pack_tracking_area_identity_list_ie ==
  <<Mul("N_tais", 8, 5, 1),
    Case(Is("N_tais", 1), <<Fill(0, 3), Bias("N_tais", 5, -1)>>, <<Fill(2, 3), Bias("N_tais", 5, -1)>>),
    Each("N_tais", "tai", pack_tracking_area_id_ie)>>

unpack_tracking_area_identity_list_ie ==
  <<Counted(1, <<Skip(8), Put("N_tais", 0),
      While(0, <<Skip(1), Fld("type", 2), Fld("N_elems", 5),
        Switch("type",
          <<Arm({0}, UnpackPlmn("mcc", "mnc")
                     \o <<Repeat("N_elems", <<More("N_tais", "tai",
                            <<From("mcc", "mcc"), From("mnc", "mnc"), Fld("tac", 16)>>)>>)>>),
            Arm({1}, UnpackPlmn("mcc", "mnc")
                     \o <<Fld("tac", 16),
                          Repeat("N_elems", <<More("N_tais", "tai",
                            <<From("mcc", "mcc"), From("mnc", "mnc"), From("tac", "tac")>>),
                            Plus("tac", 1)>>)>>)>>,
          <<Repeat("N_elems", <<More("N_tais", "tai",
              UnpackPlmn("mcc", "mnc") \o <<Fld("tac", 16)>>)>>)>>)>>)>>)>>

pack_ue_network_capability_ie ==
  <<Case(On("uea_present"),
      OneOf(<<"ucs2_present", "uia_present">>,
        OneOf(<<"lpp_present", "lcs_present", "onexsrvcc_present", "nf_present">>,
          <<Fill(5, 8)>>, <<Fill(4, 8)>>),
        <<Fill(3, 8)>>),
      <<Fill(2, 8)>>),
    Flags(<<"eea[0]", "eea[1]", "eea[2]", "eea[3]", "eea[4]", "eea[5]", "eea[6]", "eea[7]">>),
    Flags(<<"eia[0]", "eia[1]", "eia[2]", "eia[3]", "eia[4]", "eia[5]", "eia[6]", "eia[7]">>),
    When(On("uea_present"),
      <<Flags(<<"uea[0]", "uea[1]", "uea[2]", "uea[3]", "uea[4]", "uea[5]", "uea[6]", "uea[7]">>)>>)>>
  \o OneOf(<<"ucs2_present", "uia_present">>,
       <<Fld("ucs2", 1), Flags(<<"uia[1]", "uia[2]", "uia[3]", "uia[4]", "uia[5]", "uia[6]", "uia[7]">>)>>, <<>>)
  \o OneOf(<<"lpp_present", "lcs_present", "onexsrvcc_present", "nf_present">>,
       <<Fill(0, 4), Flags(<<"lpp", "lcs", "onexsrvcc", "nf">>)>>, <<>>)

unpack_ue_network_capability_ie ==
  <<Fld("length", 8),
    Flags(<<"eea[0]", "eea[1]", "eea[2]", "eea[3]", "eea[4]", "eea[5]", "eea[6]", "eea[7]">>),
    Flags(<<"eia[0]", "eia[1]", "eia[2]", "eia[3]", "eia[4]", "eia[5]", "eia[6]", "eia[7]">>),
    Case(Above("length", 2),
      <<Flags(<<"uea[0]", "uea[1]", "uea[2]", "uea[3]", "uea[4]", "uea[5]", "uea[6]", "uea[7]">>),
        Put("uea_present", 1)>>,
      <<Put("uea_present", 0)>>),
    Case(Above("length", 3),
      <<Fld("ucs2", 1), Put("ucs2_present", 1),
        Flags(<<"uia[1]", "uia[2]", "uia[3]", "uia[4]", "uia[5]", "uia[6]", "uia[7]">>),
        Put("uia_present", 1)>>,
      <<Put("ucs2_present", 0), Put("uia_present", 0)>>),
    (* nf is the octet shifted right by one, as a bool. *)
    Case(Above("length", 4),
      <<Fld("spare", 4), Flags(<<"lpp", "lcs", "onexsrvcc">>), Skip(1),
        Put("lpp_present", 1), Put("lcs_present", 1), Put("onexsrvcc_present", 1),
        Put("nf_present", 1)>>
      \o OneOf(<<"spare", "lpp", "lcs", "onexsrvcc">>, <<Put("nf", 1)>>, <<Put("nf", 0)>>),
      <<Put("lpp_present", 0), Put("lcs_present", 0), Put("onexsrvcc_present", 0),
        Put("nf_present", 0)>>),
    When(Above("length", 5), <<Jump("length", -5)>>)>>

pack_ue_radio_capability_update_needed_ie == <<Fill(0, 3), Fld("", 1)>>

unpack_ue_radio_capability_update_needed_ie == <<Skip(3), Fld("", 1)>>

pack_ue_security_capabilities_ie ==
  <<Case(On("uea_present"),
      <<Case(On("uia_present"),
          <<Case(On("gea_present"), <<Fill(5, 8)>>, <<Fill(4, 8)>>)>>,
          <<Fill(3, 8)>>)>>,
      <<Fill(2, 8)>>),
    Flags(<<"eea[0]", "eea[1]", "eea[2]", "eea[3]", "eea[4]", "eea[5]", "eea[6]", "eea[7]">>),
    Flags(<<"eia[0]", "eia[1]", "eia[2]", "eia[3]", "eia[4]", "eia[5]", "eia[6]", "eia[7]">>),
    When(On("uea_present"),
      <<Flags(<<"uea[0]", "uea[1]", "uea[2]", "uea[3]", "uea[4]", "uea[5]", "uea[6]", "uea[7]">>)>>),
    When(On("uia_present"),
      <<Fill(0, 1), Flags(<<"uia[1]", "uia[2]", "uia[3]", "uia[4]", "uia[5]", "uia[6]", "uia[7]">>)>>),
    When(On("gea_present"),
      <<Fill(0, 1), Flags(<<"gea[1]", "gea[2]", "gea[3]", "gea[4]", "gea[5]", "gea[6]", "gea[7]">>)>>)>>

unpack_ue_security_capabilities_ie ==
  <<Counted(1,
      <<Fld("length", 8),
        Flags(<<"eea[0]", "eea[1]", "eea[2]", "eea[3]", "eea[4]", "eea[5]", "eea[6]", "eea[7]">>),
        Flags(<<"eia[0]", "eia[1]", "eia[2]", "eia[3]", "eia[4]", "eia[5]", "eia[6]", "eia[7]">>),
        Case(Above("length", 2),
          <<Flags(<<"uea[0]", "uea[1]", "uea[2]", "uea[3]", "uea[4]", "uea[5]", "uea[6]", "uea[7]">>),
            Put("uea_present", 1)>>,
          <<Skip(8), Put("uea_present", 0)>>),
        Case(Above("length", 3),
          <<Skip(1), Flags(<<"uia[1]", "uia[2]", "uia[3]", "uia[4]", "uia[5]", "uia[6]", "uia[7]">>),
            Put("uia_present", 1)>>,
          <<Skip(8), Put("uia_present", 0)>>),
        Case(Above("length", 4),
          <<Skip(1), Flags(<<"gea[1]", "gea[2]", "gea[3]", "gea[4]", "gea[5]", "gea[6]", "gea[7]">>),
            Put("gea_present", 1)>>,
          <<Put("gea_present", 0)>>)>>)>>

pack_emergency_number_list_ie ==
  (* The count and the step forward are one octet short. *)
  <<Framed(<<Each("N_emerg_nums", "emerg_num",
      <<Scl("N_emerg_num_digits", 8, 1, 2, 1), Fld("emerg_service_cat", 8),
        Pairs("N_emerg_num_digits", "emerg_num")>>)>>, 1)>>

unpack_emergency_number_list_ie ==
  <<Counted(1, <<Skip(8), Put("N_emerg_nums", 0),
      While(0, <<More("N_emerg_nums", "emerg_num",
        <<Scl("N_emerg_num_digits", 8, 0, 2, 1), Skip(3), Fld("emerg_service_cat", 5),
          Pairs("N_emerg_num_digits", "emerg_num")>>)>>)>>)>>

pack_ss_code_ie == <<Fld("", 8)>>

unpack_ss_code_ie == <<Fld("", 8)>>

pack_lcs_indicator_ie == <<Fld("", 8)>>

unpack_lcs_indicator_ie == <<Fld("", 8)>>

pack_generic_message_container_type_ie == <<Fld("", 8)>>

unpack_generic_message_container_type_ie == <<Fld("", 8)>>

pack_generic_message_container_ie ==
  <<Cnt("N_bytes", 16, 0), Each("N_bytes", "msg", <<Fld("", 8)>>)>>

unpack_generic_message_container_ie ==
  <<Cnt("N_bytes", 16, 0), Each("N_bytes", "msg", <<Fld("", 8)>>)>>

pack_voice_domain_pref_and_ue_usage_setting_ie ==
  <<Fill(1, 8), Enum("ue_usage_setting", 6, 2), Fld("voice_domain_pref", 2)>>

unpack_voice_domain_pref_and_ue_usage_setting_ie ==
  <<Skip(13), Fld("ue_usage_setting", 1), Fld("voice_domain_pref", 2)>>

pack_guti_type_ie == <<Enum("", 4, 2)>>

unpack_guti_type_ie == <<Skip(3), Fld("", 1)>>

============================================================================
